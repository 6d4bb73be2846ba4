---------------------------- MODULE Timer_proofs ----------------------------
(***************************************************************************)
(* Proofs about work timers and what their users are told, for any calls,  *)
(* any users and any pool size.                                            *)
(***************************************************************************)
EXTENDS TimerService, FiniteSetTheorems, TLAPS

-----------------------------------------------------------------------------
(* The inductive invariant. *)

\* The new row exists from the INSERT on, which is the last thing but the
\* commit that a start does.
Inserted == \A t \in timers : pc[t] \in {"txCommit", "done"}

\* Snapshots, closed rows and the history hold rows of the call's own user.
Owned ==
    \A c \in Call : \A t \in seen[c] \cup closing[c] \cup known[c] :
        t \in timers /\ user[t] = user[c]

\* A call that has not begun has no such rows.
Fresh ==
    \A c \in Call :
        /\ pc[c] = "idle" => seen[c] = {}
        /\ pc[c] \notin {"txInsert", "txCommit"} => closing[c] = {}
        /\ answer[c].code = "OK" => pc[c] = "done"

\* The rows a transaction has closed are open for everybody else, and locked.
Locked ==
    \A c \in Call : \A t \in closing[c] :
        /\ closer[t] = None
        /\ \A d \in Call \ {c} : t \notin closing[d]

\* What a call still has to close of what it has found.
Covered ==
    \A c \in Call :
        /\ pc[c] \in {"closing", "ending"} => known[c] \cap Active \subseteq seen[c]
        /\ pc[c] \in {"insert", "begin"} \cup TxStages => known[c] \cap Active = {}

IInv == TypeOK /\ Inserted /\ Owned /\ Fresh /\ Locked /\ Covered /\ Supersedes

-----------------------------------------------------------------------------
LEMMA InitIInv == Init => IInv
  BY CallAssumption DEF Init, IInv, TypeOK, Stages, TxStages, EndStages,
     Answers, Call, Inserted, Owned, Fresh, Locked, Covered, Active, Supersedes

LEMMA ActiveOfType == ASSUME TypeOK, NEW u
                      PROVE  ActiveOf(u) \subseteq Start
  BY DEF ActiveOf, Active, TypeOK

LEMMA CallKinds == Start \cap End = {} /\ Call = Start \cup End
  BY CallAssumption DEF Call

LEMMA ClosedRowsType ==
    ASSUME TypeOK, NEW c \in Call, NEW rows, CloseRows(c, rows)
    PROVE  closer' \in [Start -> Call \cup {None}]
  BY DEF TypeOK, CloseRows

PcType == pc \in [Call -> Stages] /\ \A c \in End : pc[c] \in EndStages

LEMMA GotoType ==
    ASSUME TypeOK, NEW c \in Call, NEW next \in Stages, Goto(c, next),
           c \in Start \/ next \in EndStages
    PROVE  PcType'
  BY CallKinds DEF TypeOK, Goto, PcType

LEMMA ReturnType ==
    ASSUME TypeOK, NEW c \in Call, NEW code \in {"OK", "error"},
           NEW t \in Start \cup {None}, Return(c, code, t)
    PROVE  PcType' /\ answer' \in [Call -> Answers]
<1>1. PcType'
  BY GotoType DEF Return, Stages, EndStages
<1>2. [code |-> code, timer |-> t] \in Answers
  BY DEF Answers
<1>3. QED
  BY <1>1, <1>2 DEF Return, TypeOK

LEMMA SnapshotType ==
    ASSUME TypeOK, NEW c \in Call, Snapshot(c)
    PROVE  seen' \in [Call -> SUBSET Start]
  BY ActiveOfType DEF TypeOK, Snapshot

LEMMA StartStages ==
    ASSUME TypeOK, NEW c \in Call, pc[c] \notin EndStages
    PROVE  c \in Start
  BY CallKinds DEF TypeOK

LEMMA TypeStep == TypeOK /\ [Next]_vars => TypeOK'
<1> SUFFICES ASSUME TypeOK, [Next]_vars PROVE TypeOK'
  OBVIOUS
<1> USE DEF TypeOK, PcType, rowVars
<1>1. ASSUME NEW c \in Call, Arrive(c) PROVE TypeOK'
  <2>1. PICK u \in User : /\ user' = [user EXCEPT ![c] = u]
                          /\ known' = [known EXCEPT ![c] = ActiveOf(u)]
    BY <1>1 DEF Arrive
  <2>2. PcType'
    BY <1>1, GotoType DEF Arrive, Stages, EndStages
  <2>3. QED
    BY <1>1, <2>1, <2>2, ActiveOfType DEF Arrive
<1>2. ASSUME NEW c \in Call, Ping(c) \/ Exists(c) \/ Begin(c) PROVE TypeOK'
  <2>1. PcType'
    BY <1>2, GotoType, StartStages, CallKinds
       DEF Ping, Exists, Begin, Stages, EndStages, TxStages
  <2>2. QED
    BY <1>2, <2>1 DEF Ping, Exists, Begin
<1>3. ASSUME NEW c \in Call, ReadFails(c) \/ BeginFails(c) PROVE TypeOK'
  BY <1>3, ReturnType DEF ReadFails, BeginFails
<1>4. ASSUME NEW c \in Call, Close(c) \/ TxClose(c) \/ EndClose(c)
      PROVE  TypeOK'
  <2>1. PcType'
    BY <1>4, GotoType, StartStages
       DEF Close, TxClose, EndClose, Stages, EndStages, TxStages
  <2>2. QED
    BY <1>4, <2>1, SnapshotType DEF Close, TxClose, EndClose
<1>5. ASSUME NEW c \in Call, Insert(c) \/ InsertFails(c) PROVE TypeOK'
  BY <1>5, ReturnType, StartStages DEF Insert, InsertFails, EndStages
<1>6. ASSUME NEW c \in Call, TxInsert(c) PROVE TypeOK'
  <2>1. c \in Start /\ PcType'
    BY <1>6, GotoType, StartStages DEF TxInsert, Stages, EndStages, TxStages
  <2>2. QED
    BY <1>6, <2>1 DEF TxInsert
<1>7. ASSUME NEW c \in Call, TxCloseDone(c) PROVE TypeOK'
  <2>1. PcType'
    BY <1>7, GotoType, StartStages DEF TxCloseDone, Stages, EndStages, TxStages
  <2>2. QED
    BY <1>7, <2>1 DEF TxCloseDone, Updatable
<1>8. ASSUME NEW c \in Call, CloseDone(c) PROVE TypeOK'
  <2>1. PcType'
    BY <1>8, GotoType, StartStages DEF CloseDone, Stages, EndStages
  <2>2. QED
    BY <1>8, <2>1, ClosedRowsType DEF CloseDone
<1>9. ASSUME NEW c \in Call, EndDone(c) PROVE TypeOK'
  <2>1. PICK code \in {"OK", "error"}, t \in Start \cup {None} :
            Return(c, code, t)
    BY <1>9 DEF EndDone, Updatable
  <2>2. PcType' /\ answer' \in [Call -> Answers]
    BY <2>1, ReturnType
  <2>3. QED
    BY <1>9, <2>2, ClosedRowsType DEF EndDone
<1>10. ASSUME NEW c \in Call, UpdateFails(c) PROVE TypeOK'
  <2>1. closer' \in [Start -> Call \cup {None}]
    BY <1>10, ClosedRowsType DEF UpdateFails
  <2>2. QED
    BY <1>10, <2>1, ReturnType DEF UpdateFails
<1>11. ASSUME NEW c \in Call, TxCommit(c) \/ CommitFails(c) PROVE TypeOK'
  <2>1. closer' \in [Start -> Call \cup {None}]
    BY <1>11, ClosedRowsType DEF TxCommit, CommitFails
  <2>2. PcType' /\ answer' \in [Call -> Answers]
    BY <1>11, ReturnType, StartStages DEF TxCommit, CommitFails, EndStages
  <2>3. QED
    BY <1>11, <2>1, <2>2 DEF TxCommit, CommitFails
<1>12. ASSUME NEW c \in Call, TxFails(c) PROVE TypeOK'
  <2>1. PcType' /\ answer' \in [Call -> Answers]
    BY <1>12, ReturnType DEF TxFails, ReturnPanic
  <2>2. timers' \subseteq Start
    BY <1>12, StartStages DEF TxFails, EndStages
  <2>3. QED
    BY <1>12, <2>1, <2>2 DEF TxFails
<1>13. ASSUME Crash PROVE TypeOK'
  BY <1>13, CallKinds DEF Crash, Running, Stages, EndStages, Answers
<1>14. CASE UNCHANGED vars
  BY <1>14 DEF vars
<1>15. QED
  BY <1>1, <1>2, <1>3, <1>4, <1>5, <1>6, <1>7, <1>8, <1>9, <1>10, <1>11,
     <1>12, <1>13, <1>14 DEF Next, Progress, Failure

-----------------------------------------------------------------------------
\* What a step may do to the rows.
Closes(c, t) ==
    /\ Running(c) /\ user[c] = user[t]
    /\ t \in seen[c] \cup closing[c] /\ t \in timers
    /\ closer[t] = None /\ closer'[t] = c

LEMMA UpdatableRows ==
    ASSUME IInv, NEW c \in Call, NEW rows \in SUBSET (Updatable(c) \cup closing[c]),
           Running(c), CloseRows(c, rows)
    PROVE  \A t \in Start : closer'[t] # closer[t] => Closes(c, t)
  BY DEF IInv, TypeOK, Owned, Locked, Updatable, CloseRows, Closes

LEMMA RowStep ==
    ASSUME IInv, [Next]_vars
    PROVE  \A t \in Start : closer'[t] # closer[t] => \E c \in Call : Closes(c, t)
<1>1. ASSUME NEW c \in Call, CloseDone(c) \/ TxCommit(c) \/ EndDone(c)
                                \/ UpdateFails(c) \/ CommitFails(c)
      PROVE  \A t \in Start : closer'[t] # closer[t] => Closes(c, t)
  BY <1>1, UpdatableRows
     DEF CloseDone, TxCommit, EndDone, UpdateFails, CommitFails, Running
<1>2. ASSUME NEW c \in Call,
             Arrive(c) \/ Ping(c) \/ Exists(c) \/ Insert(c) \/ Close(c) \/ Begin(c)
             \/ TxClose(c) \/ TxCloseDone(c) \/ TxInsert(c) \/ EndClose(c)
             \/ ReadFails(c) \/ InsertFails(c) \/ BeginFails(c) \/ TxFails(c)
      PROVE  closer' = closer
  BY <1>2 DEF Arrive, Ping, Exists, Insert, Close, Begin, TxClose, TxCloseDone,
     TxInsert, EndClose, ReadFails, InsertFails, BeginFails, TxFails, rowVars
<1>3. ASSUME Crash
      PROVE  \A t \in Start : closer'[t] # closer[t] => \E c \in Call : Closes(c, t)
  BY <1>3 DEF Crash, IInv, TypeOK, Owned, Updatable, Closes, Running
<1>4. ASSUME UNCHANGED vars PROVE closer' = closer
  BY <1>4 DEF vars, rowVars
<1>5. QED
  BY <1>1, <1>2, <1>3, <1>4 DEF Next, Progress, Failure

LEMMA TimersGrow ==
    ASSUME IInv, [Next]_vars
    PROVE  /\ timers \subseteq timers'
           /\ \A t \in timers' \ timers :
                  /\ pc[t] \in {"insert", "txInsert"}
                  /\ pc'[t] \in {"txCommit", "done"}
<1> USE DEF IInv, TypeOK, rowVars, Goto, Return
<1>1. ASSUME NEW c \in Call,
             Arrive(c) \/ Ping(c) \/ Exists(c) \/ Close(c) \/ CloseDone(c)
             \/ Begin(c) \/ TxClose(c) \/ TxCloseDone(c) \/ TxCommit(c)
             \/ EndClose(c) \/ EndDone(c) \/ ReadFails(c) \/ UpdateFails(c)
             \/ BeginFails(c) \/ CommitFails(c)
      PROVE  timers' = timers
  BY <1>1 DEF Arrive, Ping, Exists, Close, CloseDone, Begin, TxClose,
     TxCloseDone, TxCommit, EndClose, EndDone, ReadFails, UpdateFails,
     BeginFails, CommitFails
<1>2. ASSUME NEW c \in Call, Insert(c) \/ TxInsert(c) \/ InsertFails(c) \/ TxFails(c)
      PROVE  \/ timers' = timers
             \/ /\ timers' = timers \cup {c}
                /\ pc[c] \in {"insert", "txInsert"}
                /\ pc'[c] \in {"txCommit", "done"}
  BY <1>2 DEF Insert, TxInsert, InsertFails, TxFails, ReturnPanic
<1>3. ASSUME Crash \/ UNCHANGED vars PROVE timers' = timers
  BY <1>3 DEF Crash, vars
<1>4. QED
  BY <1>1, <1>2, <1>3 DEF Next, Progress, Failure

\* What a call has begun with stays the same, and what it knows only closes.
LEMMA HistoryStep ==
    ASSUME IInv, [Next]_vars, NEW c \in Call, pc[c] # "idle"
    PROVE  /\ pc'[c] # "idle"
           /\ user'[c] = user[c]
           /\ known'[c] = known[c]
           /\ known[c] \cap Active' \subseteq known[c] \cap Active
<1> USE DEF IInv, TypeOK, rowVars, Goto, Return
<1>1. ASSUME NEW d \in Call, Arrive(d)
      PROVE  pc'[c] # "idle" /\ user'[c] = user[c] /\ known'[c] = known[c]
  BY <1>1 DEF Arrive
<1>2. ASSUME NEW d \in Call, Progress(d)
      PROVE  pc'[c] # "idle" /\ user'[c] = user[c] /\ known'[c] = known[c]
  BY <1>2 DEF Progress, Ping, Exists, Insert, Close, CloseDone, Begin, TxClose,
     TxCloseDone, TxInsert, TxCommit, EndClose, EndDone
<1>3. ASSUME NEW d \in Call, Failure(d)
      PROVE  pc'[c] # "idle" /\ user'[c] = user[c] /\ known'[c] = known[c]
  BY <1>3 DEF Failure, ReadFails, InsertFails, UpdateFails, BeginFails, TxFails,
     ReturnPanic, CommitFails
<1>4. ASSUME Crash \/ UNCHANGED vars
      PROVE  pc'[c] # "idle" /\ user'[c] = user[c] /\ known'[c] = known[c]
  BY <1>4 DEF Crash, Running, vars
<1>5. pc'[c] # "idle" /\ user'[c] = user[c] /\ known'[c] = known[c]
  BY <1>1, <1>2, <1>3, <1>4 DEF Next
<1>6. known[c] \cap Active' \subseteq known[c] \cap Active
  BY RowStep DEF Active, Closes, Owned
<1>7. QED
  BY <1>5, <1>6

LEMMA InsertedStep == IInv /\ [Next]_vars => Inserted'
<1> SUFFICES ASSUME IInv, [Next]_vars PROVE Inserted'
  OBVIOUS
<1>1. ASSUME NEW t \in timers PROVE pc'[t] \in {"txCommit", "done"}
  <2> USE DEF IInv, TypeOK, Inserted, Goto, Return
  <2>1. t \in Call /\ pc[t] \in {"txCommit", "done"}
    BY CallKinds
  <2>2. ASSUME NEW c \in Call, Arrive(c) PROVE pc'[t] = pc[t]
    BY <2>1, <2>2 DEF Arrive
  <2>3. ASSUME NEW c \in Call, Progress(c) PROVE pc'[t] \in {pc[t], "done"}
    BY <2>1, <2>3 DEF Progress, Ping, Exists, Insert, Close, CloseDone, Begin,
       TxClose, TxCloseDone, TxInsert, TxCommit, EndClose, EndDone
  <2>4. ASSUME NEW c \in Call, Failure(c) PROVE pc'[t] \in {pc[t], "done"}
    BY <2>1, <2>4 DEF Failure, ReadFails, InsertFails, UpdateFails, BeginFails,
       TxFails, ReturnPanic, CommitFails
  <2>5. ASSUME Crash \/ UNCHANGED vars PROVE pc'[t] \in {pc[t], "done"}
    BY <2>1, <2>5 DEF Crash, Running, vars
  <2>6. QED
    BY <2>1, <2>2, <2>3, <2>4, <2>5 DEF Next
<1>2. QED
  BY <1>1, TimersGrow DEF Inserted

\* The sets of rows that an action writes.
LEMMA RowSets ==
    ASSUME IInv, [Next]_vars, NEW c \in Call
    PROVE  /\ seen'[c] \in {seen[c], ActiveOf(user[c])}
           /\ seen'[c] # seen[c] => pc'[c] \in {"closing", "txClosing", "ending"}
           /\ \/ closing'[c] = closing[c]
              \/ closing'[c] = {}
              \/ TxCloseDone(c) /\ closing'[c] = Updatable(c)
<1> USE DEF IInv, TypeOK, rowVars, Goto, Return, Snapshot
<1>1. ASSUME NEW d \in Call, Arrive(d)
      PROVE  seen'[c] = seen[c] /\ closing'[c] = closing[c]
  BY <1>1 DEF Arrive
<1>2. ASSUME NEW d \in Call, Close(d) \/ TxClose(d) \/ EndClose(d)
      PROVE  /\ seen'[c] \in {seen[c], ActiveOf(user[c])}
             /\ seen'[c] # seen[c] => pc'[c] \in {"closing", "txClosing", "ending"}
             /\ closing'[c] = closing[c]
  BY <1>2 DEF Close, TxClose, EndClose
<1>3. ASSUME NEW d \in Call,
             Ping(d) \/ Exists(d) \/ Insert(d) \/ CloseDone(d) \/ Begin(d)
             \/ TxInsert(d) \/ EndDone(d)
      PROVE  seen'[c] = seen[c] /\ closing'[c] = closing[c]
  BY <1>3 DEF Ping, Exists, Insert, CloseDone, Begin, TxInsert, EndDone
<1>4. ASSUME NEW d \in Call, TxCloseDone(d) \/ TxCommit(d)
      PROVE  /\ seen'[c] = seen[c]
             /\ \/ closing'[c] = closing[c]
                \/ closing'[c] = {}
                \/ TxCloseDone(c) /\ closing'[c] = Updatable(c)
  BY <1>4 DEF TxCloseDone, TxCommit
<1>5. ASSUME NEW d \in Call, Failure(d)
      PROVE  seen'[c] = seen[c] /\ closing'[c] \in {closing[c], {}}
  BY <1>5 DEF Failure, ReadFails, InsertFails, UpdateFails, BeginFails, TxFails,
     CommitFails
<1>6. ASSUME Crash \/ UNCHANGED vars
      PROVE  seen'[c] = seen[c] /\ closing'[c] \in {closing[c], {}}
  BY <1>6 DEF Crash, vars
<1>7. QED
  BY <1>1, <1>2, <1>3, <1>4, <1>5, <1>6 DEF Next, Progress

LEMMA OwnedStep == IInv /\ [Next]_vars => Owned'
<1> SUFFICES ASSUME IInv, [Next]_vars, NEW c \in Call,
                    NEW t \in (seen[c] \cup closing[c] \cup known[c])'
             PROVE  t \in timers' /\ user'[t] = user'[c]
  BY DEF Owned
<1>1. \A x \in timers : pc[x] # "idle" /\ x \in Call /\ user'[x] = user[x]
  BY HistoryStep, CallKinds DEF IInv, TypeOK, Inserted
<1>2. ASSUME NEW x \in timers, user[x] = user[c], pc[c] # "idle"
      PROVE  x \in timers' /\ user'[x] = user'[c]
  BY <1>1, <1>2, TimersGrow, HistoryStep
<1>3. CASE pc[c] # "idle"
  <2>1. t \in seen[c] \cup closing[c] \cup known[c] \cup ActiveOf(user[c])
    BY <1>3, RowSets, HistoryStep DEF Updatable
  <2>2. t \in timers /\ user[t] = user[c]
    BY <2>1 DEF IInv, Owned, ActiveOf, Active
  <2>3. QED
    BY <1>2, <1>3, <2>2
<1>4. CASE pc[c] = "idle"
  <2>1. seen[c] = {} /\ closing[c] = {}
    BY <1>4 DEF IInv, Fresh
  <2>2. CASE Arrive(c)
    <3>1. PICK u \in User : user' = [user EXCEPT ![c] = u]
                            /\ known' = [known EXCEPT ![c] = ActiveOf(u)]
      BY <2>2 DEF Arrive
    <3>2. t \in ActiveOf(u)
      BY <2>1, <2>2, <3>1 DEF Arrive, IInv, TypeOK
    <3>3. t \in timers /\ user[t] = u /\ timers' = timers /\ user'[c] = u
      BY <2>2, <3>1, <3>2 DEF ActiveOf, Active, Arrive, rowVars, IInv, TypeOK
    <3>4. QED
      BY <1>1, <3>3
  <2>3. CASE ~Arrive(c)
    <3> DEFINE Same == /\ known'[c] = known[c] /\ user'[c] = user[c]
                       /\ seen'[c] = seen[c] /\ closing'[c] = closing[c]
    <3>1. Same
      <4> USE DEF IInv, TypeOK, rowVars, Goto, Return
      <4>1. ASSUME NEW d \in Call, d # c, Arrive(d) PROVE Same
        BY <4>1 DEF Arrive
      <4>2. ASSUME NEW d \in Call, Progress(d) PROVE Same
        BY <1>4, <4>2 DEF Progress, Ping, Exists, Insert, Close, CloseDone, Begin,
           TxClose, TxCloseDone, TxInsert, TxCommit, EndClose, EndDone, Snapshot
      <4>3. ASSUME NEW d \in Call, Failure(d) PROVE Same
        BY <1>4, <4>3 DEF Failure, ReadFails, InsertFails, UpdateFails, BeginFails,
           TxFails, CommitFails
      <4>4. ASSUME Crash \/ UNCHANGED vars PROVE Same
        BY <2>1, <4>4 DEF Crash, vars
      <4>5. QED
        BY <2>3, <4>1, <4>2, <4>3, <4>4 DEF Next
    <3>2. t \in known[c]
      BY <2>1, <3>1
    <3>3. QED
      BY <1>1, <3>1, <3>2, TimersGrow DEF IInv, Owned
  <2>4. QED
    BY <2>2, <2>3
<1>5. QED
  BY <1>3, <1>4

LEMMA FreshStep == IInv /\ [Next]_vars => Fresh'
<1> SUFFICES ASSUME IInv, [Next]_vars PROVE Fresh'
  OBVIOUS
<1> USE DEF IInv, TypeOK, Fresh, rowVars, Goto, Return
<1>1. ASSUME NEW c \in Call, Arrive(c) PROVE Fresh'
  BY <1>1 DEF Arrive
<1>2. ASSUME NEW c \in Call, Ping(c) \/ Exists(c) \/ Begin(c) \/ TxInsert(c)
      PROVE  Fresh'
  BY <1>2 DEF Ping, Exists, Begin, TxInsert
<1>3. ASSUME NEW c \in Call, Close(c) \/ TxClose(c) \/ EndClose(c) PROVE Fresh'
  BY <1>3 DEF Close, TxClose, EndClose, Snapshot
<1>4. ASSUME NEW c \in Call,
             Insert(c) \/ CloseDone(c) \/ TxCloseDone(c) \/ TxCommit(c)
             \/ EndDone(c)
      PROVE  Fresh'
  BY <1>4 DEF Insert, CloseDone, TxCloseDone, TxCommit, EndDone
<1>5. ASSUME NEW c \in Call, Failure(c) PROVE Fresh'
  BY <1>5 DEF Failure, ReadFails, InsertFails, UpdateFails, BeginFails, TxFails,
     ReturnPanic, CommitFails
<1>6. ASSUME Crash \/ UNCHANGED vars PROVE Fresh'
  BY <1>6 DEF Crash, Running, vars
<1>7. QED
  BY <1>1, <1>2, <1>3, <1>4, <1>5, <1>6 DEF Next, Progress

LEMMA LockedStep == IInv /\ [Next]_vars => Locked'
<1> SUFFICES ASSUME IInv, [Next]_vars PROVE Locked'
  OBVIOUS
<1> USE CallAssumption DEF IInv, TypeOK, Locked, rowVars, Goto, Return
<1>1. ASSUME NEW d \in Call,
             Arrive(d) \/ Ping(d) \/ Exists(d) \/ Insert(d) \/ Close(d)
             \/ Begin(d) \/ TxClose(d) \/ TxInsert(d) \/ EndClose(d)
             \/ ReadFails(d) \/ InsertFails(d) \/ BeginFails(d)
      PROVE  Locked'
  BY <1>1 DEF Arrive, Ping, Exists, Insert, Close, Begin, TxClose, TxInsert,
     EndClose, ReadFails, InsertFails, BeginFails
<1>2. ASSUME NEW d \in Call, CloseDone(d) \/ EndDone(d) \/ UpdateFails(d)
      PROVE  Locked'
  <2>1. closing' = closing
    BY <1>2 DEF CloseDone, EndDone, UpdateFails
  <2>2. closing[d] = {}
    BY <1>2 DEF CloseDone, EndDone, UpdateFails, Fresh
  <2>3. \/ closer' = closer
        \/ seen[d] \cap LockedFor(d) = {} /\ CloseRows(d, Updatable(d))
    BY <1>2 DEF CloseDone, EndDone, UpdateFails
  <2>4. ASSUME NEW c \in Call, NEW t \in closing[c] PROVE closer'[t] = closer[t]
    <3>1. c # d /\ t \in LockedFor(d) /\ t \in Start
      BY <2>2, <2>4 DEF LockedFor
    <3>2. QED
      BY <2>3, <3>1 DEF CloseRows, Updatable
  <2>5. QED
    BY <2>1, <2>4
<1>3. ASSUME NEW d \in Call, TxCommit(d) \/ CommitFails(d) PROVE Locked'
  <2>1. closing' = [closing EXCEPT ![d] = {}]
    BY <1>3 DEF TxCommit, CommitFails
  <2>2. PICK rows \in SUBSET closing[d] : CloseRows(d, rows)
    BY <1>3 DEF TxCommit, CommitFails
  <2>3. ASSUME NEW c \in Call \ {d}, NEW t \in closing[c]
        PROVE  closer'[t] = closer[t]
    BY <2>2, <2>3 DEF CloseRows
  <2>4. QED
    BY <2>1, <2>3
<1>4. ASSUME NEW d \in Call, TxCloseDone(d) PROVE Locked'
  <2>1. closing' = [closing EXCEPT ![d] = Updatable(d)] /\ closer' = closer
    BY <1>4 DEF TxCloseDone
  <2>2. \A t \in Updatable(d) :
            closer[t] = None /\ \A c \in Call \ {d} : t \notin closing[c]
    BY <1>4 DEF TxCloseDone, Updatable, LockedFor
  <2>3. QED
    BY <2>1, <2>2
<1>5. ASSUME NEW d \in Call, TxFails(d) PROVE Locked'
  BY <1>5 DEF TxFails
<1>6. ASSUME Crash PROVE Locked'
  BY <1>6 DEF Crash
<1>7. CASE UNCHANGED vars
  BY <1>7 DEF vars
<1>8. QED
  BY <1>1, <1>2, <1>3, <1>4, <1>5, <1>6, <1>7 DEF Next, Progress, Failure

\* A step of one call leaves the locals of the others alone.
LEMMA OthersStep ==
    ASSUME IInv, NEW d \in Call, Arrive(d) \/ Progress(d) \/ Failure(d),
           NEW c \in Call \ {d}
    PROVE  pc'[c] = pc[c] /\ seen'[c] = seen[c] /\ answer'[c] = answer[c]
<1> USE DEF IInv, TypeOK, rowVars, Goto, Return
<1>1. CASE Arrive(d)
  BY <1>1 DEF Arrive
<1>2. CASE Progress(d)
  BY <1>2 DEF Progress, Ping, Exists, Insert, Close, CloseDone, Begin, TxClose,
     TxCloseDone, TxInsert, TxCommit, EndClose, EndDone, Snapshot
<1>3. CASE Failure(d)
  BY <1>3 DEF Failure, ReadFails, InsertFails, UpdateFails, BeginFails, TxFails,
     ReturnPanic, CommitFails
<1>4. QED
  BY <1>1, <1>2, <1>3

\* When an UPDATE is through, what its call knew is closed.
LEMMA UpdateCovers ==
    ASSUME IInv, NEW c \in Call, pc[c] \in {"closing", "ending"},
           CloseRows(c, Updatable(c)), timers' = timers
    PROVE  known[c] \cap Active' = {}
  BY CallAssumption
     DEF IInv, TypeOK, Owned, Covered, Active, CloseRows, Updatable

LEMMA KnownIsOwn ==
    ASSUME IInv, NEW c \in Call
    PROVE  known[c] \cap Active \subseteq ActiveOf(user[c])
  BY DEF IInv, Owned, ActiveOf, Active

LEMMA CoveredStep == IInv /\ [Next]_vars => Covered'
<1> SUFFICES ASSUME IInv, [Next]_vars, NEW c \in Call
             PROVE  /\ pc'[c] \in {"closing", "ending"}
                           => known'[c] \cap Active' \subseteq seen'[c]
                    /\ pc'[c] \in {"insert", "begin"} \cup TxStages
                           => known'[c] \cap Active' = {}
  BY DEF Covered
<1> DEFINE Goal == /\ pc'[c] \in {"closing", "ending"}
                          => known'[c] \cap Active' \subseteq seen'[c]
                   /\ pc'[c] \in {"insert", "begin"} \cup TxStages
                          => known'[c] \cap Active' = {}
<1> SUFFICES Goal
  OBVIOUS
<1>1. ASSUME pc[c] # "idle", pc'[c] = pc[c], seen'[c] = seen[c] PROVE Goal
  BY <1>1, HistoryStep DEF IInv, Covered
<1>2. ASSUME pc'[c] \in {"idle", "ping", "exists", "close", "end", "done"}
      PROVE  Goal
  BY <1>2 DEF TxStages
<1>3. ASSUME NEW d \in Call, d # c, Arrive(d) \/ Progress(d) \/ Failure(d)
      PROVE  Goal
  BY <1>1, <1>2, <1>3, OthersStep
<1>4. CASE Arrive(c)
  BY <1>2, <1>4 DEF Arrive, Goto, IInv, TypeOK
<1>5. CASE Failure(c)
  <2>1. pc'[c] = "done"
    BY <1>5 DEF Failure, ReadFails, InsertFails, UpdateFails, BeginFails, TxFails,
       ReturnPanic, CommitFails, Return, Goto, IInv, TypeOK
  <2>2. QED
    BY <1>2, <2>1
<1>6. CASE Progress(c)
  <2> USE DEF IInv, TypeOK, Goto, Return
  <2>1. CASE Ping(c) \/ Insert(c) \/ TxCommit(c) \/ EndDone(c)
    <3>1. pc'[c] \in {"exists", "end", "done"}
      BY <2>1 DEF Ping, Insert, TxCommit, EndDone
    <3>2. QED
      BY <1>2, <3>1
  <2>2. CASE Exists(c)
    <3>1. pc[c] # "idle" /\ pc'[c] \in {"close", "insert"}
          /\ (pc'[c] = "insert" => ActiveOf(user[c]) = {})
      BY <2>2 DEF Exists
    <3>2. QED
      BY <3>1, HistoryStep, KnownIsOwn DEF TxStages
  <2>3. CASE Close(c) \/ TxClose(c) \/ EndClose(c)
    <3>1. /\ pc[c] # "idle" /\ seen'[c] = ActiveOf(user[c])
          /\ pc'[c] \in {"closing", "ending"} \/ pc[c] = "txClose"
      BY <2>3 DEF Close, TxClose, EndClose, Snapshot
    <3>2. pc[c] = "txClose" => pc'[c] = "txClosing"
      BY <2>3 DEF Close, TxClose, EndClose
    <3>3. QED
      BY <3>1, <3>2, HistoryStep, KnownIsOwn DEF Covered, TxStages
  <2>4. CASE CloseDone(c)
    <3>1. pc'[c] = "begin" /\ known' = known
      BY <2>4 DEF CloseDone
    <3>2. known[c] \cap Active' = {}
      BY <2>4, UpdateCovers DEF CloseDone
    <3>3. QED
      BY <3>1, <3>2
  <2>5. CASE Begin(c) \/ TxCloseDone(c) \/ TxInsert(c)
    <3>1. /\ pc[c] \in {"begin"} \cup TxStages
          /\ pc'[c] \notin {"closing", "ending"}
      BY <2>5 DEF Begin, TxCloseDone, TxInsert, TxStages
    <3>2. QED
      BY <3>1, HistoryStep DEF Covered, TxStages
  <2>6. QED
    BY <1>6, <2>1, <2>2, <2>3, <2>4, <2>5 DEF Progress
<1>7. CASE Crash
  BY <1>2, <1>7 DEF Crash, Running, IInv, TypeOK
<1>8. CASE UNCHANGED vars
  BY <1>1, <1>2, <1>8 DEF vars
<1>9. QED
  BY <1>3, <1>4, <1>5, <1>6, <1>7, <1>8 DEF Next

LEMMA SupersedesStep == IInv /\ [Next]_vars => Supersedes'
<1> SUFFICES ASSUME IInv, [Next]_vars PROVE Supersedes'
  OBVIOUS
<1>1. ASSUME NEW c \in Start, c \in timers' PROVE known'[c] \cap Active' = {}
  <2>1. c \in Call /\ pc[c] # "idle"
    BY <1>1, TimersGrow, CallKinds DEF IInv, Inserted
  <2>2. known[c] \cap Active = {}
    BY <1>1, <2>1, TimersGrow DEF IInv, Supersedes, Covered, TxStages
  <2>3. QED
    BY <2>1, <2>2, HistoryStep
<1>2. ASSUME NEW c \in End, answer'[c].code = "OK"
      PROVE  known'[c] \cap Active' = {}
  <2> USE CallKinds DEF IInv, TypeOK
  <2>1. CASE answer[c].code = "OK"
    BY <2>1, HistoryStep DEF Fresh, Supersedes
  <2>2. CASE EndDone(c)
    BY <2>2, UpdateCovers, CallKinds DEF EndDone
  <2>3. ASSUME answer[c].code # "OK", ~EndDone(c) PROVE FALSE
    <3>1. ASSUME NEW d \in Call, d # c, Arrive(d) \/ Progress(d) \/ Failure(d)
          PROVE  FALSE
      BY <1>2, <2>3, <3>1, OthersStep
    <3>2. pc[c] \notin {"insert", "txClose", "txClosing", "txInsert", "txCommit"}
      BY DEF EndStages
    <3>3. CASE Arrive(c) \/ Progress(c)
      BY <1>2, <2>3, <3>2, <3>3 DEF Arrive, Progress, Ping, Exists, Insert,
         Close, CloseDone, Begin, TxClose, TxCloseDone, TxInsert, TxCommit,
         EndClose
    <3>4. CASE Failure(c)
      BY <1>2, <3>2, <3>4 DEF Failure, ReadFails, InsertFails, UpdateFails,
         BeginFails, TxFails, CommitFails, Return
    <3>5. CASE Crash
      BY <1>2, <2>3, <3>5 DEF Crash
    <3>6. CASE UNCHANGED vars
      BY <1>2, <2>3, <3>6 DEF vars
    <3>7. QED
      BY <3>1, <3>3, <3>4, <3>5, <3>6 DEF Next
  <2>4. QED
    BY <2>1, <2>2, <2>3
<1>3. QED
  BY <1>1, <1>2 DEF Supersedes

-----------------------------------------------------------------------------
LEMMA Invariance == Spec => []IInv
<1>1. IInv /\ [Next]_vars => IInv'
  BY TypeStep, InsertedStep, OwnedStep, FreshStep, LockedStep, CoveredStep,
     SupersedesStep DEF IInv
<1>2. QED
  BY <1>1, InitIInv, PTL DEF Spec

\* The variables keep their types.
THEOREM TypeCorrect == Spec => []TypeOK
  BY Invariance, PTL DEF IInv

\* A start or a successful end leaves none of the timers active that were when
\* it began, whatever runs, fails or crashes beside it.
THEOREM NewTimerSupersedes == Spec => []Supersedes
  BY Invariance, PTL DEF IInv

\* A timer is closed once, by its own user.
THEOREM TimersCloseOnce == Spec => ClosedOnceByItsUser
<1>1. IInv /\ [Next]_vars =>
        [\A t \in Start : closer'[t] # closer[t] =>
            closer[t] = None /\ user[closer'[t]] = user[t]]_vars
  BY RowStep DEF Closes
<1>2. QED
  BY <1>1, Invariance, PTL DEF Spec, ClosedOnceByItsUser

-----------------------------------------------------------------------------
(* Waiting.  A call waits for a connection of the pool, or for the rows that *)
(* another call's transaction has closed; nothing else in the guards of      *)
(* Progress can keep a call that is running from going on.                   *)

WaitsForConn(c) ==
    /\ pc[c] \in {"ping", "exists", "insert", "close", "begin", "txInsert", "end"}
    /\ ~FreeConn
WaitsForRows(c) ==
    /\ pc[c] \in {"closing", "txClosing", "ending"}
    /\ seen[c] \cap LockedFor(c) # {}
Waits(c) == WaitsForConn(c) \/ WaitsForRows(c)

\* A transaction that holds a connection and waits for a second one.
WantsSecond(c) == pc[c] = "txInsert" /\ ~FreeConn

Standstill == /\ \E c \in Call : Running(c)
              /\ \A c \in Call : Running(c) => Waits(c)

\* Rows are locked from the UPDATE of a transaction to its commit, and the only
\* thing it waits for in between is the second connection...
LEMMA RowHolders ==
    ASSUME TypeOK, Fresh, Standstill, NEW c \in Call, WaitsForRows(c)
    PROVE  \E d \in Call : WantsSecond(d)
<1>1. PICK d \in Call : closing[d] # {}
  BY DEF WaitsForRows, LockedFor
<1>2. pc[d] \in {"txInsert", "txCommit"}
  BY <1>1 DEF Fresh
<1>3. Waits(d)
  BY <1>2 DEF Standstill, Running
<1>4. QED
  BY <1>2, <1>3 DEF Waits, WaitsForConn, WaitsForRows, WantsSecond

\* ...and so for whoever holds a connection.
LEMMA ConnHolders ==
    ASSUME TypeOK, Fresh, Standstill, ~FreeConn
    PROVE  \E d \in Call : WantsSecond(d)
<1>1. PICK h \in Call : HoldsConn(h)
  <2>1. CASE {c \in Call : HoldsConn(c)} = {}
    BY <2>1, FS_EmptySet, PoolAssumption DEF FreeConn
  <2>2. QED
    BY <2>1
<1>2. Waits(h)
  BY <1>1 DEF Standstill, Running, HoldsConn, TxStages
<1>3. CASE WaitsForRows(h)
  BY <1>3, RowHolders
<1>4. CASE WaitsForConn(h)
  BY <1>1, <1>4 DEF WaitsForConn, WantsSecond, HoldsConn, TxStages
<1>5. QED
  BY <1>2, <1>3, <1>4 DEF Waits

\* When all calls that run wait, one of them is a start that holds its transaction's
\* connection and waits for another one (db.QueryRowContext for tx): nothing else
\* deadlocks calls of the timer service, whatever rows and connections they share.
\* That wait has the call's context, so that nginx's patience ends it.
THEOREM OnlySecondConnectionDeadlocks ==
    Spec => [](Standstill => \E c \in Call : WantsSecond(c) /\ HasContext(c))
<1>1. ASSUME IInv, Standstill
      PROVE  \E c \in Call : WantsSecond(c) /\ HasContext(c)
  <2>1. PICK c \in Call : Waits(c)
    BY <1>1 DEF Standstill
  <2>2. \E d \in Call : WantsSecond(d)
    BY <1>1, <2>1, RowHolders, ConnHolders DEF IInv, Waits, WaitsForConn
  <2>3. QED
    BY <2>2 DEF WantsSecond, HasContext
<1>2. IInv => (Standstill => \E c \in Call : WantsSecond(c) /\ HasContext(c))
  BY <1>1
<1>3. QED
  BY <1>2, Invariance, PTL

\* The stages in the order in which a call passes them.
Rank(point) ==
    CASE point = "idle" -> 0
      [] point = "ping" -> 1
      [] point \in {"exists", "end"} -> 2
      [] point \in {"close", "ending", "insert"} -> 3
      [] point = "closing" -> 4
      [] point = "begin" -> 5
      [] point = "txClose" -> 6
      [] point = "txClosing" -> 7
      [] point = "txInsert" -> 8
      [] point = "txCommit" -> 9
      [] point = "done" -> 10

Forward == \A c \in Call : pc'[c] # pc[c] => Rank(pc[c]) < Rank(pc'[c])

LEMMA ForwardStep == TypeOK /\ [Next]_vars => Forward
<1> SUFFICES ASSUME TypeOK, [Next]_vars PROVE Forward
  OBVIOUS
<1>1. ASSUME NEW c \in Call, NEW point, Goto(c, point), Rank(pc[c]) < Rank(point)
      PROVE  Forward
  BY <1>1 DEF Goto, Forward, TypeOK
<1>2. \A point \in Stages \ {"done"} : Rank(point) < Rank("done")
  BY DEF Rank, Stages, EndStages, TxStages
<1>3. ASSUME NEW c \in Call, NEW code, NEW t, Return(c, code, t), pc[c] # "done"
      PROVE  Forward
  BY <1>1, <1>2, <1>3 DEF Return, TypeOK
<1>4. ASSUME NEW c \in Call,
             \/ Arrive(c) \/ Ping(c) \/ Exists(c) \/ Close(c) \/ CloseDone(c)
             \/ Begin(c) \/ TxClose(c) \/ TxCloseDone(c) \/ TxInsert(c) \/ EndClose(c)
      PROVE  Forward
  BY <1>1, <1>4 DEF Arrive, Ping, Exists, Close, CloseDone, Begin, TxClose,
     TxCloseDone, TxInsert, EndClose, Rank
<1>5. ASSUME NEW c \in Call, Insert(c) \/ TxCommit(c) \/ EndDone(c) \/ Failure(c)
      PROVE  Forward
  BY <1>3, <1>5 DEF Insert, TxCommit, EndDone, Failure, ReadFails, InsertFails,
     UpdateFails, BeginFails, TxFails, CommitFails, ReturnPanic
<1>6. ASSUME Crash PROVE Forward
  BY <1>2, <1>6 DEF Crash, Running, Forward, TypeOK
<1>7. CASE UNCHANGED vars
  BY <1>7 DEF vars, Forward
<1>8. QED
  BY <1>4, <1>5, <1>6, <1>7 DEF Next, Progress

\* No call comes back to a point it has left: with the theorem above, what Answered
\* rests on.
THEOREM CallsMoveForward == Spec => [][Forward]_vars
<1>1. IInv /\ [Next]_vars => [Forward]_vars
  BY ForwardStep DEF IInv
<1>2. QED
  BY <1>1, Invariance, PTL DEF Spec

-----------------------------------------------------------------------------
(* What the users of the service are told. *)

\* A request waits from the arrival of its call on.
Sent == \A c \in Call : stage[c] = "idle" <=> pc[c] = "idle"

\* The calls whose answers will be believed.
Alone(c) == stage[c] = "waiting" /\ c \notin crossed

\* Nothing else is under way for their users...
Apart == \A c, d \in Call : Alone(c) /\ d # c /\ user[d] = user[c] => ~Pending(d)

\* ...so that no timer is active that they have not known or started, and they
\* close none but the known ones.
Only ==
    \A c \in Call : Alone(c) =>
        /\ ActiveOf(user[c]) \subseteq known[c] \cup {c}
        /\ seen[c] \cup closing[c] \subseteq known[c]
        /\ c \in timers => closer[c] = None

\* A call knows the timers that were there before its own, and a timer that is not
\* there yet is not closed.
Before ==
    /\ \A c \in Call : c \notin known[c]
    /\ \A t \in Start \ timers : closer[t] = None

\* A start names no timer but its own, which it has inserted.
Named ==
    \A c \in Start :
        /\ pc[c] \notin {"end", "ending"}
        /\ pc[c] = "txCommit" => c \in timers
        /\ answer[c].timer # None => answer[c].timer = c /\ c \in timers

\* Who has been told anything has no call under way.
Quiet == \A u \in User : told[u] # None => PendingOf(u) = {}

SInv ==
    /\ IInv /\ ServiceTypeOK /\ Before /\ Named
    /\ Sent /\ Apart /\ Only /\ Quiet /\ ToldIsTrue

LEMMA InitSInv == ServiceInit => SInv
<1> SUFFICES ASSUME ServiceInit PROVE SInv
  OBVIOUS
<1>1. IInv
  BY InitIInv DEF ServiceInit
<1>2. ServiceTypeOK
  BY <1>1 DEF ServiceInit, ServiceTypeOK, IInv
<1>3. Before /\ Named /\ Sent /\ Apart /\ Only /\ Quiet /\ ToldIsTrue
  BY CallKinds DEF ServiceInit, Init, Before, Sent, Apart, Alone, Only, Named, Quiet,
     ToldIsTrue
<1> QED
  BY <1>1, <1>2, <1>3 DEF SInv

\* A step of the service is one of dbservice, or leaves its variables alone.
LEMMA ServiceStepsNext == [ServiceNext]_allVars => [Next]_vars
  BY DEF ServiceNext, StartTimer, EndTimer, Send, Relay, GiveUp, Next, allVars

-----------------------------------------------------------------------------
(* A step of dbservice. *)

DbStep == (\E c \in Call : Progress(c) \/ Failure(c)) \/ Crash

LEMMA DbStepsNext == DbStep => [Next]_vars
  BY DEF DbStep, Next

\* It begins no call, and leaves those alone that are not at work.
LEMMA AtRest ==
    ASSUME IInv, DbStep
    PROVE  /\ user' = user /\ known' = known
           /\ \A c \in Call : ~Running(c) => pc'[c] = pc[c] /\ answer'[c] = answer[c]
           /\ \A c \in Call : pc'[c] = "idle" => pc[c] = "idle"
<1> USE DEF IInv, TypeOK, rowVars, Goto, Return
<1>1. user' = user /\ known' = known
  <2>1. ASSUME NEW d \in Call, Progress(d) PROVE user' = user /\ known' = known
    BY <2>1 DEF Progress, Ping, Exists, Insert, Close, CloseDone, Begin, TxClose,
       TxCloseDone, TxInsert, TxCommit, EndClose, EndDone
  <2>2. ASSUME NEW d \in Call, Failure(d) PROVE user' = user /\ known' = known
    BY <2>2 DEF Failure, ReadFails, InsertFails, UpdateFails, BeginFails, TxFails,
       CommitFails
  <2>3. ASSUME Crash PROVE user' = user /\ known' = known
    BY <2>3 DEF Crash
  <2> QED
    BY <2>1, <2>2, <2>3 DEF DbStep
<1>2. ASSUME NEW d \in Call, Progress(d) \/ Failure(d) PROVE Running(d)
  BY <1>2 DEF Running, Progress, Ping, Exists, Insert, Close, CloseDone, Begin,
     TxClose, TxCloseDone, TxInsert, TxCommit, EndClose, EndDone, Failure, ReadFails,
     InsertFails, UpdateFails, BeginFails, TxFails, CommitFails
<1>3. ASSUME NEW c \in Call, ~Running(c) PROVE pc'[c] = pc[c] /\ answer'[c] = answer[c]
  <2>1. ASSUME NEW d \in Call, Progress(d) \/ Failure(d)
        PROVE  pc'[c] = pc[c] /\ answer'[c] = answer[c]
    BY <1>2, <1>3, <2>1, OthersStep
  <2>2. ASSUME Crash PROVE pc'[c] = pc[c] /\ answer'[c] = answer[c]
    BY <1>3, <2>2 DEF Crash
  <2> QED
    BY <2>1, <2>2 DEF DbStep
<1>4. ASSUME NEW c \in Call, pc[c] # "idle" PROVE pc'[c] # "idle"
  BY <1>4, HistoryStep, DbStepsNext
<1> QED
  BY <1>1, <1>3, <1>4

LEMMA BeforeStep ==
    ASSUME IInv, Before, [Next]_vars
    PROVE  Before'
<1>1. ASSUME NEW t \in Start \ timers' PROVE closer'[t] = None
  BY <1>1, RowStep, TimersGrow DEF Before, Closes
<1>2. ASSUME NEW c \in Call PROVE c \notin known'[c]
  <2>1. CASE pc[c] # "idle"
    BY <2>1, HistoryStep DEF Before
  <2>2. CASE pc[c] = "idle" /\ Arrive(c)
    <3>1. c \notin timers
      BY <2>2 DEF IInv, Inserted
    <3>2. PICK u \in User : known'[c] = ActiveOf(u)
      BY <2>2 DEF Arrive, IInv, TypeOK
    <3> QED
      BY <3>1, <3>2 DEF ActiveOf, Active
  <2>3. CASE ~Arrive(c)
    <3>1. ASSUME NEW d \in Call, d # c, Arrive(d) PROVE known'[c] = known[c]
      BY <3>1 DEF Arrive, IInv, TypeOK
    <3>2. ASSUME DbStep PROVE known'[c] = known[c]
      BY <3>2, AtRest
    <3>3. ASSUME UNCHANGED vars PROVE known'[c] = known[c]
      BY <3>3 DEF vars
    <3> QED
      BY <2>3, <3>1, <3>2, <3>3 DEF Next, DbStep, Before
  <2> QED
    BY <2>1, <2>2, <2>3
<1> QED
  BY <1>1, <1>2 DEF Before

LEMMA NamedStep ==
    ASSUME IInv, Named, [Next]_vars
    PROVE  Named'
<1> SUFFICES ASSUME NEW c \in Start
             PROVE  /\ pc'[c] \notin {"end", "ending"}
                    /\ pc'[c] = "txCommit" => c \in timers'
                    /\ answer'[c].timer # None => answer'[c].timer = c /\ c \in timers'
  BY DEF Named
<1> DEFINE Goal == /\ pc'[c] \notin {"end", "ending"}
                   /\ pc'[c] = "txCommit" => c \in timers'
                   /\ answer'[c].timer # None => answer'[c].timer = c /\ c \in timers'
<1>1. c \in Call /\ c \notin End
  BY CallKinds
<1>2. ASSUME pc'[c] = pc[c], answer'[c] = answer[c] PROVE Goal
  BY <1>2, TimersGrow DEF Named
<1>3. ASSUME NEW d \in Call, d # c, Arrive(d) \/ Progress(d) \/ Failure(d) PROVE Goal
  BY <1>1, <1>2, <1>3, OthersStep
<1>4. ASSUME pc'[c] = "done", answer'[c].timer = None PROVE Goal
  BY <1>4
<1>5. CASE Arrive(c)
  BY <1>1, <1>5, TimersGrow DEF Arrive, Goto, Named, IInv, TypeOK
<1>6. CASE Failure(c)
  <2>1. pc'[c] = "done" /\ answer'[c].timer = None
    BY <1>1, <1>6 DEF Failure, ReadFails, InsertFails, UpdateFails, BeginFails, TxFails,
       ReturnPanic, CommitFails, Return, Goto, IInv, TypeOK
  <2> QED
    BY <1>4, <2>1
<1>7. CASE Progress(c)
  <2> USE DEF Goto, Return, IInv, TypeOK
  <2>1. CASE Ping(c) \/ Exists(c) \/ Close(c) \/ CloseDone(c) \/ Begin(c)
             \/ TxClose(c) \/ TxCloseDone(c) \/ EndClose(c)
    <3>1. /\ pc'[c] \notin {"end", "ending", "txCommit"}
          /\ answer'[c] = answer[c]
      BY <1>1, <2>1 DEF Ping, Exists, Close, CloseDone, Begin, TxClose, TxCloseDone,
         EndClose, Named
    <3> QED
      BY <3>1, TimersGrow DEF Named
  <2>2. CASE TxInsert(c)
    BY <1>1, <2>2 DEF TxInsert, Named
  <2>3. CASE Insert(c) \/ TxCommit(c)
    <3>1. /\ pc'[c] = "done" /\ c \in timers'
          /\ answer'[c].timer = c
      BY <1>1, <2>3 DEF Insert, TxCommit, Named
    <3> QED
      BY <3>1
  <2>4. CASE EndDone(c)
    BY <2>4 DEF EndDone, Named
  <2> QED
    BY <1>7, <2>1, <2>2, <2>3, <2>4 DEF Progress
<1>8. CASE Crash
  <2>1. \/ pc'[c] = pc[c] /\ answer'[c] = answer[c]
        \/ pc'[c] = "done" /\ answer'[c].timer = None
    BY <1>1, <1>8 DEF Crash, IInv, TypeOK
  <2> QED
    BY <1>2, <1>4, <2>1
<1>9. CASE UNCHANGED vars
  BY <1>2, <1>9 DEF vars
<1> QED
  BY <1>3, <1>5, <1>6, <1>7, <1>8, <1>9 DEF Next

-----------------------------------------------------------------------------
(* The steps of the service's specification. *)

\* What a step of dbservice does to the active timers: only calls at work start
\* them or close them.
LEMMA ActiveStep ==
    ASSUME IInv, Before, DbStep, NEW u
    PROVE  /\ \A t \in ActiveOf(u)' \ ActiveOf(u) : Running(t) /\ user[t] = u
           /\ \A t \in ActiveOf(u) \ ActiveOf(u)' :
                  \E c \in Call : Closes(c, t) /\ user[c] = u
<1>1. [Next]_vars /\ user' = user
  BY DbStepsNext, AtRest
<1>2. \A t \in timers' \ timers : Running(t)
  BY <1>1, TimersGrow DEF Running
<1>3. \A t \in timers' : t \in Start
  BY <1>1, TypeStep DEF IInv, TypeOK
<1>4. \A t \in Start : closer'[t] # closer[t] => closer[t] = None
  BY <1>1, RowStep DEF Closes
<1>5. ASSUME NEW t \in ActiveOf(u)' \ ActiveOf(u) PROVE Running(t) /\ user[t] = u
  <2>1. t \in timers' /\ closer'[t] = None /\ user[t] = u
    BY <1>1 DEF ActiveOf, Active
  <2>2. t \notin timers
    BY <1>1, <1>3, <2>1, RowStep, CallAssumption DEF ActiveOf, Active, Closes, Call
  <2> QED
    BY <1>2, <2>1, <2>2
<1>6. ASSUME NEW t \in ActiveOf(u) \ ActiveOf(u)'
      PROVE  \E c \in Call : Closes(c, t) /\ user[c] = u
  <2>1. t \in timers /\ closer[t] = None /\ user[t] = u /\ t \in Start
    BY DEF ActiveOf, Active, IInv, TypeOK
  <2>2. t \in timers' /\ closer'[t] # None
    BY <1>1, <2>1, TimersGrow DEF ActiveOf, Active
  <2> QED
    BY <1>1, <2>1, <2>2, RowStep DEF Closes
<1> QED
  BY <1>5, <1>6

LEMMA DbStepPending ==
    ASSUME SInv, DbStep, UNCHANGED serviceVars
    PROVE  /\ \A c \in Call : Pending(c)' => Pending(c)
           /\ Sent' /\ Apart' /\ Quiet'
<1>1. /\ user' = user /\ stage' = stage /\ crossed' = crossed /\ told' = told
      /\ \A c \in Call : ~Running(c) => pc'[c] = pc[c]
      /\ \A c \in Call : pc'[c] = "idle" <=> pc[c] = "idle"
  BY AtRest DEF SInv, serviceVars, Running
<1>2. \A c \in Call : Pending(c)' => Pending(c)
  BY <1>1 DEF Pending, Running
<1>3. Sent'
  BY <1>1 DEF Sent, SInv
<1>4. Apart'
  BY <1>1, <1>2 DEF Apart, Alone, SInv
<1>5. Quiet'
  BY <1>1, <1>2 DEF Quiet, PendingOf, SInv
<1> QED
  BY <1>2, <1>3, <1>4, <1>5

LEMMA DbStepOnly ==
    ASSUME SInv, DbStep, UNCHANGED serviceVars
    PROVE  Only'
<1>1. /\ IInv /\ Before /\ Only /\ [Next]_vars
      /\ user' = user /\ known' = known /\ stage' = stage /\ crossed' = crossed
  BY DbStepsNext, AtRest DEF SInv, serviceVars
<1> SUFFICES ASSUME NEW c \in Call, Alone(c)
             PROVE  /\ ActiveOf(user[c])' \subseteq known[c] \cup {c}
                    /\ seen'[c] \cup closing'[c] \subseteq known[c]
                    /\ c \in timers' => closer'[c] = None
  BY <1>1 DEF Only, Alone
<1>2. \A d \in Call : Running(d) /\ user[d] = user[c] => d = c
  BY DEF SInv, Apart, Pending
<1>3. /\ ActiveOf(user[c]) \subseteq known[c] \cup {c}
      /\ seen[c] \cup closing[c] \subseteq known[c]
      /\ c \in timers => closer[c] = None
      /\ c \notin known[c]
  BY <1>1 DEF Only, Before
<1>4. ActiveOf(user[c])' \subseteq known[c] \cup {c}
  <2>1. \A t \in ActiveOf(user[c])' : t \in Call
    BY <1>1, TypeStep, CallKinds DEF ActiveOf, Active, IInv, TypeOK
  <2>2. \A t \in ActiveOf(user[c])' \ ActiveOf(user[c]) : t = c
    BY <1>1, <1>2, <2>1, ActiveStep
  <2> QED
    BY <1>3, <2>2
<1>5. seen'[c] \subseteq known[c]
  <2>1. CASE seen'[c] = seen[c]
    BY <1>3, <2>1
  <2>2. CASE seen'[c] # seen[c]
    <3>1. seen'[c] = ActiveOf(user[c]) /\ pc'[c] \in {"closing", "txClosing", "ending"}
      BY <1>1, <2>2, RowSets
    <3>2. c \notin timers
      BY <1>1, <3>1, InsertedStep, TimersGrow DEF Inserted
    <3> QED
      BY <1>3, <3>1, <3>2 DEF ActiveOf, Active
  <2> QED
    BY <2>1, <2>2
<1>6. closing'[c] \subseteq known[c]
  BY <1>1, <1>3, RowSets DEF Updatable
<1>7. ASSUME c \in timers' PROVE closer'[c] = None
  <2>1. c \in Start
    BY <1>1, <1>7, TypeStep DEF IInv, TypeOK
  <2>2. closer[c] = None
    BY <1>1, <1>3, <2>1 DEF Before
  <2>3. closer'[c] # closer[c] => \E d \in Call : Closes(d, c)
    BY <1>1, <2>1, RowStep
  <2> QED
    BY <1>2, <1>3, <2>2, <2>3 DEF Closes
<1> QED
  BY <1>4, <1>5, <1>6, <1>7

LEMMA DbStepTold ==
    ASSUME SInv, DbStep, UNCHANGED serviceVars
    PROVE  ToldIsTrue'
<1> SUFFICES ASSUME NEW u \in User, told[u] # None PROVE ActiveOf(u)' = told[u]
  BY DEF ToldIsTrue, serviceVars
<1>1. ActiveOf(u) = told[u] /\ \A c \in Call : Running(c) => user[c] # u
  BY DEF SInv, ToldIsTrue, Quiet, PendingOf, Pending
<1>2. \A t \in ActiveOf(u)' : t \in Call
  BY DbStepsNext, TypeStep, CallKinds DEF ActiveOf, Active, SInv, IInv, TypeOK
<1>3. ActiveOf(u)' = ActiveOf(u)
  <2>1. /\ \A t \in ActiveOf(u)' \ ActiveOf(u) : Running(t) /\ user[t] = u
        /\ \A t \in ActiveOf(u) \ ActiveOf(u)' :
               \E c \in Call : Closes(c, t) /\ user[c] = u
    BY ActiveStep DEF SInv
  <2>2. ActiveOf(u)' \ ActiveOf(u) = {}
    BY <1>1, <1>2, <2>1
  <2>3. ActiveOf(u) \ ActiveOf(u)' = {}
    BY <1>1, <2>1 DEF Closes
  <2> QED
    BY <2>2, <2>3
<1> QED
  BY <1>1, <1>3

\* Timer's own part of the invariant, for any step.
LEMMA CallsStep ==
    ASSUME IInv, Before, Named, [Next]_vars
    PROVE  IInv' /\ Before' /\ Named'
  BY TypeStep, InsertedStep, OwnedStep, FreshStep, LockedStep, CoveredStep,
     SupersedesStep, BeforeStep, NamedStep DEF IInv

LEMMA DbStepSInv == ASSUME SInv, DbStep, UNCHANGED serviceVars PROVE SInv'
<1>1. IInv' /\ Before' /\ Named'
  BY CallsStep, DbStepsNext DEF SInv
<1>2. ServiceTypeOK'
  BY <1>1 DEF SInv, ServiceTypeOK, IInv, serviceVars
<1> QED
  BY <1>1, <1>2, DbStepPending, DbStepOnly, DbStepTold DEF SInv

\* A request: its call has nothing behind it, and is believed only if its user
\* has nothing under way.
LEMMA SendSInv == ASSUME SInv, NEW c \in Call, Send(c) PROVE SInv'
<1>1. PICK u \in User :
          /\ user' = [user EXCEPT ![c] = u]
          /\ known' = [known EXCEPT ![c] = ActiveOf(u)]
          /\ user'[c] = u
  BY DEF Send, Arrive, SInv, IInv, TypeOK
<1> DEFINE others == PendingOf(u)
<1>2. /\ stage[c] = "idle" /\ pc[c] = "idle"
      /\ pc' = [pc EXCEPT ![c] = "ping"]
      /\ stage' = [stage EXCEPT ![c] = "waiting"]
      /\ crossed' = IF others = {} THEN crossed ELSE crossed \cup others \cup {c}
      /\ told' = [told EXCEPT ![u] = None]
      /\ UNCHANGED <<seen, closing, timers, closer, answer>>
  BY <1>1 DEF Send, Arrive, Goto, rowVars
<1>3. /\ IInv /\ ServiceTypeOK /\ TypeOK /\ Before /\ Named
      /\ Sent /\ Apart /\ Only /\ Quiet /\ ToldIsTrue
  BY DEF SInv, IInv
<1>4. IInv' /\ Before' /\ Named'
  BY CallsStep DEF SInv, Send, Next
<1>5. ServiceTypeOK'
  <2>1. others \subseteq Call
    BY DEF PendingOf
  <2> QED
    BY <1>2, <1>3, <1>4, <2>1 DEF ServiceTypeOK, IInv
<1>6. /\ \A d \in Call \ {c} : /\ user'[d] = user[d] /\ pc'[d] = pc[d]
                               /\ stage'[d] = stage[d] /\ known'[d] = known[d]
                               /\ Pending(d)' <=> Pending(d)
                               /\ Alone(d)' => Alone(d)
      /\ known'[c] = ActiveOf(u)
      /\ pc'[c] = "ping" /\ stage'[c] = "waiting"
      /\ ~Pending(c)
  <2>1. \A d \in Call \ {c} : /\ user'[d] = user[d] /\ pc'[d] = pc[d]
                              /\ stage'[d] = stage[d] /\ known'[d] = known[d]
    BY <1>1, <1>2, <1>3 DEF TypeOK, ServiceTypeOK
  <2>2. crossed \subseteq crossed'
    BY <1>2
  <2> QED
    BY <1>1, <1>2, <1>3, <2>1, <2>2 DEF Pending, Running, Alone, TypeOK, ServiceTypeOK
<1> HIDE DEF others
<1>7. Sent'
  BY <1>2, <1>3, <1>6 DEF Sent
<1>8. Apart'
  <2> SUFFICES ASSUME NEW x \in Call, NEW y \in Call, Alone(x)', y # x,
                      user'[y] = user'[x]
               PROVE  ~Pending(y)'
    BY DEF Apart
  <2>1. CASE x = c
    <3>1. others = {}
      BY <1>2, <2>1 DEF Alone
    <3> QED
      BY <1>1, <1>6, <2>1, <3>1 DEF others, PendingOf
  <2>2. CASE y = c
    <3>1. x \in others
      BY <1>1, <1>6, <2>2 DEF others, PendingOf, Pending, Alone
    <3> QED
      BY <1>2, <3>1 DEF Alone
  <2>3. CASE x # c /\ y # c
    BY <1>3, <1>6, <2>3 DEF Apart
  <2> QED
    BY <2>1, <2>2, <2>3
<1>9. \A v : ActiveOf(v)' = ActiveOf(v)
  <2>1. \A t \in timers : t # c /\ t \in Call
    BY <1>2, <1>3, CallKinds DEF IInv, Inserted, TypeOK
  <2> QED
    BY <1>2, <1>6, <2>1 DEF ActiveOf, Active
<1>10. Only'
  <2> SUFFICES ASSUME NEW x \in Call, Alone(x)'
               PROVE  /\ ActiveOf(user[x])' \subseteq known'[x] \cup {x}
                      /\ seen'[x] \cup closing'[x] \subseteq known'[x]
                      /\ x \in timers' => closer'[x] = None
    BY DEF Only
  <2>1. CASE x = c
    <3>1. seen'[c] = {} /\ closing'[c] = {} /\ c \notin timers'
      BY <1>2, <1>3 DEF IInv, Fresh, Inserted
    <3> QED
      BY <1>1, <1>6, <1>9, <2>1, <3>1
  <2>2. CASE x # c
    <3>1. Alone(x) /\ user'[x] = user[x] /\ known'[x] = known[x]
      BY <1>3, <1>6, <2>2 DEF Alone
    <3> QED
      BY <1>2, <1>3, <1>9, <3>1 DEF Only
  <2> QED
    BY <2>1, <2>2
<1>11. Quiet'
  <2> SUFFICES ASSUME NEW v \in User, told'[v] # None, NEW d \in Call,
                      user'[d] = v, Pending(d)'
               PROVE  FALSE
    BY DEF Quiet, PendingOf
  <2>1. v # u /\ told[v] # None
    BY <1>2, <1>3 DEF ServiceTypeOK
  <2> QED
    BY <1>1, <1>3, <1>6, <2>1 DEF Quiet, PendingOf
<1>12. ToldIsTrue'
  BY <1>2, <1>3, <1>9 DEF ToldIsTrue, ServiceTypeOK
<1> QED
  BY <1>4, <1>5, <1>7, <1>8, <1>10, <1>11, <1>12 DEF SInv

\* An answer that is believed is the whole truth: the call has closed what it knew.
LEMMA SaysTrue ==
    ASSUME SInv, NEW c \in Call, Alone(c), pc[c] = "done", Says(c) # None
    PROVE  ActiveOf(user[c]) = Says(c)
<1>1. ActiveOf(user[c]) \subseteq known[c] \cup {c}
  BY DEF SInv, Only
<1>2. CASE answer[c].code = "OK" /\ c \in End
  <2>1. Says(c) = {}
    BY <1>2, CallKinds DEF Says
  <2>2. known[c] \cap Active = {} /\ c \notin timers
    BY <1>2, CallKinds DEF SInv, IInv, Supersedes, TypeOK
  <2> QED
    BY <1>1, <2>1, <2>2 DEF ActiveOf, Active
<1>3. CASE answer[c].timer # None /\ c \in Start
  <2>1. answer[c].timer = c /\ c \in timers
    BY <1>3 DEF SInv, Named
  <2>2. Says(c) = {c}
    BY <1>3, <2>1, CallKinds DEF Says
  <2>3. known[c] \cap Active = {} /\ closer[c] = None
    BY <1>3, <2>1 DEF SInv, IInv, Supersedes, Only
  <2> QED
    BY <1>1, <2>1, <2>2, <2>3 DEF ActiveOf, Active
<1> QED
  BY <1>2, <1>3 DEF Says

LEMMA ReplySInv == ASSUME SInv, NEW c \in Call, Relay(c) \/ GiveUp(c) PROVE SInv'
<1>1. /\ stage[c] = "waiting" /\ stage' = [stage EXCEPT ![c] = "answered"]
      /\ UNCHANGED vars /\ crossed' = crossed
  BY DEF Relay, GiveUp, Leave
<1>2. /\ IInv /\ ServiceTypeOK /\ TypeOK /\ Before /\ Named
      /\ Sent /\ Apart /\ Only /\ Quiet /\ ToldIsTrue
  BY DEF SInv, IInv
<1>3. IInv' /\ Before' /\ Named'
  BY <1>1, CallsStep DEF SInv
<1>4. /\ user' = user /\ pc' = pc /\ known' = known /\ seen' = seen /\ closing' = closing
      /\ timers' = timers /\ closer' = closer
      /\ \A u \in User : ActiveOf(u)' = ActiveOf(u)
  BY <1>1 DEF vars, rowVars, ActiveOf, Active
<1>5. \A d \in Call : /\ Alone(d)' => Alone(d)
                      /\ Pending(d)' => Pending(d)
                      /\ stage'[d] = "idle" <=> stage[d] = "idle"
  BY <1>1, <1>2, <1>4 DEF Alone, Pending, Running, ServiceTypeOK
<1>6. Sent' /\ Apart'
  BY <1>2, <1>4, <1>5 DEF Sent, Apart
<1>7. Only'
  BY <1>2, <1>4, <1>5 DEF Only, ActiveOf, Active
<1>8. CASE GiveUp(c)
  <2>1. told' = told
    BY <1>8 DEF GiveUp
  <2>2. ServiceTypeOK' /\ Quiet' /\ ToldIsTrue'
    BY <1>1, <1>2, <1>3, <1>4, <1>5, <2>1
       DEF ServiceTypeOK, IInv, Quiet, PendingOf, ToldIsTrue
  <2> QED
    BY <1>3, <1>6, <1>7, <2>2 DEF SInv
<1>9. CASE Relay(c)
  <2> DEFINE new == IF c \in crossed THEN None ELSE Says(c)
  <2>1. told' = [told EXCEPT ![user[c]] = new] /\ pc[c] = "done"
    BY <1>9 DEF Relay
  <2>2. Says(c) \in (SUBSET Start) \cup {None}
    BY <1>2 DEF Says, Named
  <2>3. ServiceTypeOK'
    BY <1>1, <1>2, <1>3, <2>1, <2>2 DEF ServiceTypeOK, IInv
  <2>4. \A u \in User : \/ told'[u] = told[u]
                        \/ u = user[c] /\ told'[u] = new
    BY <1>2, <2>1 DEF ServiceTypeOK
  <2>5. new # None => Alone(c) /\ ActiveOf(user[c]) = new
    BY <1>1, <2>1, SaysTrue DEF Alone
  <2>6. new # None => \A d \in Call : user[d] = user[c] => ~Pending(d)'
    <3>1. ~Pending(c)'
      BY <1>1, <1>2, <1>4, <2>1 DEF Pending, Running, ServiceTypeOK
    <3> QED
      BY <1>2, <1>5, <2>5, <3>1 DEF Apart
  <2> HIDE DEF new
  <2>7. Quiet'
    BY <1>2, <1>4, <1>5, <2>4, <2>6 DEF Quiet, PendingOf
  <2>8. ToldIsTrue'
    BY <1>2, <1>4, <2>4, <2>5 DEF ToldIsTrue
  <2> QED
    BY <1>3, <1>6, <1>7, <2>3, <2>7, <2>8 DEF SInv
<1> QED
  BY <1>8, <1>9

LEMMA ServiceInvariance == ServiceSpec => []SInv
<1>1. SInv /\ [ServiceNext]_allVars => SInv'
  <2> SUFFICES ASSUME SInv, [ServiceNext]_allVars PROVE SInv'
    OBVIOUS
  <2>1. ASSUME NEW c \in Call, StartTimer(c) \/ EndTimer(c) \/ Relay(c) \/ GiveUp(c)
        PROVE  SInv'
    BY <2>1, SendSInv, ReplySInv DEF StartTimer, EndTimer
  <2>2. ASSUME DbStep, UNCHANGED serviceVars PROVE SInv'
    BY <2>2, DbStepSInv
  <2>3. CASE UNCHANGED allVars
    <3>1. IInv' /\ Before' /\ Named'
      BY <2>3, CallsStep DEF SInv, allVars
    <3> QED
      BY <2>3, <3>1 DEF allVars, vars, rowVars, serviceVars, SInv, ServiceTypeOK, IInv,
         TypeOK, Sent, Apart, Alone, Pending, PendingOf, Running, Only, Quiet,
         ToldIsTrue, ActiveOf, Active
  <2> QED
    BY <2>1, <2>2, <2>3 DEF ServiceNext, DbStep
<1> QED
  BY <1>1, InitSInv, PTL DEF ServiceSpec

\* The service's variables keep their types, too.
THEOREM ServiceTypeCorrect == ServiceSpec => []ServiceTypeOK
  BY ServiceInvariance, PTL DEF SInv

\* What a user was told of his timers, by an answer to a request that crossed no
\* other of his, is true until his next request.
THEOREM ToldStaysTrue == ServiceSpec => []ToldIsTrue
  BY ServiceInvariance, PTL DEF SInv

\* With the service before it, dbservice takes no step of another kind: what holds
\* for Spec holds here.
THEOREM ServiceUsesTimers == ServiceSpec => Spec
<1>1. ServiceInit => Init
  BY DEF ServiceInit
<1> QED
  BY <1>1, ServiceStepsNext, PTL DEF ServiceSpec, Spec
=============================================================================
