---------------------------- MODULE Team_proofs -----------------------------
(***************************************************************************)
(* Proofs about adding staff, for any calls, batches, companies and        *)
(* founders.                                                               *)
(***************************************************************************)
EXTENDS Team, TLAPS

-----------------------------------------------------------------------------
(* The inductive invariant. *)

\* Rows of authusers that are committed or held by an open transaction.
Held == authusers \cup UNION {newUsers[c] : c \in Call}

\* No two of those share a key: what the book's UniqueUsers becomes before the commits.
KeysHeldUnique == \A r, s \in Held : r # s => ~Clash(r, s)

\* A transaction inserts rows of its own call, and what it is about to insert
\* clashes with none of them.
Own ==
    \A c \in Call :
        /\ \A r \in newUsers[c] : r.by = c
        /\ pc[c] = "insertUser" =>
               row[c].by = c /\ \A r \in newUsers[c] : ~Clash(r, row[c])

\* What a stage knows of the locals, and when there is an answer.
Local ==
    \A c \in Call :
        /\ pc[c] # "idle" => job[c] \in Job
        /\ pc[c] = "begin" => todo[c] = job[c].batch
        /\ pc[c] \in {"member", "insertUser", "link"} => row[c] \in Row
        /\ pc[c] = "commitMembers" => todo[c] = {} /\ newUsers[c] = {}
        /\ pc[c] # "done" => answer[c] = NoAnswer
        /\ mailed[c] \subseteq answer[c].users

\* A row that is linked, or about to be, is committed or the call's own; its own
\* may only have been lost by the first commit.
Backed ==
    \A c \in Call :
        /\ pc[c] \in {"member", "link"} => row[c] \in authusers \cup newUsers[c]
        /\ \A r \in newMembers[c] :
               \/ r \in authusers \cup newUsers[c]
               \/ r.by = c /\ c \in txErr

\* The call has an account for the entry, and has linked it or found it linked...
Handled(c, e) ==
    \E r \in authusers \cup newUsers[c] :
        SameKey(r.entry, e) /\ (LinkedTo(c, r) \/ r \in newMembers[c])

\* ...or is about to.
AtHand(c, e) ==
    pc[c] \in {"member", "insertUser", "link"} /\ SameKey(row[c].entry, e)

Working(c) == pc[c] \in {"next", "member", "insertUser", "link", "commitMembers"}

\* Every entry that is no longer to do is handled or at hand.
Batched ==
    \A c \in Call : Working(c) /\ c \notin txErr =>
        \A e \in job[c].batch \ todo[c] : Handled(c, e) \/ AtHand(c, e)

\* A call is not seen in a database before its commit there.
Unseen ==
    \A c \in Call :
        /\ pc[c] \notin {"commitMembers", "done"} => \A r \in authusers : r.by # c
        /\ pc[c] # "done" => \A m \in members : m.by # c

\* Only a running call has transactions open.
Ended ==
    \A c \in Call : ~Running(c) => newUsers[c] = {} /\ newMembers[c] = {}

IInv ==
    /\ TypeOK /\ KeysHeldUnique /\ Own /\ Local /\ Backed /\ Batched /\ Unseen
    /\ Ended /\ MembersBacked /\ ReportedAreMembers /\ ErrorsLeaveNothing

-----------------------------------------------------------------------------
(* The actions, grouped by what they do. *)

Aborts(c) == BeginFails(c) \/ InsertConflicts(c) \/ StatementFails(c)

Listens(c) ==
    Receive(c) \/ ReceiveFails(c) \/ SendMail(c) \/ SendMailFails(c) \/ Report(c)

\* A call that aborts has committed nothing.
LEMMA AbortsStep ==
    ASSUME NEW c \in Call, Aborts(c)
    PROVE  Abort(c) /\ pc[c] \in {"begin", "next", "member", "insertUser", "link"}
  BY DEF Aborts, BeginFails, InsertConflicts, StatementFails

\* The caller only mails what it has been answered.
LEMMA ListensStep ==
    ASSUME NEW c \in Call, Listens(c)
    PROVE  /\ UNCHANGED rpcVars
           /\ \E S \in SUBSET answer[c].users :
                  mailed' = [mailed EXCEPT ![c] = @ \cup S]
                  \/ mailed' = mailed
<1>1. ASSUME SendMail(c) \/ SendMailFails(c)
      PROVE  \E S \in SUBSET answer[c].users :
                 mailed' = [mailed EXCEPT ![c] = @ \cup S]
  BY <1>1 DEF SendMail, SendMailFails, Unsent
<1>2. ASSUME Receive(c) \/ ReceiveFails(c) \/ Report(c) PROVE mailed' = mailed
  BY <1>2 DEF Receive, ReceiveFails, Report
<1>3. UNCHANGED rpcVars
  BY DEF Listens, Receive, ReceiveFails, SendMail, SendMailFails, Report
<1>4. QED
  BY <1>1, <1>2, <1>3 DEF Listens

LEMMA ClashSymmetric == \A r, s : Clash(r, s) <=> Clash(s, r)
  BY DEF Clash, SameKey

LEMMA InitIInv == Init => IInv
<1> SUFFICES ASSUME Init PROVE IInv
  OBVIOUS
<1> USE DEF Init
<1>1. authusers \subseteq Row /\ members \subseteq Member
  BY FounderAssumption DEF Row, Member
<1>2. TypeOK
  BY <1>1 DEF TypeOK, Stages, Codes, NoAnswer
<1>3. KeysHeldUnique
  BY FounderAssumption DEF KeysHeldUnique, Held
<1>4. Own /\ Local /\ Backed /\ Batched /\ Ended
  BY DEF Own, Local, Backed, Batched, Working, Ended
<1>5. \A r \in authusers : r.by = None
  BY FounderAssumption
<1>6. \A m \in members : m.by = None /\ m.row \in authusers
  OBVIOUS
<1>7. Unseen /\ ErrorsLeaveNothing
  BY <1>5, <1>6, NoneAssumption DEF Unseen, ErrorsLeaveNothing
<1>8. MembersBacked
  BY <1>6 DEF MembersBacked
<1>9. ReportedAreMembers
  BY DEF ReportedAreMembers, NoAnswer
<1>10. QED
  BY <1>2, <1>3, <1>4, <1>7, <1>8, <1>9 DEF IInv

-----------------------------------------------------------------------------
(* Every step preserves each part of the invariant. *)

PcAnswerType ==
    /\ pc \in [Call -> Stages]
    /\ answer \in [Call -> [code : Codes, users : SUBSET Entry]]

LEMMA ReturnType ==
    ASSUME TypeOK, NEW c \in Call, NEW code \in Codes, NEW users \in SUBSET Entry,
           Return(c, code, users)
    PROVE  PcAnswerType'
<1>1. [code |-> code, users |-> users] \in [code : Codes, users : SUBSET Entry]
  OBVIOUS
<1>2. QED
  BY <1>1 DEF TypeOK, Return, Goto, Stages, PcAnswerType

LEMMA TypeStep == TypeOK /\ Local /\ [Next]_vars => TypeOK'
<1> SUFFICES ASSUME TypeOK, Local, [Next]_vars PROVE TypeOK'
  OBVIOUS
<1> USE DEF TypeOK, PcAnswerType, Goto, txVars, dbVars, callerVars, rpcVars
<1>1. ASSUME NEW c \in Call, Arrive(c) PROVE TypeOK'
  BY <1>1, JobAssumption DEF Arrive, Stages
<1>2. ASSUME NEW c \in Call, Begin(c) \/ IsMember(c) PROVE TypeOK'
  BY <1>2 DEF Begin, IsMember, Stages
<1>3. ASSUME NEW c \in Call, Aborts(c) PROVE TypeOK'
  <2>1. Abort(c) /\ Return(c, "error", {})
    BY <1>3, AbortsStep DEF Abort
  <2>2. PcAnswerType'
    BY <2>1, ReturnType DEF Codes
  <2>3. QED
    BY <2>1, <2>2 DEF Abort
<1>4. ASSUME NEW c \in Call, NEW e \in Entry, Find(c, e) PROVE TypeOK'
  BY <1>4 DEF Find, Stages
<1>5. ASSUME NEW c \in Call, NEW e \in Entry, FindNone(c, e) PROVE TypeOK'
  <2>1. job[c] \in Job
    BY <1>5 DEF FindNone, Local
  <2>2. [by |-> c, entry |-> e, company |-> job[c].company] \in Row
    BY <2>1, JobAssumption DEF Row
  <2>3. QED
    BY <1>5, <2>2 DEF FindNone, Stages
<1>6. ASSUME NEW c \in Call, InsertUser(c) \/ Link(c) PROVE TypeOK'
  <2>1. row[c] \in Row
    BY <1>6 DEF InsertUser, Link, Local
  <2>2. CASE InsertUser(c)
    BY <2>1, <2>2 DEF InsertUser, Stages
  <2>3. CASE Link(c)
    BY <2>1, <2>3 DEF Link, Stages
  <2>4. QED
    BY <1>6, <2>2, <2>3
<1>7. ASSUME NEW c \in Call, CommitUsers(c) \/ CommitUsersFails(c) PROVE TypeOK'
  <2>1. newUsers[c] \subseteq Row
    OBVIOUS
  <2>2. authusers' \subseteq Row /\ txErr' \subseteq Call
    BY <1>7, <2>1 DEF CommitUsers, CommitUsersFails
  <2>3. newUsers' \in [Call -> SUBSET Row] /\ pc' \in [Call -> Stages]
    BY <1>7 DEF CommitUsers, CommitUsersFails, EndTx, Stages
  <2>4. QED
    BY <1>7, <2>2, <2>3 DEF CommitUsers, CommitUsersFails
<1>8. ASSUME NEW c \in Call, CommitMembers(c) \/ CommitMembersFails(c)
      PROVE  TypeOK'
  <2>1. job[c] \in Job
    BY <1>8 DEF CommitMembers, CommitMembersFails, Local
  <2>2. Links(c) \subseteq Member
    BY <2>1, JobAssumption DEF Links, Database, Member
  <2>3. AnswerOf(c) \subseteq Entry
    BY <2>1, JobAssumption DEF AnswerOf
  <2>4. QED
    <3>1. PcAnswerType'
      BY <1>8, <2>3, ReturnType DEF CommitMembers, CommitMembersFails, Codes
    <3>2. members' \subseteq Member
      BY <1>8, <2>2 DEF CommitMembers, CommitMembersFails
    <3>3. QED
      BY <1>8, <3>1, <3>2 DEF CommitMembers, CommitMembersFails
<1>9. ASSUME NEW c \in Call, Listens(c) PROVE TypeOK'
  <2>1. heard' \in [Call -> {"waiting", "mailing", "told", "failed"}]
    BY <1>9 DEF Listens, Receive, ReceiveFails, SendMail, SendMailFails, Report
  <2>2. answer[c].users \subseteq Entry
    OBVIOUS
  <2>3. mailed' \in [Call -> SUBSET Entry]
    BY <1>9, <2>2, ListensStep
  <2>4. QED
    BY <1>9, <2>1, <2>3, ListensStep
<1>10. ASSUME Crash PROVE TypeOK'
  BY <1>10 DEF Crash, Stages, Codes
<1>11. CASE UNCHANGED vars
  BY <1>11 DEF vars
<1>12. QED
  BY <1>1, <1>2, <1>3, <1>4, <1>5, <1>6, <1>7, <1>8, <1>9, <1>10, <1>11
     DEF Next, Progress, Failure, Caller, Aborts, Listens

\* Committed rows, and failed first commits, stay.
LEMMA Grow ==
    ASSUME IInv, [Next]_vars
    PROVE  authusers \subseteq authusers' /\ members \subseteq members'
           /\ txErr \subseteq txErr'
<1> USE DEF txVars, dbVars, callerVars, rpcVars
<1>1. ASSUME NEW c \in Call, Progress(c) \/ Failure(c) \/ Arrive(c)
      PROVE  authusers \subseteq authusers' /\ members \subseteq members'
             /\ txErr \subseteq txErr'
  BY <1>1 DEF Arrive, Progress, Failure, Begin, BeginFails, Find, FindNone,
     IsMember, InsertUser, Link, InsertConflicts, StatementFails, Abort,
     CommitUsers, CommitUsersFails, CommitMembers, CommitMembersFails
<1>2. ASSUME NEW c \in Call, Listens(c)
      PROVE  authusers' = authusers /\ members' = members /\ txErr' = txErr
  BY <1>2, ListensStep
<1>3. ASSUME Crash \/ UNCHANGED vars
      PROVE  authusers' = authusers /\ members' = members /\ txErr' = txErr
  BY <1>3 DEF Crash, vars
<1>4. QED
  BY <1>1, <1>2, <1>3 DEF Next, Caller, Listens

\* Only an INSERT adds a row to those that are held.
LEMMA HeldStep ==
    ASSUME IInv, [Next]_vars
    PROVE  Held' \subseteq Held \/ \E c \in Call : InsertUser(c)
<1> SUFFICES ASSUME ~\E c \in Call : InsertUser(c) PROVE Held' \subseteq Held
  OBVIOUS
<1> USE DEF txVars, dbVars, callerVars, rpcVars, Held, IInv, TypeOK
<1>1. ASSUME NEW c \in Call,
             \/ Arrive(c) \/ Begin(c) \/ (\E e \in Entry : Find(c, e) \/ FindNone(c, e))
             \/ IsMember(c) \/ Link(c)
             \/ CommitMembers(c) \/ CommitMembersFails(c)
      PROVE  Held' \subseteq Held
  BY <1>1 DEF Arrive, Begin, Find, FindNone, IsMember, Link, CommitMembers,
     CommitMembersFails
<1>2. ASSUME NEW c \in Call, Aborts(c) PROVE Held' \subseteq Held
  BY <1>2, AbortsStep DEF Abort
<1>3. ASSUME NEW c \in Call, CommitUsers(c) \/ CommitUsersFails(c)
      PROVE  Held' \subseteq Held
  BY <1>3 DEF CommitUsers, CommitUsersFails, EndTx
<1>4. ASSUME NEW c \in Call, Listens(c) PROVE Held' \subseteq Held
  BY <1>4, ListensStep
<1>5. ASSUME Crash \/ UNCHANGED vars PROVE Held' \subseteq Held
  BY <1>5 DEF Crash, vars
<1>6. QED
  BY <1>1, <1>2, <1>3, <1>4, <1>5
     DEF Next, Progress, Failure, Caller, Aborts, Listens

LEMMA KeysHeldUniqueStep == IInv /\ [Next]_vars => KeysHeldUnique'
<1> SUFFICES ASSUME IInv, [Next]_vars PROVE KeysHeldUnique'
  OBVIOUS
<1>1. CASE Held' \subseteq Held
  BY <1>1 DEF IInv, KeysHeldUnique, Clash
<1>2. ASSUME NEW c \in Call, InsertUser(c) PROVE KeysHeldUnique'
  <2>1. Held' \subseteq Held \cup {row[c]}
    BY <1>2 DEF InsertUser, Held, dbVars, IInv, TypeOK
  <2>2. \A r \in Held : ~Clash(r, row[c])
    <3>1. \A r \in authusers : ~Clash(r, row[c])
      BY <1>2 DEF InsertUser
    <3>2. \A r \in newUsers[c] : ~Clash(r, row[c])
      BY <1>2 DEF InsertUser, IInv, Own
    <3>3. \A d \in Call \ {c} : \A r \in newUsers[d] : ~Clash(r, row[c])
      BY <1>2 DEF InsertUser, WaitsUser
    <3>4. QED
      BY <3>1, <3>2, <3>3 DEF Held
  <2>3. \A r, s \in Held' : r # s => ~Clash(r, s)
    BY <2>1, <2>2, ClashSymmetric DEF IInv, KeysHeldUnique
  <2>4. QED
    BY <2>3 DEF KeysHeldUnique, Clash
<1>3. QED
  BY <1>1, <1>2, HeldStep

LEMMA OwnStep == IInv /\ [Next]_vars => Own'
<1> SUFFICES ASSUME IInv, [Next]_vars PROVE Own'
  OBVIOUS
<1> USE DEF IInv, TypeOK, Own, Goto, Return, txVars, dbVars, callerVars, rpcVars
<1>1. ASSUME NEW c \in Call, Arrive(c) PROVE Own'
  BY <1>1 DEF Arrive
<1>2. ASSUME NEW c \in Call, Begin(c) \/ IsMember(c) \/ Link(c) PROVE Own'
  BY <1>2 DEF Begin, IsMember, Link
<1>3. ASSUME NEW c \in Call, NEW e \in Entry, Find(c, e) PROVE Own'
  BY <1>3 DEF Find
<1>4. ASSUME NEW c \in Call, NEW e \in Entry, FindNone(c, e) PROVE Own'
  <2>1. /\ row'[c].by = c /\ row'[c].entry = e
        /\ \A d \in Call \ {c} : row'[d] = row[d]
    BY <1>4 DEF FindNone
  <2>2. \A r \in newUsers[c] : ~SameKey(r.entry, e)
    BY <1>4 DEF FindNone
  <2>3. QED
    BY <1>4, <2>1, <2>2 DEF FindNone, Clash
<1>5. ASSUME NEW c \in Call, InsertUser(c) PROVE Own'
  BY <1>5 DEF InsertUser
<1>6. ASSUME NEW c \in Call, Aborts(c) PROVE Own'
  BY <1>6, AbortsStep DEF Abort
<1>7. ASSUME NEW c \in Call, CommitUsers(c) \/ CommitUsersFails(c) PROVE Own'
  BY <1>7 DEF CommitUsers, CommitUsersFails, EndTx
<1>8. ASSUME NEW c \in Call, CommitMembers(c) \/ CommitMembersFails(c) PROVE Own'
  BY <1>8 DEF CommitMembers, CommitMembersFails
<1>9. ASSUME NEW c \in Call, Listens(c) PROVE Own'
  BY <1>9, ListensStep
<1>10. ASSUME Crash \/ UNCHANGED vars PROVE Own'
  BY <1>10 DEF Crash, Running, vars
<1>11. QED
  BY <1>1, <1>2, <1>3, <1>4, <1>5, <1>6, <1>7, <1>8, <1>9, <1>10
     DEF Next, Progress, Failure, Caller, Aborts, Listens

LEMMA LocalStep == IInv /\ [Next]_vars => Local'
<1> SUFFICES ASSUME IInv, [Next]_vars PROVE Local'
  OBVIOUS
<1> USE DEF IInv, TypeOK, Local, Goto, Return, txVars, dbVars, callerVars, rpcVars
<1>1. ASSUME NEW c \in Call, Arrive(c) PROVE Local'
  BY <1>1 DEF Arrive
<1>2. ASSUME NEW c \in Call, Begin(c) \/ IsMember(c) \/ Link(c) PROVE Local'
  <2>1. IsMember(c) => row[c] \in Row
    BY DEF IsMember
  <2>2. QED
    BY <1>2, <2>1 DEF Begin, IsMember, Link
<1>3. ASSUME NEW c \in Call, NEW e \in Entry, Find(c, e) PROVE Local'
  <2>1. row'[c] \in Row
    BY <1>3 DEF Find
  <2>2. QED
    BY <1>3, <2>1 DEF Find
<1>4. ASSUME NEW c \in Call, NEW e \in Entry, FindNone(c, e) PROVE Local'
  <2>1. row'[c] \in Row
    <3>1. job[c] \in Job
      BY <1>4 DEF FindNone
    <3>2. [by |-> c, entry |-> e, company |-> job[c].company] \in Row
      BY <3>1, JobAssumption DEF Row
    <3>3. QED
      BY <1>4, <3>2 DEF FindNone
  <2>2. QED
    BY <1>4, <2>1 DEF FindNone
<1>5. ASSUME NEW c \in Call, InsertUser(c) PROVE Local'
  BY <1>5 DEF InsertUser
<1>6. ASSUME NEW c \in Call, Aborts(c) PROVE Local'
  <2>1. mailed[c] = {}
    BY <1>6, AbortsStep DEF NoAnswer
  <2>2. QED
    BY <1>6, <2>1, AbortsStep DEF Abort
<1>7. ASSUME NEW c \in Call, CommitUsers(c) \/ CommitUsersFails(c) PROVE Local'
  BY <1>7 DEF CommitUsers, CommitUsersFails, EndTx
<1>8. ASSUME NEW c \in Call, CommitMembers(c) \/ CommitMembersFails(c) PROVE Local'
  <2>1. mailed[c] = {}
    BY <1>8 DEF CommitMembers, CommitMembersFails, NoAnswer
  <2>2. QED
    BY <1>8, <2>1 DEF CommitMembers, CommitMembersFails
<1>9. ASSUME NEW c \in Call, Listens(c) PROVE Local'
  <2>1. UNCHANGED rpcVars
    BY <1>9, ListensStep
  <2>2. \A d \in Call : mailed'[d] \subseteq answer[d].users
    BY <1>9, ListensStep
  <2>3. QED
    BY <2>1, <2>2
<1>10. CASE Crash
  <2>1. \A c \in Call : Running(c) => mailed[c] = {}
    BY DEF Running, NoAnswer
  <2>2. QED
    BY <1>10, <2>1 DEF Crash, Running
<1>11. CASE UNCHANGED vars
  BY <1>11 DEF vars
<1>12. QED
  BY <1>1, <1>2, <1>3, <1>4, <1>5, <1>6, <1>7, <1>8, <1>9, <1>10, <1>11
     DEF Next, Progress, Failure, Caller, Aborts, Listens

LEMMA BackedStep == IInv /\ [Next]_vars => Backed'
<1> SUFFICES ASSUME IInv, [Next]_vars PROVE Backed'
  OBVIOUS
<1> USE DEF IInv, TypeOK, Backed, Goto, Return, txVars, dbVars, callerVars, rpcVars
<1>1. ASSUME NEW c \in Call, Arrive(c) \/ Begin(c) PROVE Backed'
  BY <1>1 DEF Arrive, Begin
<1>2. ASSUME NEW c \in Call, IsMember(c) \/ Link(c) PROVE Backed'
  BY <1>2 DEF IsMember, Link
<1>3. ASSUME NEW c \in Call, NEW e \in Entry, Find(c, e) \/ FindNone(c, e)
      PROVE  Backed'
  BY <1>3 DEF Find, FindNone
<1>4. ASSUME NEW c \in Call, InsertUser(c) PROVE Backed'
  <2>1. /\ newUsers'[c] = newUsers[c] \cup {row[c]}
        /\ \A d \in Call \ {c} : newUsers'[d] = newUsers[d]
    BY <1>4 DEF InsertUser
  <2>2. QED
    BY <1>4, <2>1 DEF InsertUser
<1>5. ASSUME NEW c \in Call, Aborts(c) PROVE Backed'
  BY <1>5, AbortsStep DEF Abort
<1>6. ASSUME NEW c \in Call, CommitUsers(c) PROVE Backed'
  BY <1>6 DEF CommitUsers, EndTx
<1>7. ASSUME NEW c \in Call, CommitUsersFails(c) PROVE Backed'
  <2>1. /\ newUsers'[c] = {} /\ pc'[c] = "commitMembers"
        /\ \A d \in Call \ {c} : newUsers'[d] = newUsers[d] /\ pc'[d] = pc[d]
        /\ row' = row /\ newMembers' = newMembers /\ c \in txErr'
    BY <1>7 DEF CommitUsersFails, EndTx
  <2>2. authusers \subseteq authusers' /\ txErr \subseteq txErr'
    BY Grow
  <2>3. \A r \in newUsers[c] : r.by = c
    BY DEF Own
  <2>4. QED
    BY <2>1, <2>2, <2>3
<1>8. ASSUME NEW c \in Call, CommitMembers(c) \/ CommitMembersFails(c)
      PROVE  Backed'
  BY <1>8 DEF CommitMembers, CommitMembersFails
<1>9. ASSUME NEW c \in Call, Listens(c) PROVE Backed'
  BY <1>9, ListensStep
<1>10. ASSUME Crash \/ UNCHANGED vars PROVE Backed'
  BY <1>10 DEF Crash, Running, vars
<1>11. QED
  BY <1>1, <1>2, <1>3, <1>4, <1>5, <1>6, <1>7, <1>8, <1>9, <1>10
     DEF Next, Progress, Failure, Caller, Aborts, Listens

\* What a call has for an entry, it keeps.
LEMMA HandledStays ==
    ASSUME IInv, [Next]_vars, NEW c \in Call, NEW e, Handled(c, e),
           job'[c] = job[c], newMembers[c] \subseteq newMembers'[c],
           newUsers[c] \subseteq authusers' \cup newUsers'[c]
    PROVE  Handled(c, e)'
<1>1. PICK r \in authusers \cup newUsers[c] :
          SameKey(r.entry, e) /\ (LinkedTo(c, r) \/ r \in newMembers[c])
  BY DEF Handled
<1>2. r \in authusers' \cup newUsers'[c]
  BY <1>1, Grow
<1>3. LinkedTo(c, r)' \/ r \in newMembers'[c]
  BY <1>1, Grow DEF LinkedTo, Database
<1>4. QED
  BY <1>1, <1>2, <1>3 DEF Handled, SameKey

\* A step of another call leaves the locals of c alone.
LEMMA Frame ==
    ASSUME IInv, [Next]_vars, NEW c \in Call, ~Progress(c), ~Failure(c), ~Arrive(c)
    PROVE  \/ /\ job'[c] = job[c] /\ pc'[c] = pc[c] /\ todo'[c] = todo[c]
              /\ row'[c] = row[c] /\ newUsers'[c] = newUsers[c]
              /\ newMembers'[c] = newMembers[c] /\ (c \in txErr' <=> c \in txErr)
           \/ pc'[c] \in {"idle", "done"}
<1> USE DEF IInv, TypeOK, Goto, Return, txVars, dbVars, callerVars, rpcVars
<1> DEFINE Still ==
      /\ job'[c] = job[c] /\ pc'[c] = pc[c] /\ todo'[c] = todo[c]
      /\ row'[c] = row[c] /\ newUsers'[c] = newUsers[c]
      /\ newMembers'[c] = newMembers[c] /\ (c \in txErr' <=> c \in txErr)
<1>1. ASSUME NEW d \in Call \ {c}, Arrive(d) \/ Begin(d) \/ IsMember(d) PROVE Still
  BY <1>1 DEF Arrive, Begin, IsMember
<1>2. ASSUME NEW d \in Call \ {c}, NEW e \in Entry, Find(d, e) \/ FindNone(d, e)
      PROVE  Still
  BY <1>2 DEF Find, FindNone
<1>3. ASSUME NEW d \in Call \ {c}, InsertUser(d) \/ Link(d) PROVE Still
  BY <1>3 DEF InsertUser, Link
<1>4. ASSUME NEW d \in Call \ {c}, Aborts(d) PROVE Still
  BY <1>4, AbortsStep DEF Abort
<1>5. ASSUME NEW d \in Call \ {c}, CommitUsers(d) \/ CommitUsersFails(d) PROVE Still
  BY <1>5 DEF CommitUsers, CommitUsersFails, EndTx
<1>6. ASSUME NEW d \in Call \ {c}, CommitMembers(d) \/ CommitMembersFails(d)
      PROVE  Still
  BY <1>6 DEF CommitMembers, CommitMembersFails
<1>7. ASSUME NEW d \in Call, Listens(d) PROVE Still
  BY <1>7, ListensStep
<1>8. ASSUME Crash PROVE pc'[c] \in {"idle", "done"}
  BY <1>8 DEF Crash, Running
<1>9. ASSUME UNCHANGED vars PROVE Still
  BY <1>9 DEF vars
<1>10. QED
  BY <1>1, <1>2, <1>3, <1>4, <1>5, <1>6, <1>7, <1>8, <1>9
     DEF Next, Progress, Failure, Caller, Aborts, Listens

LEMMA BatchedStep == IInv /\ [Next]_vars => Batched'
<1> SUFFICES ASSUME IInv, [Next]_vars, NEW c \in Call,
                    Working(c)', c \notin txErr', NEW e \in (job[c].batch \ todo[c])'
             PROVE  Handled(c, e)' \/ AtHand(c, e)'
  BY DEF Batched
<1> USE DEF Goto, Return, txVars, dbVars, callerVars
<1>0. TypeOK /\ c \notin txErr
  BY Grow DEF IInv
<1>1. ASSUME Working(c), e \in job[c].batch \ todo[c]
      PROVE  Handled(c, e) \/ AtHand(c, e)
  BY <1>0, <1>1 DEF IInv, Batched
<1>2. CASE ~Progress(c) /\ ~Failure(c) /\ ~Arrive(c)
  <2>1. /\ job'[c] = job[c] /\ pc'[c] = pc[c] /\ todo'[c] = todo[c]
        /\ row'[c] = row[c] /\ newUsers'[c] = newUsers[c]
        /\ newMembers'[c] = newMembers[c]
    BY <1>2, Frame DEF Working
  <2>2. Handled(c, e) \/ AtHand(c, e)
    BY <1>1, <2>1 DEF Working
  <2>3. QED
    BY <2>1, <2>2, HandledStays DEF AtHand, SameKey
<1>3. CASE Begin(c)
  BY <1>0, <1>3 DEF Begin, IInv, Local
<1>4. ASSUME NEW f \in Entry, Find(c, f) \/ FindNone(c, f)
      PROVE  Handled(c, e)' \/ AtHand(c, e)'
  <2>1. /\ pc[c] = "next" /\ todo'[c] = todo[c] \ {f} /\ job' = job
        /\ newUsers' = newUsers /\ newMembers' = newMembers
        /\ pc'[c] \in {"member", "insertUser"}
    BY <1>0, <1>4 DEF Find, FindNone, TypeOK
  <2>2. CASE e = f
    <3>1. SameKey(row'[c].entry, f)
      <4>1. CASE Find(c, f)
        BY <1>0, <4>1 DEF Find, TypeOK
      <4>2. CASE FindNone(c, f)
        <5>1. row'[c].entry = f
          BY <1>0, <4>2 DEF FindNone, TypeOK
        <5>2. QED
          BY <5>1 DEF SameKey
      <4>3. QED
        BY <1>4, <4>1, <4>2
    <3>2. QED
      BY <2>1, <2>2, <3>1 DEF AtHand, SameKey
  <2>3. CASE e # f
    <3>1. Handled(c, e)
      BY <1>1, <2>1, <2>3 DEF AtHand, Working
    <3>2. QED
      BY <2>1, <3>1, HandledStays
  <2>4. QED
    BY <2>2, <2>3
<1>5. CASE IsMember(c)
  <2>1. /\ pc[c] = "member" /\ UNCHANGED <<job, todo, row, txVars, dbVars>>
        /\ pc'[c] = IF LinkedTo(c, row[c]) \/ row[c] \in newMembers[c]
                    THEN "next" ELSE "link"
    BY <1>0, <1>5 DEF IsMember, TypeOK
  <2>2. row[c] \in authusers \cup newUsers[c]
    BY <2>1 DEF IInv, Backed
  <2>3. CASE Handled(c, e)
    BY <2>1, <2>3, HandledStays
  <2>4. CASE AtHand(c, e)
    <3>1. CASE pc'[c] = "link"
      BY <2>1, <2>4, <3>1 DEF AtHand, SameKey
    <3>2. CASE pc'[c] # "link"
      <4>1. Handled(c, e)
        BY <2>1, <2>2, <2>4, <3>2 DEF AtHand, Handled
      <4>2. QED
        BY <2>1, <4>1, HandledStays
    <3>3. QED
      BY <3>1, <3>2
  <2>5. QED
    BY <1>1, <2>1, <2>3, <2>4 DEF Working
<1>6. CASE InsertUser(c)
  <2>1. /\ pc[c] = "insertUser" /\ pc'[c] = "link"
        /\ UNCHANGED <<job, todo, row, newMembers>>
        /\ newUsers'[c] = newUsers[c] \cup {row[c]}
    BY <1>0, <1>6 DEF InsertUser, TypeOK
  <2>2. Handled(c, e) \/ AtHand(c, e)
    BY <1>1, <2>1 DEF Working
  <2>3. QED
    BY <2>1, <2>2, HandledStays DEF AtHand, SameKey
<1>7. CASE Link(c)
  <2>1. /\ pc[c] = "link" /\ UNCHANGED <<job, todo, row, newUsers, authusers>>
        /\ newMembers'[c] = newMembers[c] \cup {row[c]}
    BY <1>0, <1>7 DEF Link, TypeOK
  <2>2. CASE Handled(c, e)
    BY <2>1, <2>2, HandledStays
  <2>3. CASE AtHand(c, e)
    <3>1. row[c] \in authusers \cup newUsers[c] /\ SameKey(row[c].entry, e)
      BY <2>1, <2>3 DEF IInv, Backed, AtHand
    <3>2. QED
      BY <2>1, <3>1 DEF Handled, SameKey
  <2>4. QED
    BY <1>1, <2>1, <2>2, <2>3 DEF Working
<1>8. CASE CommitUsers(c)
  <2>1. /\ pc[c] = "next" /\ UNCHANGED <<job, todo, newMembers>>
        /\ newUsers[c] \subseteq authusers'
    BY <1>0, <1>8 DEF CommitUsers, TypeOK
  <2>2. Handled(c, e)
    BY <1>1, <2>1 DEF AtHand, Working
  <2>3. QED
    BY <2>1, <2>2, HandledStays
<1>9. ASSUME Arrive(c) \/ Aborts(c) \/ CommitUsersFails(c) \/ CommitMembers(c)
             \/ CommitMembersFails(c)
      PROVE  FALSE
  <2>1. CASE Arrive(c)
    BY <1>0, <2>1 DEF Arrive, Working, TypeOK
  <2>2. CASE Aborts(c)
    BY <1>0, <2>2, AbortsStep DEF Abort, Working, TypeOK
  <2>3. CASE CommitUsersFails(c)
    BY <2>3 DEF CommitUsersFails
  <2>4. CASE CommitMembers(c) \/ CommitMembersFails(c)
    BY <1>0, <2>4 DEF CommitMembers, CommitMembersFails, Working, TypeOK
  <2>5. QED
    BY <1>9, <2>1, <2>2, <2>3, <2>4
<1>10. QED
  BY <1>2, <1>3, <1>4, <1>5, <1>6, <1>7, <1>8, <1>9
     DEF Progress, Failure, Aborts

\* A call adds a row to authusers only by its first commit, and one to users
\* only by its second.
LEMMA Added ==
    ASSUME IInv, [Next]_vars, NEW c \in Call
    PROVE  /\ \A r \in authusers' \ authusers :
                  r.by = c => pc[c] = "next" /\ pc'[c] = "commitMembers"
           /\ \A m \in members' \ members :
                  m.by = c => pc[c] = "commitMembers" /\ pc'[c] = "done"
                              /\ answer'[c].code = "OK"
<1> DEFINE Same == authusers' = authusers /\ members' = members
<1> USE DEF IInv, TypeOK, Goto, Return, txVars, dbVars, callerVars, rpcVars
<1>1. ASSUME NEW d \in Call,
             \/ Arrive(d) \/ Begin(d) \/ (\E e \in Entry : Find(d, e) \/ FindNone(d, e))
             \/ IsMember(d) \/ InsertUser(d) \/ Link(d) \/ Aborts(d)
      PROVE  Same
  <2>1. Aborts(d) => Same
    BY AbortsStep DEF Abort
  <2>2. QED
    BY <1>1, <2>1 DEF Arrive, Begin, Find, FindNone, IsMember, InsertUser, Link
<1>2. ASSUME NEW d \in Call, CommitUsers(d) \/ CommitUsersFails(d)
      PROVE  /\ authusers' \subseteq authusers \cup newUsers[d] /\ members' = members
             /\ pc[d] = "next" /\ pc'[d] = "commitMembers"
             /\ \A r \in newUsers[d] : r.by = d
  BY <1>2 DEF CommitUsers, CommitUsersFails, Own
<1>3. ASSUME NEW d \in Call, CommitMembers(d) \/ CommitMembersFails(d)
      PROVE  /\ authusers' = authusers
             /\ \A m \in members' \ members : m.by = d
             /\ pc[d] = "commitMembers" /\ pc'[d] = "done"
             /\ answer'[d].code = "OK"
  <2>1. \A m \in Links(d) : m.by = d
    BY DEF Links
  <2>2. authusers' = authusers /\ members' \subseteq members \cup Links(d)
    BY <1>3 DEF CommitMembers, CommitMembersFails
  <2>3. pc[d] = "commitMembers" /\ pc'[d] = "done"
    BY <1>3 DEF CommitMembers, CommitMembersFails
  <2>4. answer'[d].code = "OK"
    BY <1>3 DEF CommitMembers, CommitMembersFails
  <2>5. QED
    BY <2>1, <2>2, <2>3, <2>4
<1>4. ASSUME NEW d \in Call, Listens(d) PROVE Same
  BY <1>4, ListensStep
<1>5. ASSUME Crash \/ UNCHANGED vars PROVE Same
  BY <1>5 DEF Crash, vars
<1>6. QED
  BY <1>1, <1>2, <1>3, <1>4, <1>5
     DEF Next, Progress, Failure, Caller, Aborts, Listens

\* No call goes back behind its commits.
LEMMA StageStep ==
    ASSUME IInv, [Next]_vars, NEW c \in Call
    PROVE  /\ pc'[c] \notin {"commitMembers", "done"} =>
                  pc[c] \notin {"commitMembers", "done"}
           /\ pc'[c] # "done" => pc[c] # "done"
           /\ answer'[c] # answer[c] => pc[c] # "done"
           /\ answer'[c].code = "error" =>
                  \/ pc[c] \notin {"commitMembers", "done"}
                  \/ answer[c].code = "error"
<1> DEFINE Forward ==
      /\ pc'[c] \notin {"commitMembers", "done"} =>
             pc[c] \notin {"commitMembers", "done"}
      /\ pc'[c] # "done" => pc[c] # "done"
      /\ answer'[c] # answer[c] => pc[c] # "done"
      /\ answer'[c].code = "error" =>
             pc[c] \notin {"commitMembers", "done"} \/ answer[c].code = "error"
<1> USE DEF IInv, TypeOK, Goto, Return, txVars, dbVars, callerVars, rpcVars
<1>1. ASSUME NEW d \in Call, Arrive(d) \/ Begin(d) \/ IsMember(d) PROVE Forward
  BY <1>1 DEF Arrive, Begin, IsMember
<1>2. ASSUME NEW d \in Call, NEW e \in Entry, Find(d, e) \/ FindNone(d, e)
      PROVE  Forward
  BY <1>2 DEF Find, FindNone
<1>3. ASSUME NEW d \in Call, InsertUser(d) \/ Link(d) PROVE Forward
  BY <1>3 DEF InsertUser, Link
<1>4. ASSUME NEW d \in Call, Aborts(d) PROVE Forward
  BY <1>4, AbortsStep DEF Abort
<1>5. ASSUME NEW d \in Call, CommitUsers(d) \/ CommitUsersFails(d) PROVE Forward
  BY <1>5 DEF CommitUsers, CommitUsersFails
<1>6. ASSUME NEW d \in Call, CommitMembers(d) \/ CommitMembersFails(d) PROVE Forward
  BY <1>6 DEF CommitMembers, CommitMembersFails
<1>7. ASSUME NEW d \in Call, Listens(d) PROVE Forward
  BY <1>7, ListensStep
<1>8. ASSUME Crash PROVE Forward
  BY <1>8 DEF Crash, Running
<1>9. ASSUME UNCHANGED vars PROVE Forward
  BY <1>9 DEF vars
<1>10. QED
  BY <1>1, <1>2, <1>3, <1>4, <1>5, <1>6, <1>7, <1>8, <1>9
     DEF Next, Progress, Failure, Caller, Aborts, Listens

LEMMA UnseenStep == IInv /\ [Next]_vars => Unseen'
<1> SUFFICES ASSUME IInv, [Next]_vars, NEW c \in Call
             PROVE  /\ pc'[c] \notin {"commitMembers", "done"} =>
                           \A r \in authusers' : r.by # c
                    /\ pc'[c] # "done" => \A m \in members' : m.by # c
  BY DEF Unseen
<1>1. /\ pc[c] \notin {"commitMembers", "done"} => \A r \in authusers : r.by # c
      /\ pc[c] # "done" => \A m \in members : m.by # c
  BY DEF IInv, Unseen
<1>2. QED
  BY <1>1, Added, StageStep

LEMMA EndedStep == IInv /\ [Next]_vars => Ended'
<1> SUFFICES ASSUME IInv, [Next]_vars, NEW c \in Call, ~Running(c)'
             PROVE  newUsers'[c] = {} /\ newMembers'[c] = {}
  BY DEF Ended
<1> USE DEF IInv, TypeOK, Ended, Running
<1>1. CASE UNCHANGED vars
  BY <1>1 DEF vars, txVars
<1>2. CASE Crash
  BY <1>2 DEF Crash
<1>3. ASSUME NEW d \in Call, Aborts(d) PROVE newUsers'[c] = {} /\ newMembers'[c] = {}
  BY <1>3, AbortsStep DEF Abort, Return, Goto
<1>4. ASSUME NEW d \in Call, Listens(d) PROVE newUsers'[c] = {} /\ newMembers'[c] = {}
  BY <1>4, ListensStep DEF rpcVars, txVars
<1>5. ASSUME NEW d \in Call,
             \/ Arrive(d) \/ Begin(d) \/ IsMember(d)
             \/ \E e \in Entry : Find(d, e) \/ FindNone(d, e)
      PROVE  newUsers'[c] = {} /\ newMembers'[c] = {}
  BY <1>5 DEF Arrive, Begin, IsMember, Find, FindNone, Goto, txVars
<1>6. ASSUME NEW d \in Call, InsertUser(d) \/ Link(d)
      PROVE  newUsers'[c] = {} /\ newMembers'[c] = {}
  BY <1>6 DEF InsertUser, Link, Goto
<1>7. ASSUME NEW d \in Call, CommitUsers(d) \/ CommitUsersFails(d)
      PROVE  newUsers'[c] = {} /\ newMembers'[c] = {}
  BY <1>7 DEF CommitUsers, CommitUsersFails, EndTx, Goto
<1>8. ASSUME NEW d \in Call, CommitMembers(d) \/ CommitMembersFails(d)
      PROVE  newUsers'[c] = {} /\ newMembers'[c] = {}
  BY <1>8 DEF CommitMembers, CommitMembersFails, Return, Goto, Local
<1>9. QED
  BY <1>1, <1>2, <1>3, <1>4, <1>5, <1>6, <1>7, <1>8
     DEF Next, Progress, Failure, Caller, Aborts, Listens

LEMMA ErrorsLeaveNothingStep == IInv /\ [Next]_vars => ErrorsLeaveNothing'
<1> SUFFICES ASSUME IInv, [Next]_vars, NEW c \in Call, answer'[c].code = "error"
             PROVE  /\ \A r \in authusers' : r.by # c
                    /\ \A m \in members' : m.by # c
  BY DEF ErrorsLeaveNothing
<1>1. \/ pc[c] \notin {"commitMembers", "done"}
      \/ answer[c].code = "error"
  BY StageStep
<1>2. answer[c].code = "error" => pc[c] = "done"
  BY DEF IInv, Local, NoAnswer
<1>3. /\ \A r \in authusers : r.by # c
      /\ \A m \in members : m.by # c
  BY <1>1 DEF IInv, Unseen, ErrorsLeaveNothing
<1>4. pc[c] = "next" => pc'[c] # "commitMembers"
  <2>1. ASSUME pc[c] = "next", pc'[c] = "commitMembers" PROVE answer'[c] = NoAnswer
    <3>1. pc'[c] # "done" => answer'[c] = NoAnswer
      BY LocalStep DEF Local
    <3>2. QED
      BY <2>1, <3>1
  <2>2. QED
    BY <2>1 DEF NoAnswer
<1>5. QED
  BY <1>1, <1>2, <1>3, <1>4, Added

\* The commits, and who makes them.
LEMMA UsersStep ==
    ASSUME TypeOK, [Next]_vars
    PROVE  \/ authusers' = authusers
           \/ \E c \in Call : CommitUsers(c) \/ CommitUsersFails(c)
<1> USE DEF TypeOK, txVars, dbVars, callerVars, rpcVars
<1>1. ASSUME NEW d \in Call,
             \/ Arrive(d) \/ Begin(d) \/ (\E e \in Entry : Find(d, e) \/ FindNone(d, e))
             \/ IsMember(d) \/ InsertUser(d) \/ Link(d)
             \/ CommitMembers(d) \/ CommitMembersFails(d)
      PROVE  authusers' = authusers
  BY <1>1 DEF Arrive, Begin, Find, FindNone, IsMember, InsertUser, Link,
     CommitMembers, CommitMembersFails
<1>2. ASSUME NEW d \in Call, Aborts(d) \/ Listens(d) PROVE authusers' = authusers
  BY <1>2, AbortsStep, ListensStep DEF Abort
<1>3. ASSUME Crash \/ UNCHANGED vars PROVE authusers' = authusers
  BY <1>3 DEF Crash, vars
<1>4. QED
  BY <1>1, <1>2, <1>3 DEF Next, Progress, Failure, Caller, Aborts, Listens

LEMMA MembersStep ==
    ASSUME TypeOK, [Next]_vars
    PROVE  \/ members' = members
           \/ \E c \in Call : CommitMembers(c) \/ CommitMembersFails(c)
<1> USE DEF TypeOK, txVars, dbVars, callerVars, rpcVars
<1>1. ASSUME NEW d \in Call,
             \/ Arrive(d) \/ Begin(d) \/ (\E e \in Entry : Find(d, e) \/ FindNone(d, e))
             \/ IsMember(d) \/ InsertUser(d) \/ Link(d)
             \/ CommitUsers(d) \/ CommitUsersFails(d)
      PROVE  members' = members
  BY <1>1 DEF Arrive, Begin, Find, FindNone, IsMember, InsertUser, Link,
     CommitUsers, CommitUsersFails
<1>2. ASSUME NEW d \in Call, Aborts(d) \/ Listens(d) PROVE members' = members
  BY <1>2, AbortsStep, ListensStep DEF Abort
<1>3. ASSUME Crash \/ UNCHANGED vars PROVE members' = members
  BY <1>3 DEF Crash, vars
<1>4. QED
  BY <1>1, <1>2, <1>3 DEF Next, Progress, Failure, Caller, Aborts, Listens

LEMMA MembersBackedStep == IInv /\ [Next]_vars => MembersBacked'
<1> SUFFICES ASSUME IInv, [Next]_vars, NEW m \in members'
             PROVE  m.row \in authusers' \/ (m.row.by = m.by /\ m.by \in txErr')
  BY DEF MembersBacked
<1>1. CASE m \in members
  BY <1>1, Grow DEF IInv, MembersBacked
<1>2. ASSUME NEW c \in Call, CommitMembers(c) \/ CommitMembersFails(c), m \in Links(c)
      PROVE  m.row \in authusers' \/ (m.row.by = m.by /\ m.by \in txErr')
  <2>1. m.by = c /\ m.row \in newMembers[c]
    BY <1>2 DEF Links
  <2>2. newUsers[c] = {}
    BY <1>2 DEF IInv, Local, CommitMembers, CommitMembersFails
  <2>3. m.row \in authusers \/ (m.row.by = c /\ c \in txErr)
    BY <2>1, <2>2 DEF IInv, Backed
  <2>4. QED
    BY <2>1, <2>3, Grow
<1>3. CASE m \notin members
  <2>1. \E c \in Call :
            (CommitMembers(c) \/ CommitMembersFails(c)) /\ m \in Links(c)
    <3>1. PICK c \in Call : CommitMembers(c) \/ CommitMembersFails(c)
      BY <1>3, MembersStep DEF IInv
    <3>2. members' \subseteq members \cup Links(c)
      BY <3>1 DEF CommitMembers, CommitMembersFails
    <3>3. QED
      BY <1>3, <3>1, <3>2
  <2>2. QED
    BY <1>2, <2>1
<1>4. QED
  BY <1>1, <1>3

\* The promise of an answer: the entry has an account that is linked.
Settled(c, e) == \E r \in authusers : SameKey(r.entry, e) /\ LinkedTo(c, r)

LEMMA SettledStays ==
    ASSUME IInv, [Next]_vars, NEW c \in Call, NEW e, Settled(c, e),
           job'[c] = job[c]
    PROVE  Settled(c, e)'
  BY Grow DEF Settled, SameKey, LinkedTo, Database

\* Only an arrival writes what a call carries, and only the second commit tells
\* of users.
LEMMA JobStep ==
    ASSUME TypeOK, [Next]_vars, NEW c \in Call, ~Arrive(c)
    PROVE  job'[c] = job[c]
<1> USE DEF TypeOK, txVars, dbVars, callerVars, rpcVars
<1>1. ASSUME NEW d \in Call, d # c, Arrive(d) PROVE job'[c] = job[c]
  BY <1>1 DEF Arrive
<1>2. ASSUME NEW d \in Call, Progress(d) \/ Failure(d) PROVE job' = job
  BY <1>2 DEF Progress, Failure, Begin, BeginFails, Find, FindNone, IsMember,
     InsertUser, Link, InsertConflicts, StatementFails, Abort, CommitUsers,
     CommitUsersFails, CommitMembers, CommitMembersFails
<1>3. ASSUME NEW d \in Call, Listens(d) PROVE job' = job
  BY <1>3, ListensStep
<1>4. ASSUME Crash \/ UNCHANGED vars PROVE job' = job
  BY <1>4 DEF Crash, vars
<1>5. QED
  BY <1>1, <1>2, <1>3, <1>4 DEF Next, Caller, Listens

LEMMA AnswerStep ==
    ASSUME TypeOK, [Next]_vars, NEW c \in Call
    PROVE  CommitMembers(c) \/ answer'[c].users \subseteq answer[c].users
<1> DEFINE Fewer == answer'[c].users \subseteq answer[c].users
<1> USE DEF TypeOK, Return, txVars, dbVars, callerVars, rpcVars
<1>1. ASSUME NEW d \in Call,
             \/ Arrive(d) \/ Begin(d) \/ (\E e \in Entry : Find(d, e) \/ FindNone(d, e))
             \/ IsMember(d) \/ InsertUser(d) \/ Link(d)
             \/ CommitUsers(d) \/ CommitUsersFails(d)
      PROVE  answer' = answer
  BY <1>1 DEF Arrive, Begin, Find, FindNone, IsMember, InsertUser, Link,
     CommitUsers, CommitUsersFails
<1>2. ASSUME NEW d \in Call, Aborts(d) PROVE Fewer
  BY <1>2, AbortsStep DEF Abort
<1>3. ASSUME NEW d \in Call, CommitMembersFails(d) PROVE Fewer
  BY <1>3 DEF CommitMembersFails
<1>4. ASSUME NEW d \in Call \ {c}, CommitMembers(d) PROVE Fewer
  BY <1>4 DEF CommitMembers
<1>5. ASSUME NEW d \in Call, Listens(d) PROVE answer' = answer
  BY <1>5, ListensStep
<1>6. ASSUME Crash \/ UNCHANGED vars PROVE Fewer
  BY <1>6 DEF Crash, vars
<1>7. QED
  BY <1>1, <1>2, <1>3, <1>4, <1>5, <1>6
     DEF Next, Progress, Failure, Caller, Aborts, Listens

LEMMA ReportedAreMembersStep == IInv /\ [Next]_vars => ReportedAreMembers'
<1> SUFFICES ASSUME IInv, [Next]_vars PROVE ReportedAreMembers'
  OBVIOUS
<1> SUFFICES ASSUME NEW c \in Call, NEW e \in answer'[c].users
             PROVE  Settled(c, e)'
  <2>1. \A c \in Call : mailed'[c] \subseteq answer'[c].users
    BY LocalStep DEF Local
  <2>2. QED
    BY <2>1 DEF ReportedAreMembers, Settled, SameKey, LinkedTo, Database
<1> USE DEF Goto, Return, txVars, dbVars, callerVars, rpcVars
<1>0. TypeOK
  BY DEF IInv
<1>1. ASSUME e \in answer[c].users PROVE Settled(c, e)
  BY <1>1 DEF IInv, ReportedAreMembers, Settled
<1>2. ASSUME e \in answer[c].users PROVE pc[c] = "done"
  BY <1>2 DEF IInv, Local, NoAnswer
<1>3. CASE e \in answer[c].users
  <2>1. job'[c] = job[c]
    <3>1. ~Arrive(c)
      BY <1>2, <1>3 DEF Arrive
    <3>2. QED
      BY <1>0, <3>1, JobStep
  <2>2. QED
    BY <1>1, <1>3, <2>1, SettledStays
<1>4. CASE e \notin answer[c].users
  <2>1. CommitMembers(c)
    BY <1>0, <1>4, AnswerStep
  <2>2. c \notin txErr /\ e \in job[c].batch /\ pc[c] = "commitMembers"
    BY <1>0, <2>1 DEF CommitMembers, AnswerOf, TypeOK
  <2>3. todo[c] = {} /\ newUsers[c] = {}
    BY <2>2 DEF IInv, Local
  <2>4. Handled(c, e)
    BY <2>2, <2>3 DEF IInv, Batched, Working, AtHand
  <2>5. PICK r \in authusers :
            SameKey(r.entry, e) /\ (LinkedTo(c, r) \/ r \in newMembers[c])
    BY <2>3, <2>4 DEF Handled
  <2>6. job' = job /\ authusers' = authusers /\ members' = members \cup Links(c)
    BY <2>1 DEF CommitMembers
  <2>7. ASSUME r \in newMembers[c] PROVE LinkedTo(c, r)'
    <3> DEFINE m == [database |-> Database(c), row |-> r, by |-> c]
    <3>1. m \in Links(c)
      BY <2>7 DEF Links
    <3>2. QED
      BY <2>6, <3>1 DEF LinkedTo, Database
  <2>8. LinkedTo(c, r) => LinkedTo(c, r)'
    BY <2>6 DEF LinkedTo, Database
  <2>9. QED
    BY <2>5, <2>6, <2>7, <2>8 DEF Settled, SameKey
<1>5. QED
  BY <1>3, <1>4

THEOREM Invariance == Spec => []IInv
<1>1. IInv /\ [Next]_vars => IInv'
  BY TypeStep, KeysHeldUniqueStep, OwnStep, LocalStep, BackedStep, BatchedStep,
     UnseenStep, EndedStep, MembersBackedStep, ReportedAreMembersStep,
     ErrorsLeaveNothingStep DEF IInv
<1>2. QED
  BY InitIInv, <1>1, PTL DEF Spec

-----------------------------------------------------------------------------
(* The theorems. *)

\* Every reachable state of RegisterUsersInCompany and AddUsers is well typed.
THEOREM TypeCorrect == Spec => []TypeOK
<1>1. IInv => TypeOK
  BY DEF IInv
<1>2. QED
  BY Invariance, <1>1, PTL

\* A row of a company's users has its row in authusers, unless the commit that
\* was to bring that one reported an error.
THEOREM MembersAreBacked == Spec => []MembersBacked
<1>1. IInv => MembersBacked
  BY DEF IInv
<1>2. QED
  BY Invariance, <1>1, PTL

\* Whoever AddUsers reports or mails has an account that is linked to the
\* company's database.
THEOREM ReportedAreInBoth == Spec => []ReportedAreMembers
<1>1. IInv => ReportedAreMembers
  BY DEF IInv
<1>2. QED
  BY Invariance, <1>1, PTL

\* A call that returns an error has left no row in either database.
THEOREM ErrorsAreClean == Spec => []ErrorsLeaveNothing
<1>1. IInv => ErrorsLeaveNothing
  BY DEF IInv
<1>2. QED
  BY Invariance, <1>1, PTL

-----------------------------------------------------------------------------
(* The book of staff. *)

\* What a call links is committed or will be with it, unless its first commit
\* has left nothing.
Whole ==
    \A c \in Call : \A r \in newMembers[c] :
        \/ r \in authusers \cup newUsers[c]
        \/ pc[c] = "commitMembers" /\ r.by = c /\ \A q \in authusers : q.by # c

\* What a call links is not linked, and nobody else is linking it.
LinkedOnce ==
    \A c \in Call : \A r \in newMembers[c] :
        /\ ~LinkedTo(c, r)
        /\ \A d \in Call \ {c} : Database(d) = Database(c) => r \notin newMembers[d]

BookInv == IInv /\ Whole /\ LinkedOnce /\ Book!MemberOnce

LEMMA InitBookInv == Init => BookInv
<1> SUFFICES ASSUME Init PROVE BookInv
  OBVIOUS
<1>1. Whole /\ LinkedOnce
  BY DEF Init, Whole, LinkedOnce
<1>2. Book!MemberOnce
  BY DEF Init, Book!MemberOnce
<1>3. QED
  BY <1>1, <1>2, InitIInv DEF BookInv

LEMMA NewMembersStep ==
    ASSUME IInv, [Next]_vars, NEW c \in Call, NEW r \in newMembers'[c]
    PROVE  r \in newMembers[c] \/ (Link(c) /\ r = row[c])
<1> USE DEF IInv, TypeOK, Return, Goto, txVars, dbVars, callerVars, rpcVars
<1>1. ASSUME NEW d \in Call,
             \/ Arrive(d) \/ Begin(d) \/ (\E e \in Entry : Find(d, e) \/ FindNone(d, e))
             \/ IsMember(d) \/ InsertUser(d) \/ CommitUsers(d) \/ CommitUsersFails(d)
      PROVE  newMembers' = newMembers
  BY <1>1 DEF Arrive, Begin, Find, FindNone, IsMember, InsertUser, CommitUsers,
     CommitUsersFails
<1>2. ASSUME NEW d \in Call, Link(d)
      PROVE  r \in newMembers[c] \/ (Link(c) /\ r = row[c])
  BY <1>2 DEF Link
<1>3. ASSUME NEW d \in Call, CommitMembers(d) \/ CommitMembersFails(d)
      PROVE  r \in newMembers[c]
  BY <1>3 DEF CommitMembers, CommitMembersFails
<1>4. ASSUME NEW d \in Call, Aborts(d) PROVE r \in newMembers[c]
  BY <1>4, AbortsStep DEF Abort
<1>5. ASSUME NEW d \in Call, Listens(d) PROVE newMembers' = newMembers
  BY <1>5, ListensStep
<1>6. ASSUME Crash \/ UNCHANGED vars PROVE r \in newMembers[c]
  BY <1>6 DEF Crash, vars
<1>7. QED
  BY <1>1, <1>2, <1>3, <1>4, <1>5, <1>6
     DEF Next, Progress, Failure, Caller, Aborts, Listens

\* A transaction keeps its rows until the call commits or gives up.
LEMMA NewUsersStep ==
    ASSUME IInv, [Next]_vars, NEW c \in Call, newMembers'[c] # {}
    PROVE  /\ \/ newUsers[c] \subseteq newUsers'[c]
              \/ CommitUsers(c) \/ CommitUsersFails(c)
           /\ pc[c] = "commitMembers" => pc'[c] = "commitMembers"
<1> DEFINE Kept == newUsers[c] \subseteq newUsers'[c]
           Stays == pc[c] = "commitMembers" => pc'[c] = "commitMembers"
<1> USE DEF IInv, TypeOK, Return, Goto, txVars, dbVars, callerVars, rpcVars
<1>1. ASSUME NEW d \in Call,
             \/ Arrive(d) \/ Begin(d) \/ (\E e \in Entry : Find(d, e) \/ FindNone(d, e))
             \/ IsMember(d) \/ InsertUser(d) \/ Link(d)
      PROVE  Kept /\ Stays
  BY <1>1 DEF Arrive, Begin, Find, FindNone, IsMember, InsertUser, Link
<1>2. ASSUME NEW d \in Call, CommitUsers(d) \/ CommitUsersFails(d)
      PROVE  (Kept \/ d = c) /\ Stays
  BY <1>2 DEF CommitUsers, CommitUsersFails, EndTx
<1>3. ASSUME NEW d \in Call, CommitMembers(d) \/ CommitMembersFails(d)
      PROVE  Kept /\ Stays
  BY <1>3 DEF CommitMembers, CommitMembersFails
<1>4. ASSUME NEW d \in Call, Aborts(d) PROVE Kept /\ Stays
  BY <1>4, AbortsStep DEF Abort
<1>5. ASSUME NEW d \in Call, Listens(d) PROVE Kept /\ Stays
  BY <1>5, ListensStep
<1>6. ASSUME Crash \/ UNCHANGED vars PROVE Kept /\ Stays
  BY <1>6 DEF Crash, vars
<1>7. QED
  BY <1>1, <1>2, <1>3, <1>4, <1>5, <1>6
     DEF Next, Progress, Failure, Caller, Aborts, Listens

\* What a commit of tx adds is the call's own.
LEMMA OwnUsersCommitted ==
    ASSUME IInv, NEW c \in Call, CommitUsers(c) \/ CommitUsersFails(c)
    PROVE  /\ \E S \in {{}, newUsers[c]} : authusers' = authusers \cup S
           /\ CommitUsers(c) => authusers' = authusers \cup newUsers[c]
           /\ \A r \in newUsers[c] : r.by = c
           /\ \A r \in authusers : r.by # c
           /\ pc[c] = "next" /\ pc'[c] = "commitMembers"
  BY DEF IInv, TypeOK, Own, Unseen, CommitUsers, CommitUsersFails, Goto

LEMMA WholeStep == IInv /\ Whole /\ [Next]_vars => Whole'
<1> SUFFICES ASSUME IInv, Whole, [Next]_vars,
                    NEW c \in Call, NEW r \in newMembers'[c]
             PROVE  \/ r \in authusers' \cup newUsers'[c]
                    \/ /\ pc'[c] = "commitMembers" /\ r.by = c
                       /\ \A q \in authusers' : q.by # c
  BY DEF Whole
<1>1. authusers \subseteq authusers'
  BY Grow
<1>2. CASE Link(c) /\ r = row[c]
  BY <1>2 DEF IInv, Backed, Link, dbVars
<1>3. CASE r \in newMembers[c] /\ (CommitUsers(c) \/ CommitUsersFails(c))
  <2>1. r \in authusers \cup newUsers[c]
    BY <1>3, OwnUsersCommitted DEF Whole
  <2>2. QED
    BY <1>3, <2>1, OwnUsersCommitted
<1>4. CASE r \in newMembers[c] /\ ~(CommitUsers(c) \/ CommitUsersFails(c))
  <2>1. /\ newUsers[c] \subseteq newUsers'[c]
        /\ pc[c] = "commitMembers" => pc'[c] = "commitMembers"
    BY <1>4, NewUsersStep
  <2>2. ASSUME \A q \in authusers : q.by # c PROVE \A q \in authusers' : q.by # c
    <3>1. ASSUME NEW d \in Call \ {c}, CommitUsers(d) \/ CommitUsersFails(d)
          PROVE  \A q \in authusers' : q.by # c
      BY <2>2, <3>1, OwnUsersCommitted
    <3>2. QED
      BY <1>4, <2>2, <3>1, UsersStep DEF IInv
  <2>3. QED
    BY <1>1, <1>4, <2>1, <2>2 DEF Whole
<1>5. QED
  BY <1>2, <1>3, <1>4, NewMembersStep

LEMMA DatabaseStep ==
    ASSUME IInv, [Next]_vars, NEW c \in Call, newMembers'[c] # {}
    PROVE  Database(c)' = Database(c)
<1>1. ~Arrive(c)
  <2>1. ASSUME Arrive(c) PROVE newMembers'[c] = {}
    BY <2>1 DEF IInv, Ended, Running, Arrive, txVars
  <2>2. QED
    BY <2>1
<1>2. QED
  BY <1>1, JobStep DEF IInv, Database

\* What is linked anew was linked by one call, that has finished.
LEMMA LinkedStep ==
    ASSUME TypeOK, [Next]_vars, NEW m \in members' \ members
    PROVE  \E c \in Call : /\ CommitMembers(c) \/ CommitMembersFails(c)
                           /\ m \in Links(c) /\ members' \subseteq members \cup Links(c)
                           /\ newMembers'[c] = {}
  BY MembersStep DEF CommitMembers, CommitMembersFails, TypeOK

LEMMA LinkedOnceStep == IInv /\ LinkedOnce /\ [Next]_vars => LinkedOnce'
<1> SUFFICES ASSUME IInv, LinkedOnce, [Next]_vars,
                    NEW c \in Call, NEW r \in newMembers'[c]
             PROVE  /\ ~LinkedTo(c, r)'
                    /\ \A d \in Call \ {c} :
                           Database(d)' = Database(c)' => r \notin newMembers'[d]
  BY DEF LinkedOnce
<1>1. Database(c)' = Database(c)
  BY DatabaseStep
<1>2. ~LinkedTo(c, r) /\ (Link(c) => r = row[c] \/ r \in newMembers[c])
  <2>1. Link(c) /\ r = row[c] => ~LinkedTo(c, r)
    BY DEF Link
  <2>2. QED
    BY <2>1, NewMembersStep DEF LinkedOnce
<1>3. ASSUME NEW d \in Call \ {c}, Database(d)' = Database(c)', r \in newMembers'[d]
      PROVE  FALSE
  <2>1. Database(d) = Database(c)
    BY <1>1, <1>3, DatabaseStep
  <2>2. ASSUME Link(c) PROVE r \in newMembers[d]
    BY <1>3, <2>2 DEF Link, IInv, TypeOK
  <2>3. ASSUME Link(d) PROVE r \in newMembers[c]
    BY <1>3, <2>3 DEF Link, IInv, TypeOK
  <2>4. CASE r \in newMembers[c] /\ r \in newMembers[d]
    BY <2>1, <2>4 DEF LinkedOnce
  <2>5. CASE Link(c) /\ r = row[c]
    BY <2>1, <2>2, <2>5 DEF Link, WaitsMember
  <2>6. CASE Link(d) /\ r = row[d]
    BY <2>1, <2>3, <2>6 DEF Link, WaitsMember
  <2>7. QED
    BY <1>3, <2>4, <2>5, <2>6, NewMembersStep
<1>4. ASSUME LinkedTo(c, r)' PROVE FALSE
  <2>1. PICK m \in members' : m.database = Database(c) /\ m.row = r
    BY <1>1, <1>4 DEF LinkedTo
  <2>2. m \notin members
    BY <1>2, <2>1 DEF LinkedTo
  <2>3. PICK d \in Call : /\ CommitMembers(d) \/ CommitMembersFails(d)
                          /\ m \in Links(d) /\ newMembers'[d] = {}
    BY <2>2, LinkedStep DEF IInv
  <2>4. d # c /\ r \in newMembers[d] /\ Database(d) = Database(c)
    BY <2>1, <2>3 DEF Links
  <2>5. r \in newMembers[c]
    BY <2>1, <2>2, NewMembersStep DEF Link, dbVars
  <2>6. QED
    BY <2>4, <2>5 DEF LinkedOnce
<1>5. QED
  BY <1>3, <1>4

LEMMA MemberOnceStep ==
    IInv /\ LinkedOnce /\ Book!MemberOnce /\ [Next]_vars => Book!MemberOnce'
<1> SUFFICES ASSUME IInv, LinkedOnce, Book!MemberOnce, [Next]_vars,
                    NEW m \in members', NEW n \in members',
                    m.database = n.database, m.row = n.row
             PROVE  m = n
  BY DEF Book!MemberOnce
<1>1. CASE m \in members /\ n \in members
  BY <1>1 DEF Book!MemberOnce
<1>2. ASSUME NEW p \in members' \ members, NEW q \in members',
             p.database = q.database, p.row = q.row
      PROVE  p = q
  <2>1. PICK c \in Call : p \in Links(c) /\ members' \subseteq members \cup Links(c)
    BY LinkedStep DEF IInv
  <2>2. ~LinkedTo(c, p.row)
    BY <2>1 DEF Links, LinkedOnce
  <2>3. q \in Links(c)
    BY <1>2, <2>1, <2>2 DEF Links, LinkedTo
  <2>4. QED
    BY <1>2, <2>1, <2>3 DEF Links
<1>3. QED
  BY <1>1, <1>2

THEOREM BookInvariance == Spec => []BookInv
<1>1. BookInv /\ IInv' /\ [Next]_vars => BookInv'
  BY WholeStep, LinkedOnceStep, MemberOnceStep DEF BookInv
<1>2. QED
  BY InitBookInv, Invariance, <1>1, PTL DEF Spec

\* A call that enters its users, or whose commit leaves none.
LEMMA EnterStep ==
    ASSUME BookInv, BookInv', NEW c \in Call, CommitUsers(c) \/ CommitUsersFails(c)
    PROVE  Book!Enter(c)
<1>1. answer[c] = NoAnswer /\ \A m \in members : m.by # c
  BY OwnUsersCommitted DEF BookInv, IInv, Local, Unseen
<1>2. Book!Unconfirmed(c)
  BY <1>1 DEF Book!Unconfirmed, Reported, NoAnswer
<1>3. authusers' \ authusers \subseteq {r \in Book!Row : r.by = c}
  <2>1. authusers' \subseteq Row
    BY DEF BookInv, IInv, TypeOK
  <2>2. QED
    BY <2>1, OwnUsersCommitted DEF BookInv, IInv, Row, Book!Row
<1>4. Book!NobodyTwice(authusers')
  BY DEF BookInv, IInv, KeysHeldUnique, Held, Clash, SameKey, Book!NobodyTwice,
     Book!SameKey
<1>5. UNCHANGED <<members, Reported>>
  BY DEF CommitUsers, CommitUsersFails, Reported
<1>6. \A r \in authusers : r.by # c
  BY OwnUsersCommitted DEF BookInv
<1>7. authusers \subseteq authusers'
  BY OwnUsersCommitted DEF BookInv
<1>8. QED
  BY <1>2, <1>3, <1>4, <1>5, <1>6, <1>7 DEF Book!Enter

\* A call that makes members, or whose commit leaves none.
LEMMA ConfirmStep ==
    ASSUME BookInv, BookInv', [Next]_vars,
           NEW c \in Call, CommitMembers(c) \/ CommitMembersFails(c)
    PROVE  Book!Confirm(c, Database(c)) /\ Database(c) \in Company
<1>1. /\ pc[c] = "commitMembers" /\ job[c] \in Job /\ job' = job
      /\ newUsers[c] = {} /\ answer[c] = NoAnswer /\ authusers' = authusers
      /\ \A m \in members : m.by # c
  BY DEF CommitMembers, CommitMembersFails, BookInv, IInv, Local, Unseen
<1>2. Book!Unconfirmed(c)
  BY <1>1 DEF Book!Unconfirmed, Reported, NoAnswer
<1>3. Database(c) \in Company
  BY <1>1, JobAssumption DEF Database
<1>4. members \subseteq members' /\ members' \subseteq members \cup Links(c)
  BY DEF CommitMembers, CommitMembersFails
<1>5. ASSUME NEW m \in members' \ members
      PROVE  /\ m.by = c /\ m.database = Database(c)
             /\ Book!Known(c, m.row) /\ ~Book!Linked(Database(c), m.row)
  <2>1. m.by = c /\ m.database = Database(c) /\ m.row \in newMembers[c]
    BY <1>4 DEF Links
  <2>2. Book!Known(c, m.row)
    BY <1>1, <2>1 DEF BookInv, Whole, Book!Known
  <2>3. ~Book!Linked(Database(c), m.row)
    BY <2>1 DEF BookInv, LinkedOnce, LinkedTo, Book!Linked
  <2>4. QED
    BY <2>1, <2>2, <2>3
<1> DEFINE S == answer'[c].users
<1>6. S \subseteq Entry
  BY DEF BookInv, IInv, TypeOK
<1>7. Reported' = [Reported EXCEPT ![c] = S]
  BY DEF CommitMembers, CommitMembersFails, Return, Reported, BookInv, IInv, TypeOK
<1>8. ASSUME NEW e \in S
      PROVE  \E r \in authusers : Book!SameKey(r.entry, e)
                                  /\ Book!Linked(Database(c), r)'
  BY <1>1 DEF BookInv, IInv, ReportedAreMembers, SameKey, LinkedTo, Database,
     Book!SameKey, Book!Linked
<1>9. QED
  BY <1>1, <1>2, <1>3, <1>4, <1>5, <1>6, <1>7, <1>8 DEF Book!Confirm

\* Waits, aborts, crashes and mails are not seen in the book.
LEMMA BookStutters ==
    ASSUME BookInv, [Next]_vars,
           ~\E c \in Call : \/ CommitUsers(c) \/ CommitUsersFails(c)
                            \/ CommitMembers(c) \/ CommitMembersFails(c)
    PROVE  UNCHANGED Book!vars
<1>1. UNCHANGED <<authusers, members>>
  BY UsersStep, MembersStep DEF BookInv, IInv
<1>2. Reported' = Reported
  <2> USE DEF BookInv, IInv, TypeOK, Return, txVars, dbVars, callerVars, rpcVars
  <2>1. ASSUME NEW d \in Call,
               \/ Arrive(d) \/ Begin(d)
               \/ (\E e \in Entry : Find(d, e) \/ FindNone(d, e))
               \/ IsMember(d) \/ InsertUser(d) \/ Link(d)
        PROVE  answer' = answer
    BY <2>1 DEF Arrive, Begin, Find, FindNone, IsMember, InsertUser, Link
  <2>2. ASSUME NEW d \in Call, Listens(d) PROVE answer' = answer
    BY <2>2, ListensStep
  <2>3. ASSUME NEW c \in Call PROVE answer'[c].users = answer[c].users
    <3>0. \A d \in Call : pc[d] # "done" => answer[d].users = {}
      BY DEF Local, NoAnswer
    <3>1. ASSUME NEW d \in Call, Aborts(d) PROVE answer'[c].users = answer[c].users
      <4>1. Return(d, "error", {}) /\ answer[d].users = {}
        BY <3>1, <3>0, AbortsStep DEF Abort
      <4>2. QED
        BY <4>1
    <3>2. CASE Crash
      <4>1. answer'[c].users = IF Running(c) THEN {} ELSE answer[c].users
        BY <3>2 DEF Crash
      <4>2. QED
        BY <3>0, <4>1 DEF Running
    <3>3. CASE UNCHANGED vars
      BY <3>3 DEF vars
    <3>4. QED
      BY <2>1, <2>2, <3>1, <3>2, <3>3
         DEF Next, Progress, Failure, Caller, Aborts, Listens
  <2>4. QED
    BY <2>3 DEF Reported
<1>3. QED
  BY <1>1, <1>2 DEF Book!vars

LEMMA InitBook == Init => Book!Init
<1> SUFFICES ASSUME Init PROVE Book!Init
  OBVIOUS
<1>1. authusers \subseteq {r \in Book!Row : r.by = None}
  BY FounderAssumption DEF Init, Row, Book!Row
<1>2. Book!NobodyTwice(authusers)
  BY FounderAssumption DEF Init, Clash, SameKey, Book!NobodyTwice, Book!SameKey
<1>3. members \subseteq {m \in Book!Member :
                             /\ m.by = None /\ m.row \in authusers
                             /\ m.database = m.row.company}
  BY <1>1 DEF Init, Book!Row, Book!Member
<1>4. Reported = [c \in Call |-> {}]
  BY DEF Init, NoAnswer, Reported
<1>5. QED
  BY <1>1, <1>2, <1>3, <1>4 DEF Book!Init

\* RegisterUsersInCompany keeps the book of staff: whatever batches run together,
\* wait, fail or are cut off, each of its steps enters a call's users, confirms its
\* members or is not seen.
THEOREM TeamImplementsBook == Spec => ImplementsBook
<1>1. ASSUME BookInv, BookInv', [Next]_vars PROVE [Book!Next]_(Book!vars)
  <2>1. ASSUME NEW c \in Call, CommitUsers(c) \/ CommitUsersFails(c)
        PROVE  Book!Next
    BY <1>1, <2>1, EnterStep DEF Book!Next
  <2>2. ASSUME NEW c \in Call, CommitMembers(c) \/ CommitMembersFails(c)
        PROVE  Book!Next
    BY <1>1, <2>2, ConfirmStep DEF Book!Next
  <2>3. QED
    BY <1>1, <2>1, <2>2, BookStutters
<1>2. QED
  BY InitBook, BookInvariance, <1>1, PTL DEF Spec, ImplementsBook, Book!Spec

\* However many batches hold the same people, in whatever orders, no two rows of
\* authusers share an e-mail or a phone, and no database holds a row of users for
\* the same person twice.
THEOREM UsersAreUnique == Spec => [](Book!UniqueUsers /\ Book!MemberOnce)
<1>1. BookInv => Book!UniqueUsers /\ Book!MemberOnce
  BY DEF BookInv, IInv, KeysHeldUnique, Held, Clash, SameKey, Book!UniqueUsers,
     Book!NobodyTwice, Book!SameKey
<1>2. QED
  BY BookInvariance, <1>1, PTL

-----------------------------------------------------------------------------
(* What AnsweredUnlessCrossed rests on: who can wait for whom, and that the rest *)
(* goes on.                                                                  *)

\* A call that waits is one whose INSERT finds a key of an open transaction: the
\* others find the guard of one of their steps true.
Waits(c) == \E d \in Call : WaitsAny(c, d)

Standstill ==
    /\ \E c \in Call : Running(c)
    /\ \A c \in Call : Running(c) => Waits(c)

\* An open transaction is that of a running call.
LEMMA WaitsForRunning ==
    ASSUME IInv, NEW c \in Call, NEW d \in Call, WaitsAny(c, d)
    PROVE  Running(d)
<1>1. newUsers[d] # {} \/ newMembers[d] # {}
  BY DEF WaitsAny, WaitsUser, WaitsMember
<1>2. QED
  BY <1>1 DEF IInv, Ended, Running

\* When nobody who runs can go on, either PostgreSQL sees a deadlock and fails a
\* statement of it, or calls wait for each other across the databases: there is
\* no third way for AddUsers to hang.
THEOREM OnlyCrossedStandStill ==
    Spec => [](Standstill => Crossed \/ \E c \in Call : Doomed(c))
<1>1. ASSUME IInv, Standstill PROVE Crossed \/ \E c \in Call : Doomed(c)
  <2> DEFINE S == {c \in Call : Running(c)}
  <2>1. Knot(WaitsAny, S)
    BY <1>1, WaitsForRunning DEF Knot, Standstill, Waits
  <2>2. CASE \A T \in SUBSET S : ~KnotInOne(T)
    BY <2>1, <2>2 DEF Crossed
  <2>3. ASSUME NEW T \in SUBSET S, KnotInOne(T) PROVE \E c \in Call : Doomed(c)
    <3>1. PICK c \in T : TRUE
      BY <2>3 DEF KnotInOne, Knot
    <3>2. T \in SUBSET Call /\ c \in Call
      BY <3>1
    <3>3. QED
      BY <2>3, <3>1, <3>2 DEF Doomed
  <2>4. QED
    BY <2>2, <2>3
<1>2. QED
  BY Invariance, <1>1, PTL

\* The calls c and d are linking the same person to the same company at once.
SharedMember(c, d) ==
    /\ WaitsMember(c, d)
    /\ row[c] \in authusers /\ row[c].by \notin {c, d}

\* Calls cross only over somebody who has had an account, by a third call or from
\* before, and whom two of them are adding to one company: batches of new people,
\* or of different companies, never hang.
THEOREM OnlySharedMembersCross ==
    Spec => [](Crossed => /\ \E c, d \in Call : SharedMember(c, d)
                          /\ \E c, d \in Call : WaitsUser(c, d))
<1>1. ASSUME IInv, NEW c \in Call, NEW d \in Call, WaitsMember(c, d), Waits(d)
      PROVE  SharedMember(c, d)
  <2>1. /\ pc[c] = "link" /\ d # c /\ row[c] \in newMembers[d]
        /\ pc[d] \in {"insertUser", "link"}
    BY <1>1 DEF WaitsMember, Waits, WaitsAny, WaitsUser
  <2>2. row[c] \in newUsers[c] => row[c].by = c
    BY <1>1 DEF IInv, Own
  <2>3. row[c] \notin authusers => row[c].by = d
    BY <1>1, <2>1 DEF IInv, Own, Backed
  <2>4. row[c] \in authusers
    BY <1>1, <2>1, <2>2, <2>3 DEF IInv, Backed
  <2>5. row[c].by \notin {c, d}
    BY <1>1, <2>1, <2>4 DEF IInv, Unseen
  <2>6. QED
    BY <1>1, <2>4, <2>5 DEF SharedMember
<1>2. ASSUME IInv, Crossed
      PROVE  /\ \E c, d \in Call : SharedMember(c, d)
             /\ \E c, d \in Call : WaitsUser(c, d)
  <2>1. PICK S \in SUBSET Call :
             Knot(WaitsAny, S) /\ \A T \in SUBSET S : ~KnotInOne(T)
    BY <1>2 DEF Crossed
  <2>2. ~Knot(WaitsUser, S) /\ ~Knot(WaitsMember, S)
    BY <2>1 DEF KnotInOne
  <2>3. PICK c \in S : \A d \in S : ~WaitsUser(c, d)
    BY <2>1, <2>2 DEF Knot
  <2>4. PICK d \in S : WaitsMember(c, d)
    BY <2>1, <2>3 DEF Knot, WaitsAny
  <2>5. Waits(d)
    BY <2>1 DEF Knot, Waits
  <2>6. PICK e \in S : \A f \in S : ~WaitsMember(e, f)
    BY <2>1, <2>2 DEF Knot
  <2>7. PICK f \in S : WaitsUser(e, f)
    BY <2>1, <2>6 DEF Knot, WaitsAny
  <2>8. QED
    BY <1>1, <1>2, <2>4, <2>5, <2>7
<1>3. QED
  BY Invariance, <1>2, PTL

\* For the entry at hand, the stages follow each other towards the next entry.
Rank(stage) ==
    CASE stage = "begin" -> 1
      [] stage \in {"member", "insertUser"} -> 2
      [] stage = "link" -> 3
      [] stage = "next" -> 4
      [] stage = "commitMembers" -> 5
      [] stage = "done" -> 6

\* A call has begun with another entry, or come further with the one at hand.
Further(c) ==
    \/ todo'[c] \subseteq todo[c] /\ todo'[c] # todo[c]
    \/ todo'[c] = todo[c] /\ Rank(pc[c]) < Rank(pc'[c])

BatchesAdvance ==
    \A c \in Call : pc[c] # "idle" =>
        /\ (pc'[c] = pc[c] /\ todo'[c] = todo[c]) \/ Further(c)
        /\ Progress(c) \/ Failure(c) => Further(c)

LEMMA WorkGoesFurther ==
    ASSUME TypeOK, NEW c \in Call, Progress(c) \/ Failure(c)
    PROVE  Further(c)
<1>1. ASSUME NEW e \in Entry, Find(c, e) \/ FindNone(c, e) PROVE Further(c)
  BY <1>1 DEF Find, FindNone, Further, TypeOK
<1>2. ASSUME NEW stage, Goto(c, stage), Rank(pc[c]) < Rank(stage), UNCHANGED todo
      PROVE  Further(c)
  BY <1>2 DEF Goto, Further, TypeOK
<1>3. ASSUME NEW code, NEW users, Return(c, code, users), UNCHANGED todo,
             pc[c] \in Stages \ {"idle", "done"}
      PROVE  Further(c)
  BY <1>2, <1>3 DEF Return, Rank, Stages
<1>4. CASE \/ Begin(c) \/ IsMember(c) \/ InsertUser(c) \/ Link(c)
           \/ CommitUsers(c) \/ CommitUsersFails(c)
  BY <1>2, <1>4 DEF Begin, IsMember, InsertUser, Link, CommitUsers,
     CommitUsersFails, Rank
<1>5. CASE CommitMembers(c) \/ CommitMembersFails(c)
  BY <1>3, <1>5 DEF CommitMembers, CommitMembersFails, Stages
<1>6. CASE Aborts(c)
  BY <1>3, <1>6, AbortsStep DEF Abort, Stages
<1>7. QED
  BY <1>1, <1>4, <1>5, <1>6 DEF Progress, Failure, Aborts

\* The other steps move no call but one that arrives, or, in a crash, to its end.
LEMMA OthersStay ==
    ASSUME TypeOK, NEW c \in Call, NEW d \in Call, c # d,
           Progress(d) \/ Failure(d) \/ Caller(d)
    PROVE  pc'[c] = pc[c] /\ todo'[c] = todo[c]
<1>1. CASE Aborts(d)
  BY <1>1, AbortsStep DEF Abort, Return, Goto, TypeOK
<1>2. CASE Listens(d)
  BY <1>2, ListensStep DEF rpcVars
<1>3. CASE Arrive(d) \/ \E e \in Entry : Find(d, e) \/ FindNone(d, e)
  BY <1>3 DEF Arrive, Find, FindNone, Goto, TypeOK
<1>4. CASE \/ Begin(d) \/ IsMember(d) \/ InsertUser(d) \/ Link(d)
           \/ CommitUsers(d) \/ CommitUsersFails(d)
           \/ CommitMembers(d) \/ CommitMembersFails(d)
  BY <1>4 DEF Begin, IsMember, InsertUser, Link, CommitUsers, CommitUsersFails,
     CommitMembers, CommitMembersFails, Return, Goto, TypeOK
<1>5. QED
  BY <1>1, <1>2, <1>3, <1>4 DEF Progress, Failure, Caller, Aborts, Listens

\* No call turns in a circle: each of its steps takes an entry off its batch or
\* brings the one at hand further.
THEOREM BatchesGoForward == Spec => [][BatchesAdvance]_vars
<1>1. ASSUME TypeOK, [Next]_vars PROVE BatchesAdvance
  <2> SUFFICES ASSUME NEW c \in Call, pc[c] # "idle"
               PROVE  /\ (pc'[c] = pc[c] /\ todo'[c] = todo[c]) \/ Further(c)
                      /\ Progress(c) \/ Failure(c) => Further(c)
    BY DEF BatchesAdvance
  <2>1. Progress(c) \/ Failure(c) => Further(c)
    BY <1>1, WorkGoesFurther
  <2>2. CASE UNCHANGED vars
    BY <2>1, <2>2 DEF vars
  <2>3. CASE Crash
    <3>1. Running(c) => Rank(pc[c]) < Rank("done")
      BY <1>1 DEF TypeOK, Running, Rank, Stages
    <3>2. QED
      BY <1>1, <2>1, <2>3, <3>1 DEF Crash, Further, Running, TypeOK
  <2>4. CASE Caller(c)
    <3>1. ~Arrive(c)
      BY DEF Arrive
    <3>2. QED
      BY <2>1, <2>4, <3>1, ListensStep DEF Caller, Listens, rpcVars
  <2>5. ASSUME NEW d \in Call, c # d, Progress(d) \/ Failure(d) \/ Caller(d)
        PROVE  pc'[c] = pc[c] /\ todo'[c] = todo[c]
    BY <1>1, <2>5, OthersStay
  <2>6. QED
    BY <1>1, <2>1, <2>2, <2>3, <2>4, <2>5 DEF Next
<1>2. QED
  BY TypeCorrect, <1>1, PTL DEF Spec
=============================================================================
