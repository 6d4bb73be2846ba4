-------------------------- MODULE Migrations_proofs --------------------------
(* Proofs about migrations, for any databases, files and references, and any *)
(* number of attempts and faults.                                            *)
EXTENDS Migrations, FiniteSetTheorems, TLAPS

-----------------------------------------------------------------------------
(* The inductive invariant. *)

\* What a job has found out about its database, or done to it.
Marked(d) ==
    /\ job[d] = "force" => dirty[d] /\ version[d] # NilVersion
    /\ job[d] \in {"drop", "dropped"} => dirty[d] /\ 1 .. version[d] \subseteq exists[d]
    /\ job[d] \in {"create", "created"} => dirty[d] /\ version[d] \in File(d)
    /\ job[d] = "created" => 1 .. version[d] \subseteq exists[d]

\* The authorization database while main() waits for it, and afterwards.
AuthDone ==
    /\ phase # "down" => AuthDb \in made
    /\ phase = "auth" => job[AuthDb] \notin {"count", "store"}
    /\ phase \in {"companies", "serving"} => job[AuthDb] = "done"
    /\ phase # "down" /\ job[AuthDb] = "done" => Migrated(AuthDb)

IInv == TypeOK /\ RowsAreTrue /\ (\A d \in Database : Marked(d)) /\ AuthDone

-----------------------------------------------------------------------------
LEMMA InitIInv == Init => IInv
<1> SUFFICES ASSUME Init PROVE IInv
  OBVIOUS
<1>1. PICK v \in [Database -> {Absent, NilVersion} \cup UNION {File(d) : d \in Database}] :
          /\ \A d \in Database : v[d] \in Begin[d]
          /\ made = {d \in Database : v[d] # Absent}
          /\ version = [d \in Database |-> IF v[d] = Absent THEN NilVersion ELSE v[d]]
          /\ dirty = [d \in Database |-> FALSE]
          /\ exists = [d \in Database |-> {f \in File(d) : f <= v[d]}]
          /\ rows = exists
          /\ lost = [d \in Database |-> {}]
          /\ job = [d \in Database |-> "idle"]
          /\ hits = [d \in Database |-> 0] /\ loaded = [d \in Database |-> 0]
          /\ phase = "down" /\ attempt = 1 /\ counter = 0 /\ faults = 0
  BY DEF Init
<1>2. \A d \in Database :
          /\ Last[d] \in Nat \ {0}
          /\ v[d] \in {Absent, NilVersion} \/ v[d] \in 1 .. Last[d]
  BY <1>1, MigrationsAssumption DEF File
<1>3. \A d \in Database : version[d] \in NilVersion .. Last[d] /\ version[d] \in Int
  BY <1>1, <1>2 DEF NilVersion, Absent
<1>4. \A d \in Database : exists[d] \in SUBSET Nat /\ exists[d] \subseteq File(d)
  BY <1>1, <1>2 DEF File
<1>5. TypeOK
  <2>1. version \in [Database -> Int] /\ exists \in [Database -> SUBSET Nat]
    BY <1>1, <1>3, <1>4
  <2>2. attempt \in 1 .. Attempts /\ faults \in 0 .. MaxFaults
    BY <1>1, MigrationsAssumption
  <2> QED
    BY <1>1, <1>3, <1>4, <2>1, <2>2 DEF TypeOK, Phase, Stage
<1>6. RowsAreTrue
  <2> SUFFICES ASSUME NEW d \in Database PROVE 1 .. version[d] \subseteq exists[d]
    BY <1>1 DEF RowsAreTrue, RowIsTrue
  <2>1. CASE v[d] \in {Absent, NilVersion}
    BY <1>1, <2>1 DEF NilVersion, Absent
  <2>2. CASE v[d] \in 1 .. Last[d]
    BY <1>1, <1>2, <2>2 DEF File, Absent
  <2> QED
    BY <1>2, <2>1, <2>2
<1>7. AuthDone /\ \A d \in Database : Marked(d)
  BY <1>1, MigrationsAssumption DEF AuthDone, Marked
<1> QED
  BY <1>5, <1>6, <1>7 DEF IInv

-----------------------------------------------------------------------------
(* The steps of a job.  A step of a job in d changes nothing in another       *)
(* database; Local is what has to be shown of d itself.                       *)

Local(d) ==
    /\ version[d] \in NilVersion .. Last[d] /\ dirty[d] \in BOOLEAN
    /\ exists[d] \subseteq File(d) /\ rows[d] \subseteq exists[d] /\ lost[d] \subseteq Nat
    /\ job[d] \in Stage
    /\ RowIsTrue(d) /\ Marked(d)

Frame(d) ==
    /\ version' = [version EXCEPT ![d] = version'[d]]
    /\ dirty' = [dirty EXCEPT ![d] = dirty'[d]]
    /\ exists' = [exists EXCEPT ![d] = exists'[d]]
    /\ rows' = [rows EXCEPT ![d] = rows'[d]]
    /\ lost' = [lost EXCEPT ![d] = lost'[d]]
    /\ job' = [job EXCEPT ![d] = job'[d]]

LEMMA LocalFacts ==
    ASSUME IInv, NEW d \in Database
    PROVE  Local(d) /\ version[d] \in Int /\ Last[d] \in Nat \ {0}
  BY MigrationsAssumption DEF IInv, TypeOK, RowsAreTrue, Local

LEMMA QuietStep ==
    ASSUME IInv, NEW d \in Database, UNCHANGED schema,
           NEW s \in Stage, Goto(d, s),
           s = "force" => dirty[d] /\ version[d] # NilVersion,
           s \notin {"drop", "dropped", "create", "created"}
    PROVE  Frame(d) /\ Local(d)'
<1>1. job' = [job EXCEPT ![d] = s] /\ job'[d] = s
  BY DEF Goto, IInv, TypeOK
<1>2. Frame(d)
  BY <1>1 DEF Frame, schema, IInv, TypeOK
<1>3. Local(d)'
  BY <1>1, LocalFacts DEF Local, RowIsTrue, Marked, schema
<1> QED
  BY <1>2, <1>3

LEMMA RowStep ==
    ASSUME IInv, NEW d \in Database,
           ForceBelow(d) \/ DownMark(d) \/ DownClean(d) \/ UpMark(d) \/ UpClean(d)
    PROVE  Frame(d) /\ Local(d)'
<1> DEFINE v == version[d]
<1>1. /\ version[d] \in Int /\ Last[d] \in Nat \ {0} /\ version[d] \in -1 .. Last[d]
      /\ exists[d] \subseteq File(d) /\ rows[d] \subseteq exists[d] /\ lost[d] \subseteq Nat
      /\ RowIsTrue(d) /\ Marked(d) /\ dirty[d] \in BOOLEAN
  BY LocalFacts DEF Local, NilVersion
<1>2. UNCHANGED <<exists, rows, lost>>
  BY DEF ForceBelow, DownMark, DownClean, UpMark, UpClean
<1>3. PICK w, b, s : SetVersion(d, w, b) /\ Goto(d, s)
  BY DEF ForceBelow, DownMark, DownClean, UpMark, UpClean
<1>4. version'[d] = w /\ dirty'[d] = b /\ job'[d] = s
  BY <1>3 DEF SetVersion, Goto, IInv, TypeOK
<1>5. Frame(d)
  BY <1>2, <1>3, <1>4 DEF Frame, SetVersion, Goto, IInv, TypeOK
<1>6. Local(d)'
  <2>1. CASE ForceBelow(d)
    <3>1. /\ dirty[d] /\ version[d] # -1
          /\ version'[d] = version[d] - 1 /\ dirty'[d] = FALSE /\ job'[d] = "down"
      BY <1>1, <2>1 DEF ForceBelow, Marked, NilVersion, SetVersion, Goto, IInv, TypeOK
    <3>2. version'[d] \in -1 .. Last[d]
      BY <1>1, <3>1
    <3>3. 1 .. (version[d] - 1) \subseteq exists[d]
      BY <1>1, <3>1 DEF RowIsTrue
    <3>4. RowIsTrue(d)' /\ Marked(d)'
      BY <1>2, <3>1, <3>3 DEF RowIsTrue, Marked
    <3> QED
      BY <1>1, <1>2, <3>1, <3>2, <3>4 DEF Local, NilVersion, Stage
  <2>2. CASE DownMark(d)
    <3>1. /\ version[d] \in 1 .. Last[d]
          /\ version'[d] = Prev(version[d]) /\ dirty'[d] = TRUE /\ job'[d] = "drop"
      BY <2>2 DEF DownMark, File, SetVersion, Goto, IInv, TypeOK
    <3>2. version'[d] \in -1 .. Last[d] /\ version'[d] <= version[d] - 1 /\ version'[d] \in Int
      BY <1>1, <3>1 DEF Prev, NilVersion
    <3>3. 1 .. (version[d] - 1) \subseteq exists[d]
      BY <1>1, <3>1 DEF RowIsTrue
    <3>4. 1 .. version'[d] \subseteq exists[d]
      BY <1>1, <3>2, <3>3
    <3>5. 1 .. (version'[d] - 1) \subseteq 1 .. version'[d]
      BY <3>2
    <3>6. RowIsTrue(d)' /\ Marked(d)'
      BY <1>2, <3>1, <3>4, <3>5 DEF RowIsTrue, Marked
    <3> QED
      BY <1>1, <1>2, <3>1, <3>2, <3>6 DEF Local, NilVersion, Stage
  <2>3. CASE DownClean(d)
    <3>1. /\ 1 .. version[d] \subseteq exists[d]
          /\ version'[d] = version[d] /\ dirty'[d] = FALSE /\ job'[d] = "up"
      BY <1>1, <2>3 DEF DownClean, Marked, SetVersion, Goto, IInv, TypeOK
    <3> QED
      BY <1>1, <1>2, <3>1 DEF Local, RowIsTrue, Marked, NilVersion, Stage
  <2>4. CASE UpMark(d)
    <3>1. /\ ~ dirty[d] /\ version[d] # 0 /\ version[d] # Last[d]
          /\ version'[d] = Succ(version[d]) /\ dirty'[d] = TRUE /\ job'[d] = "create"
      BY <2>4 DEF UpMark, SetVersion, Goto, IInv, TypeOK
    <3>2. /\ version'[d] \in 1 .. Last[d]
          /\ version'[d] - 1 = version[d] \/ version'[d] = 1
      BY <1>1, <3>1 DEF Succ, NilVersion
    <3>3. 1 .. (version'[d] - 1) \subseteq exists[d]
      BY <1>1, <3>1, <3>2 DEF RowIsTrue
    <3>4. RowIsTrue(d)' /\ Marked(d)'
      BY <1>2, <3>1, <3>2, <3>3 DEF RowIsTrue, Marked, File
    <3>5. version'[d] \in -1 .. Last[d]
      BY <1>1, <3>2
    <3> QED
      BY <1>1, <1>2, <3>1, <3>4, <3>5 DEF Local, NilVersion, Stage
  <2>5. CASE UpClean(d)
    <3>1. /\ 1 .. version[d] \subseteq exists[d]
          /\ version'[d] = version[d] /\ dirty'[d] = FALSE /\ job'[d] = "up"
      BY <1>1, <2>5 DEF UpClean, Marked, SetVersion, Goto, IInv, TypeOK
    <3> QED
      BY <1>1, <1>2, <3>1 DEF Local, RowIsTrue, Marked, NilVersion, Stage
  <2> QED
    BY <2>1, <2>2, <2>3, <2>4, <2>5
<1> QED
  BY <1>5, <1>6

LEMMA DropStep == ASSUME IInv, NEW d \in Database, Drop(d) PROVE Frame(d) /\ Local(d)'
<1> DEFINE f == Succ(version[d])
<1>1. /\ version[d] \in Int /\ version[d] \in -1 .. Last[d] /\ Local(d) /\ Last[d] \in Nat
  BY LocalFacts DEF Local, NilVersion
<1>2. /\ dirty[d] /\ 1 .. version[d] \subseteq exists[d]
      /\ UNCHANGED <<version, dirty>> /\ job'[d] = "dropped"
      /\ exists'[d] = exists[d] \ {f} /\ rows'[d] = rows[d] \ {f}
      /\ lost'[d] = lost[d] \cup (rows[d] \cap {f})
  BY <1>1 DEF Drop, Goto, Local, Marked, IInv, TypeOK
<1>3. f \notin 1 .. version[d]
  BY <1>1 DEF Succ, NilVersion
<1>4. Frame(d)
  BY DEF Frame, Drop, Goto, IInv, TypeOK
<1>5. 1 .. version[d] \subseteq exists'[d] /\ 1 .. (version[d] - 1) \subseteq 1 .. version[d]
  BY <1>1, <1>2, <1>3
<1>6. RowIsTrue(d)' /\ Marked(d)'
  BY <1>2, <1>5 DEF RowIsTrue, Marked
<1>7. rows'[d] \subseteq exists'[d] /\ exists'[d] \subseteq File(d) /\ lost'[d] \subseteq Nat
  BY <1>1, <1>2 DEF Local, File
<1> QED
  BY <1>1, <1>2, <1>4, <1>6, <1>7 DEF Local, NilVersion, Stage

LEMMA CreateStep == ASSUME IInv, NEW d \in Database, Create(d) PROVE Frame(d) /\ Local(d)'
<1>1. Local(d) /\ version[d] \in Int
  BY LocalFacts
<1>2. /\ dirty[d] /\ version[d] \in File(d) /\ job'[d] = "created"
      /\ UNCHANGED <<version, dirty, rows, lost>>
      /\ exists'[d] = exists[d] \cup {version[d]}
  BY <1>1 DEF Create, Goto, Local, Marked, IInv, TypeOK
<1>3. Frame(d)
  BY DEF Frame, Create, Goto, IInv, TypeOK
<1>4. 1 .. (version[d] - 1) \subseteq exists[d]
  BY <1>1, <1>2 DEF Local, RowIsTrue
<1>5. 1 .. version[d] \subseteq exists'[d] /\ 1 .. (version[d] - 1) \subseteq exists'[d]
  BY <1>1, <1>2, <1>4
<1>6. RowIsTrue(d)' /\ Marked(d)'
  BY <1>2, <1>5 DEF RowIsTrue, Marked, File
<1> QED
  BY <1>1, <1>2, <1>3, <1>6 DEF Local, Stage

LEMMA StepIsLocal == ASSUME IInv, NEW d \in Database, Step(d) PROVE Frame(d) /\ Local(d)'
<1>1. CASE ReadVersion(d)
  <2> DEFINE s == IF version[d] # NilVersion /\ dirty[d] THEN "force" ELSE "up"
  <2>1. Goto(d, s) /\ UNCHANGED schema
    BY <1>1 DEF ReadVersion
  <2>2. /\ s \in Stage /\ s \notin {"drop", "dropped", "create", "created"}
        /\ s = "force" => dirty[d] /\ version[d] # NilVersion
    BY DEF Stage
  <2> HIDE DEF s
  <2> QED
    BY <2>1, <2>2, QuietStep
<1>2. CASE DownRefused(d) \/ DropRefused(d) \/ UpRefused(d) \/ CreateRefused(d)
  BY <1>2, QuietStep DEF DownRefused, DropRefused, UpRefused, CreateRefused, Stage
<1>3. CASE UpEnd(d)
  <2>1. Goto(d, Succeeded(d)) /\ UNCHANGED schema
    BY <1>3 DEF UpEnd
  <2>2. Succeeded(d) \in {"count", "done"}
    BY DEF Succeeded
  <2> QED
    BY <2>1, <2>2, QuietStep DEF Stage
<1> QED
  BY <1>1, <1>2, <1>3, RowStep, DropStep, CreateStep DEF Step

\* What has been shown of d, and what a step leaves alone, keep the invariant.
LEMMA FrameIInv ==
    ASSUME IInv, NEW d \in Database, Frame(d), Local(d)'
    PROVE  /\ version' \in [Database -> Int] /\ dirty' \in [Database -> BOOLEAN]
           /\ exists' \in [Database -> SUBSET Nat] /\ rows' \in [Database -> SUBSET Nat]
           /\ lost' \in [Database -> SUBSET Nat] /\ job' \in [Database -> Stage]
           /\ \A e \in Database : /\ version'[e] \in NilVersion .. Last[e]
                                 /\ rows'[e] \subseteq exists'[e]
                                 /\ exists'[e] \subseteq File(e)
           /\ RowsAreTrue'
           /\ \A e \in Database : Marked(e)'
<1>1. \A e \in Database \ {d} :
          /\ version'[e] = version[e] /\ dirty'[e] = dirty[e] /\ exists'[e] = exists[e]
          /\ rows'[e] = rows[e] /\ lost'[e] = lost[e] /\ job'[e] = job[e]
  BY DEF Frame, IInv, TypeOK
<1>2. \A e \in Database : Local(e)'
  BY <1>1, LocalFacts DEF Local, RowIsTrue, Marked
<1>3. \A e \in Database : version'[e] \in Int
  BY <1>1, <1>2, LocalFacts DEF Local, NilVersion
<1>4. \A e \in Database : exists'[e] \subseteq Nat /\ rows'[e] \subseteq Nat
  BY <1>2 DEF Local, File
<1>5. \A e \in Database : RowIsTrue(e)' /\ Marked(e)'
  BY <1>2 DEF Local
<1> QED
  BY <1>2, <1>3, <1>4, <1>5 DEF Frame, Local, RowsAreTrue, IInv, TypeOK

LEMMA StepIInv == ASSUME IInv, NEW d \in Database, Step(d) PROVE IInv'
<1>1. Frame(d) /\ Local(d)'
  BY StepIsLocal
<1>2. UNCHANGED <<made, hits, phase, attempt, counter, loaded, faults>>
  BY DEF Step, process, ReadVersion, ForceBelow, DownRefused, DownMark, Drop, DropRefused,
         DownClean, UpRefused, UpEnd, UpMark, Create, CreateRefused, UpClean
<1>3. TypeOK' /\ RowsAreTrue' /\ \A e \in Database : Marked(e)'
  BY <1>1, <1>2, FrameIInv DEF IInv, TypeOK
<1>4. AuthDone'
  <2>1. CASE d # AuthDb
    <3>1. Migrated(AuthDb)' = Migrated(AuthDb) /\ job'[AuthDb] = job[AuthDb]
      BY <1>1, <2>1, MigrationsAssumption DEF Frame, Migrated, File, IInv, TypeOK
    <3> QED
      BY <1>2, <3>1 DEF IInv, AuthDone
  <2>2. CASE d = AuthDb
    <3>1. job[d] # "done" /\ (phase # "companies" => job'[d] \notin {"count", "store"})
      BY DEF Step, process, ReadVersion, ForceBelow, DownRefused, DownMark, Drop, DropRefused,
             DownClean, UpRefused, UpEnd, UpMark, Create, CreateRefused, UpClean,
             Succeeded, Goto, IInv, TypeOK
    <3>2. job'[d] = "done" => UpEnd(d)
      BY DEF Step, process, ReadVersion, ForceBelow, DownRefused, DownMark, Drop, DropRefused,
             DownClean, UpRefused, UpMark, Create, CreateRefused, UpClean,
             Goto, IInv, TypeOK
    <3>3. UpEnd(d) => Migrated(d)'
      <4>1. UpEnd(d) => ~ dirty[d] /\ version[d] = Last[d] /\ UNCHANGED schema
        BY DEF UpEnd
      <4>2. exists[d] \subseteq File(d) /\ RowIsTrue(d)
        BY LocalFacts DEF Local
      <4> QED
        BY <4>1, <4>2 DEF Migrated, RowIsTrue, File, schema
    <3> QED
      BY <1>2, <2>2, <3>1, <3>2, <3>3 DEF IInv, AuthDone, TypeOK, Phase
  <2> QED
    BY <2>1, <2>2
<1> QED
  BY <1>3, <1>4 DEF IInv

-----------------------------------------------------------------------------
(* The steps that leave the schemas alone: jobs begin, fail, count or end.    *)

Unmarked == Stage \ {"force", "drop", "dropped", "create", "created"}

LEMMA JobsIInv ==
    ASSUME IInv, UNCHANGED schema,
           job' \in [Database -> Stage],
           \A d \in Database : job'[d] = job[d] \/ job'[d] \in Unmarked,
           made' \subseteq Database, hits' \in [Database -> Nat], phase' \in Phase,
           attempt' \in 1 .. Attempts, counter' \in Nat, loaded' \in [Database -> Nat],
           faults' \in 0 .. MaxFaults,
           AuthDone'
    PROVE  IInv'
<1>1. TypeOK'
  BY DEF IInv, TypeOK, schema
<1>2. RowsAreTrue'
  BY DEF IInv, RowsAreTrue, RowIsTrue, schema
<1>3. \A d \in Database : Marked(d)'
  BY DEF IInv, Marked, Unmarked, schema
<1> QED
  BY <1>1, <1>2, <1>3 DEF IInv

LEMMA FaultTyped ==
    ASSUME IInv, Fault PROVE faults' \in 0 .. MaxFaults
  BY MigrationsAssumption DEF Fault, IInv, TypeOK

\* A job of d ends or goes on, while main() does not move.
LEMMA OneJobIInv ==
    ASSUME IInv, NEW d \in Database, UNCHANGED <<made, schema, phase, attempt>>,
           NEW s \in Unmarked, Goto(d, s),
           d = AuthDb => /\ job[d] # "done"
                         /\ phase # "down" => s # "done"
                         /\ phase = "auth" => s \notin {"count", "store"},
           hits' \in [Database -> Nat], counter' \in Nat, loaded' \in [Database -> Nat],
           faults' \in 0 .. MaxFaults
    PROVE  IInv'
<1>1. /\ job' \in [Database -> Stage]
      /\ \A e \in Database : job'[e] = IF e = d THEN s ELSE job[e]
  BY DEF Goto, Unmarked, IInv, TypeOK
<1>2. AuthDone'
  <2>1. Migrated(AuthDb)' = Migrated(AuthDb)
    BY DEF Migrated, schema
  <2> QED
    BY <1>1, <2>1, MigrationsAssumption DEF IInv, AuthDone, TypeOK, Phase
<1> QED
  BY <1>1, <1>2, JobsIInv DEF IInv, TypeOK, Unmarked

LEMMA FailureIInv ==
    ASSUME IInv, NEW d \in Database, ReadFails(d) \/ StatementFails(d)
    PROVE  IInv'
<1>1. faults' \in 0 .. MaxFaults
  BY FaultTyped DEF ReadFails, StatementFails
<1>2. hits' \in [Database -> Nat]
  BY DEF ReadFails, StatementFails, IInv, TypeOK
<1>3. PICK s \in {"up", "failed"} : Goto(d, s)
  BY DEF ReadFails, StatementFails
<1>4. /\ UNCHANGED <<made, schema, phase, attempt, counter, loaded>>
      /\ job[d] # "done"
  BY DEF ReadFails, StatementFails
<1> QED
  BY <1>1, <1>2, <1>3, <1>4, OneJobIInv DEF IInv, TypeOK, Unmarked, Stage

LEMMA CountIInv == ASSUME IInv, NEW d \in Database, Count(d) PROVE IInv'
<1>1. /\ UNCHANGED <<made, schema, hits, phase, attempt, faults>>
      /\ counter' \in Nat /\ loaded' \in [Database -> Nat]
  BY DEF Count, CountLoad, CountStore, IInv, TypeOK
<1>2. PICK s \in {"store", "done"} : Goto(d, s)
  BY DEF Count, CountLoad, CountStore
<1>3. job[d] \in {"count", "store"}
  BY DEF Count, CountLoad, CountStore
<1>4. d = AuthDb => phase = "down"
  BY <1>3 DEF IInv, AuthDone, TypeOK, Phase
<1> QED
  BY <1>1, <1>2, <1>3, <1>4, OneJobIInv DEF IInv, TypeOK, Unmarked, Stage

\* main() stops, begins, tries once more and goes on.
LEMMA MainIInv ==
    ASSUME IInv, Main \/ StartFails \/ ListFails \/ Crash
    PROVE  IInv'
<1>1. UNCHANGED schema /\ made' \subseteq Database
  BY MigrationsAssumption
     DEF Main, Start, RetryAuth, MigrateCompanies, Serve, StartFails, ListFails, Crash,
         IInv, TypeOK
<1>2. /\ job' \in [Database -> Stage]
      /\ \A d \in Database : job'[d] = job[d] \/ job'[d] \in Unmarked
  BY MigrationsAssumption
     DEF Main, Start, RetryAuth, MigrateCompanies, Serve, StartFails, ListFails, Crash,
         Goto, Unmarked, Stage, IInv, TypeOK
<1>3. phase' \in Phase /\ attempt' \in 1 .. Attempts
  BY MigrationsAssumption
     DEF Main, Start, RetryAuth, MigrateCompanies, Serve, StartFails, ListFails, Crash,
         Fatal, Phase, IInv, TypeOK
<1>4. counter' \in Nat /\ loaded' \in [Database -> Nat] /\ hits' \in [Database -> Nat]
  BY DEF Main, Start, RetryAuth, MigrateCompanies, Serve, StartFails, ListFails, Crash,
         IInv, TypeOK
<1>5. faults' \in 0 .. MaxFaults
  BY FaultTyped
     DEF Main, Start, RetryAuth, MigrateCompanies, Serve, StartFails, ListFails, Crash,
         IInv, TypeOK
<1>6. AuthDone'
  <2>1. Migrated(AuthDb)' = Migrated(AuthDb)
    BY <1>1 DEF Migrated, schema
  <2>2. CASE phase' = "down"
    BY <2>2 DEF AuthDone
  <2>3. CASE Start
    BY <2>3, MigrationsAssumption DEF Start, AuthDone
  <2>4. CASE RetryAuth /\ phase' # "down"
    BY <2>4, MigrationsAssumption DEF RetryAuth, Fatal, Goto, AuthDone, IInv, TypeOK
  <2>5. CASE MigrateCompanies \/ Serve
    BY <2>1, <2>5, MigrationsAssumption
       DEF MigrateCompanies, Serve, Company, AuthDone, IInv, TypeOK
  <2> QED
    BY <2>2, <2>3, <2>4, <2>5 DEF Main, StartFails, ListFails, Crash, Fatal
<1> QED
  BY <1>1, <1>2, <1>3, <1>4, <1>5, <1>6, JobsIInv

LEMMA RegisterIInv == ASSUME IInv, NEW d \in Company, Register(d) PROVE IInv'
<1>1. /\ UNCHANGED <<schema, hits, phase, attempt, counter, loaded, faults>>
      /\ made' = made \cup {d} /\ d \in Database /\ d # AuthDb
      /\ job' = [job EXCEPT ![d] = "read"]
  BY DEF Register, Goto, Company
<1>2. AuthDone'
  <2>1. Migrated(AuthDb)' = Migrated(AuthDb) /\ job'[AuthDb] = job[AuthDb]
    BY <1>1, MigrationsAssumption DEF Migrated, schema, IInv, TypeOK
  <2> QED
    BY <1>1, <2>1 DEF IInv, AuthDone
<1> QED
  BY <1>1, <1>2, JobsIInv DEF IInv, TypeOK, Unmarked, Stage

LEMMA WriteIInv == ASSUME IInv, NEW d \in Database, Write(d) PROVE IInv'
<1>1. /\ UNCHANGED <<made, version, dirty, exists, lost, hits, phase, attempt,
                     job, counter, loaded, faults>>
      /\ rows' = [rows EXCEPT ![d] = exists[d]]
  BY DEF Write
<1>2. TypeOK'
  BY <1>1 DEF IInv, TypeOK
<1>3. RowsAreTrue' /\ (\A e \in Database : Marked(e)') /\ AuthDone'
  BY <1>1 DEF IInv, RowsAreTrue, RowIsTrue, Marked, AuthDone, Migrated
<1> QED
  BY <1>2, <1>3 DEF IInv

LEMMA NextIInv == ASSUME IInv, [Next]_vars PROVE IInv'
<1>1. CASE UNCHANGED vars
  BY <1>1 DEF vars, schema, IInv, TypeOK, RowsAreTrue, RowIsTrue, Marked, AuthDone, Migrated
<1>2. CASE Main \/ StartFails \/ ListFails \/ Crash
  BY <1>2, MainIInv
<1>3. ASSUME NEW d \in Database,
             Step(d) \/ Count(d) \/ ReadFails(d) \/ StatementFails(d) \/ Write(d)
      PROVE  IInv'
  BY <1>3, StepIInv, CountIInv, FailureIInv, WriteIInv
<1>4. ASSUME NEW d \in Company, Register(d) PROVE IInv'
  BY <1>4, RegisterIInv
<1> QED
  BY <1>1, <1>2, <1>3, <1>4 DEF Next

-----------------------------------------------------------------------------
(* The counter of migrated databases.  What bounds it is what the goroutines  *)
(* have read of it: never more than there are goroutines that are done.       *)

Counted == {d \in Company : job[d] = "done"}

Counting ==
    /\ phase = "auth" => counter = 0 /\ \A d \in Company : job[d] = "idle"
    /\ phase = "companies" =>
          /\ counter <= Cardinality(Counted) /\ (Counted # {} => counter >= 1)
          /\ \A d \in Company : job[d] = "store" => loaded[d] <= Cardinality(Counted)

LEMMA InitCounting == Init => Counting
  BY DEF Init, Counting

LEMMA CountedFinite == ASSUME IInv PROVE IsFiniteSet(Counted) /\ Cardinality(Counted) \in Nat
<1>1. IsFiniteSet(Company)
  BY MigrationsAssumption, FS_Subset DEF Company
<1>2. IsFiniteSet(Counted)
  BY <1>1, FS_Subset DEF Counted
<1> QED
  BY <1>2, FS_CardinalityType

\* A step of one job that is not the last of its goroutine.
LEMMA JobCounting ==
    ASSUME IInv, Counting, NEW d \in Database,
           Step(d) \/ ReadFails(d) \/ StatementFails(d)
    PROVE  Counting'
<1>1. /\ UNCHANGED <<phase, counter, loaded>>
      /\ job[d] \notin {"idle", "done"}
      /\ \A e \in Database \ {d} : job'[e] = job[e]
      /\ phase = "companies" => job'[d] \notin {"store", "done"}
  BY DEF Step, process, ReadVersion, ForceBelow, DownRefused, DownMark, Drop, DropRefused,
         DownClean, UpRefused, UpEnd, UpMark, Create, CreateRefused, UpClean,
         Succeeded, ReadFails, StatementFails, Goto, IInv, TypeOK
<1>2. phase = "companies" => Counted' = Counted
  BY <1>1 DEF Counted, Company
<1> QED
  BY <1>1, <1>2 DEF Counting, Company

LEMMA CountCounting ==
    ASSUME IInv, Counting, NEW d \in Database, Count(d) PROVE Counting'
<1>1. CASE phase # "companies"
  <2>1. phase = "auth" => d \in Company
    BY DEF Count, CountLoad, CountStore, IInv, AuthDone, Company
  <2> QED
    BY <1>1, <2>1 DEF Count, CountLoad, CountStore, Counting
<1>2. CASE phase = "companies"
  <2>1. d \in Company /\ phase' = phase
    BY <1>2 DEF Count, CountLoad, CountStore, IInv, AuthDone, Company
  <2>2. IsFiniteSet(Counted) /\ Cardinality(Counted) \in Nat
    BY CountedFinite
  <2>3. CASE CountLoad(d)
    <3>1. Counted' = Counted
      BY <2>3 DEF CountLoad, Counted, Company, Goto, IInv, TypeOK
    <3> QED
      BY <1>2, <2>1, <2>3, <3>1 DEF CountLoad, Counting, Company, Goto, IInv, TypeOK
  <2>4. CASE CountStore(d)
    <3>1. Counted' = Counted \cup {d} /\ d \notin Counted
      BY <2>1, <2>4 DEF CountStore, Counted, Company, Goto, IInv, TypeOK
    <3>2. Cardinality(Counted') = Cardinality(Counted) + 1
      BY <2>2, <3>1, FS_AddElement
    <3>3. /\ job[d] = "store" /\ counter' = loaded[d] + 1 /\ loaded[d] \in Nat
          /\ \A e \in Company \ {d} : job'[e] = job[e] /\ loaded'[e] = loaded[e]
          /\ job'[d] = "done"
      BY <2>1, <2>4 DEF CountStore, Company, Goto, IInv, TypeOK
    <3>4. loaded[d] <= Cardinality(Counted)
      BY <1>2, <2>1, <3>3 DEF Counting
    <3>5. \A e \in Company \ {d} : loaded[e] \in Nat
      BY DEF Company, IInv, TypeOK
    <3>6. \A e \in Company : job'[e] = "store" => loaded'[e] <= Cardinality(Counted')
      BY <1>2, <2>2, <3>2, <3>3, <3>5 DEF Counting
    <3>7. counter' <= Cardinality(Counted') /\ counter' >= 1
      BY <2>2, <3>2, <3>3, <3>4
    <3> QED
      BY <1>2, <2>1, <3>6, <3>7 DEF Counting
  <2> QED
    BY <2>3, <2>4 DEF Count
<1> QED
  BY <1>1, <1>2

LEMMA NextCounting == ASSUME IInv, Counting, [Next]_vars PROVE Counting'
<1>1. CASE UNCHANGED vars \/ \E d \in Database : Write(d)
  BY <1>1 DEF vars, schema, Write, Counting, Counted
<1>2. CASE Start \/ RetryAuth
  BY <1>2, MigrationsAssumption
     DEF Start, RetryAuth, Fatal, Goto, Counting, Company, IInv, TypeOK
<1>3. CASE MigrateCompanies
  <2>1. Counted' = {}
    BY <1>3, MigrationsAssumption DEF MigrateCompanies, Counted, Counting, Company, IInv, TypeOK
  <2>2. \A d \in Company : job'[d] # "store"
    BY <1>3 DEF MigrateCompanies, Counting, Company
  <2>3. counter' = 0 /\ phase' = "companies" /\ Cardinality({}) = 0
    BY <1>3, FS_EmptySet DEF MigrateCompanies, Counting
  <2> QED
    BY <2>1, <2>2, <2>3 DEF Counting
<1>4. CASE Serve \/ StartFails \/ ListFails \/ Crash
  BY <1>4 DEF Serve, StartFails, ListFails, Crash, Fatal, Counting
<1>5. ASSUME NEW d \in Database,
             Step(d) \/ Count(d) \/ ReadFails(d) \/ StatementFails(d)
      PROVE  Counting'
  BY <1>5, JobCounting, CountCounting
<1>6. ASSUME NEW d \in Company, Register(d) PROVE Counting'
  BY <1>6 DEF Register, Counting
<1> QED
  BY <1>1, <1>2, <1>3, <1>4, <1>5, <1>6 DEF Next, Main

-----------------------------------------------------------------------------
(* Rows that are lost.  A repair drops a table for an interruption, once.  A  *)
(* bare file that has met its own table is refused at every start, though no  *)
(* interruption goes before it: each repair then drops the table of the file  *)
(* below, always the same, and the interruption that left the bare table has  *)
(* paid for it.                                                               *)

BareMade(d) == Last[d] \in Bare[d] \cap exists[d]

\* The table that the repairs after a refused bare file drop: the bare table is
\* there and the row does not say so.
Doomed(d) ==
    IF BareMade(d) /\ ~ (version[d] = Last[d] /\ (~ dirty[d] \/ job[d] = "created"))
    THEN {Last[d] - 1} ELSE {}

\* A repair that drops the doomed table.
Again(d) ==
    /\ BareMade(d)
    /\ \/ job[d] = "down" /\ version[d] = Last[d] - 1
       \/ job[d] = "drop" /\ Succ(version[d]) = Last[d] - 1

\* A table that is not doomed may still be dropped for an interruption there was.
Owes(d) ==
    \/ dirty[d] /\ ~ Interrupted(d) /\ ~ (version[d] = Last[d] /\ BareMade(d))
    \/ job[d] \in {"down", "drop"} /\ ~ Again(d)

Paid(d) ==
    /\ lost[d] \subseteq File(d)
    /\ Cardinality(lost[d] \cup Doomed(d)) <= hits[d]
    /\ Owes(d) => Cardinality(lost[d] \cup Doomed(d)) + 1 <= hits[d]

\* A repair is below the last version.
Below(d) ==
    /\ job[d] = "down" => ~ dirty[d] /\ version[d] # Last[d]
    /\ job[d] \in {"drop", "dropped"} =>
          version[d] # Last[d] /\ Succ(version[d]) # Last[d]

Idle ==
    /\ phase = "down" => \A d \in Database : job[d] = "idle"
    /\ phase = "auth" => \A d \in Company : job[d] = "idle"
    /\ \A d \in Database \ made : job[d] = "idle"

Paying == Idle /\ \A d \in Database : Paid(d) /\ Below(d)

LEMMA LostFinite ==
    ASSUME IInv, NEW d \in Database, NEW S \in SUBSET File(d), NEW k, NEW T \in SUBSET {k}
    PROVE  IsFiniteSet(S \cup T) /\ Cardinality(S \cup T) \in Nat
<1>1. IsFiniteSet(File(d))
  BY MigrationsAssumption, FS_Interval DEF File
<1>2. IsFiniteSet(S) /\ IsFiniteSet(T)
  BY <1>1, FS_Subset, FS_Singleton
<1> QED
  BY <1>2, FS_Union, FS_CardinalityType

LEMMA DoomedFinite ==
    ASSUME IInv, NEW d \in Database, Paid(d)
    PROVE  /\ IsFiniteSet(lost[d] \cup Doomed(d))
           /\ Cardinality(lost[d] \cup Doomed(d)) \in Nat
           /\ hits[d] \in Nat
<1>1. Doomed(d) \in SUBSET {Last[d] - 1}
  BY DEF Doomed
<1> QED
  BY <1>1, LostFinite DEF Paid, IInv, TypeOK

\* At most one element more, at most one more in number.
LEMMA OneMore ==
    ASSUME NEW S, IsFiniteSet(S), NEW x, NEW T \in SUBSET {x}
    PROVE  /\ Cardinality(S) \in Nat /\ Cardinality(S \cup T) \in Nat
           /\ Cardinality(S \cup T) <= Cardinality(S) + 1
<1>1. T = {} \/ T = {x}
  OBVIOUS
<1>2. CASE T = {}
  <2>1. S \cup T = S
    BY <1>2
  <2>2. Cardinality(S \cup T) = Cardinality(S)
    BY <2>1, Zenon
  <2>3. Cardinality(S) \in Nat
    BY FS_CardinalityType
  <2> QED
    BY <2>2, <2>3
<1>3. CASE T = {x}
  <2>1. Cardinality(S) \in Nat
    BY FS_CardinalityType
  <2>2. Cardinality(S \cup {x}) = IF x \in S THEN Cardinality(S) ELSE Cardinality(S) + 1
    BY FS_AddElement
  <2> QED
    BY <1>3, <2>1, <2>2
<1> QED
  BY <1>1, <1>2, <1>3

LEMMA InitPaying == Init => Paying
<1> SUFFICES ASSUME Init PROVE Paying
  OBVIOUS
<1>1. PICK v \in [Database -> {Absent, NilVersion} \cup UNION {File(d) : d \in Database}] :
          /\ version = [d \in Database |-> IF v[d] = Absent THEN NilVersion ELSE v[d]]
          /\ dirty = [d \in Database |-> FALSE]
          /\ exists = [d \in Database |-> {f \in File(d) : f <= v[d]}]
          /\ lost = [d \in Database |-> {}]
          /\ job = [d \in Database |-> "idle"]
          /\ hits = [d \in Database |-> 0]
          /\ phase = "down"
          /\ \A d \in Database : v[d] \in Begin[d]
  BY DEF Init
<1>2. ASSUME NEW d \in Database PROVE Paid(d) /\ Below(d)
  <2>1. Last[d] \in Nat \ {0} /\ (v[d] \in {Absent, NilVersion} \/ v[d] \in 1 .. Last[d])
    BY <1>1, MigrationsAssumption DEF File
  <2>2. Last[d] \in exists[d] => v[d] = Last[d]
    BY <1>1, <2>1 DEF File, Absent, NilVersion
  <2>3. Last[d] \in exists[d] => version[d] = Last[d]
    BY <1>1, <2>1, <2>2 DEF Absent
  <2>4. Doomed(d) = {}
    BY <1>1, <2>3 DEF Doomed, BareMade
  <2>5. ~ Owes(d)
    BY <1>1 DEF Owes
  <2> QED
    BY <1>1, <2>4, <2>5, FS_EmptySet DEF Paid, Below
<1> QED
  BY <1>1, <1>2 DEF Paying, Idle, Company

\* Nothing happens in d.
LEMMA PaidElsewhere ==
    ASSUME NEW d \in Database, Paid(d), Below(d),
           /\ version'[d] = version[d] /\ dirty'[d] = dirty[d] /\ exists'[d] = exists[d]
           /\ lost'[d] = lost[d] /\ job'[d] = job[d] /\ hits'[d] = hits[d]
    PROVE  Paid(d)' /\ Below(d)'
<1>1. BareMade(d)' = BareMade(d) /\ Interrupted(d)' = Interrupted(d) /\ Again(d)' = Again(d)
  BY DEF BareMade, Interrupted, Again
<1>2. Doomed(d)' = Doomed(d) /\ Owes(d)' = Owes(d)
  BY <1>1 DEF Doomed, Owes
<1> QED
  BY <1>2 DEF Paid, Below

\* A job ends, waits or goes on while its row and its tables stay, and an
\* interruption is counted.
LEMMA PaidAtRest ==
    ASSUME IInv, NEW d \in Database, Paid(d),
           /\ version'[d] = version[d] /\ dirty'[d] = dirty[d] /\ exists'[d] = exists[d]
           /\ lost'[d] = lost[d],
           job'[d] \notin {"down", "drop", "dropped", "create", "created"},
           hits'[d] = IF Interrupted(d) THEN hits[d] + 1 ELSE hits[d]
    PROVE  Paid(d)' /\ Below(d)'
<1>1. BareMade(d)' = BareMade(d) /\ ~ Interrupted(d)'
  BY DEF BareMade, Interrupted
<1>2. Owes(d)' <=> dirty[d] /\ ~ (version[d] = Last[d] /\ BareMade(d))
  BY <1>1 DEF Owes
<1>3. /\ IsFiniteSet(lost[d] \cup Doomed(d))
      /\ Cardinality(lost[d] \cup Doomed(d)) \in Nat /\ hits[d] \in Nat
  BY DoomedFinite
<1>4. CASE Doomed(d)' = Doomed(d)
  <2>1. ~ Interrupted(d) /\ Owes(d)' => Owes(d)
    BY <1>2 DEF Owes
  <2> QED
    BY <1>3, <1>4, <2>1 DEF Paid, Below
<1>5. CASE Doomed(d)' # Doomed(d)
  <2>1. Interrupted(d) /\ ~ Owes(d)' /\ Doomed(d) = {}
    BY <1>1, <1>2, <1>5 DEF Doomed, Interrupted
  <2>2. Doomed(d)' \in SUBSET {Last[d] - 1} /\ lost'[d] = lost[d] \cup Doomed(d)
    BY <2>1 DEF Doomed
  <2>3. /\ Cardinality(lost'[d] \cup Doomed(d)') \in Nat
        /\ Cardinality(lost'[d] \cup Doomed(d)') <= Cardinality(lost[d] \cup Doomed(d)) + 1
    BY <1>3, <2>2, OneMore
  <2> QED
    BY <1>3, <2>1, <2>3 DEF Paid, Below
<1> QED
  BY <1>4, <1>5

\* The steps that write the row.
LEMMA RowPaid ==
    ASSUME IInv, NEW d \in Database, Paid(d), Below(d),
           ForceBelow(d) \/ DownMark(d) \/ DownClean(d) \/ UpMark(d) \/ UpClean(d)
    PROVE  Paid(d)' /\ Below(d)'
<1>1. /\ version[d] \in Int /\ Last[d] \in Nat \ {0} /\ version[d] \in -1 .. Last[d]
      /\ Marked(d)
  BY LocalFacts DEF Local, NilVersion
<1>2. UNCHANGED <<exists, lost, hits>>
  BY DEF process, ForceBelow, DownMark, DownClean, UpMark, UpClean
<1>3. BareMade(d)' = BareMade(d)
  BY <1>2 DEF BareMade
<1>4. CASE ForceBelow(d)
  <2>1. /\ dirty[d] /\ version[d] # -1 /\ job[d] = "force"
        /\ version'[d] = version[d] - 1 /\ dirty'[d] = FALSE /\ job'[d] = "down"
    BY <1>1, <1>4 DEF ForceBelow, Marked, NilVersion, SetVersion, Goto, IInv, TypeOK
  <2>2. version'[d] # Last[d] /\ (version'[d] = Last[d] - 1 <=> version[d] = Last[d])
    BY <1>1, <2>1
  <2>3. Doomed(d)' = Doomed(d)
    BY <1>3, <2>1, <2>2 DEF Doomed
  <2>4. Owes(d)' => Owes(d)
    BY <1>3, <2>1, <2>2 DEF Owes, Again, Interrupted
  <2> QED
    BY <1>2, <2>1, <2>2, <2>3, <2>4 DEF Paid, Below
<1>5. CASE DownMark(d)
  <2>1. /\ version[d] \in 1 .. Last[d] /\ version[d] # Last[d] /\ ~ dirty[d] /\ job[d] = "down"
        /\ version'[d] = Prev(version[d]) /\ dirty'[d] = TRUE /\ job'[d] = "drop"
    BY <1>5 DEF DownMark, Below, File, SetVersion, Goto, IInv, TypeOK
  <2>2. version'[d] # Last[d] /\ Succ(version'[d]) = version[d]
    BY <1>1, <2>1 DEF Prev, Succ, NilVersion
  <2>3. Doomed(d)' = Doomed(d)
    BY <1>3, <2>1, <2>2 DEF Doomed
  <2>4. Owes(d)' => Owes(d)
    BY <1>3, <2>1, <2>2 DEF Owes, Again, Interrupted
  <2> QED
    BY <1>2, <2>1, <2>2, <2>3, <2>4 DEF Paid, Below
<1>6. CASE DownClean(d)
  <2>1. /\ job[d] = "dropped" /\ version[d] # Last[d]
        /\ version'[d] = version[d] /\ dirty'[d] = FALSE /\ job'[d] = "up"
    BY <1>6 DEF DownClean, Below, SetVersion, Goto, IInv, TypeOK
  <2>2. Doomed(d)' = Doomed(d) /\ ~ Owes(d)'
    BY <1>3, <2>1 DEF Doomed, Owes
  <2> QED
    BY <1>2, <2>1, <2>2 DEF Paid, Below
<1>7. CASE UpMark(d)
  <2>1. /\ version[d] # Last[d] /\ dirty'[d] = TRUE /\ job'[d] = "create"
    BY <1>7 DEF UpMark, SetVersion, Goto, IInv, TypeOK
  <2>2. Doomed(d)' = Doomed(d) /\ ~ Owes(d)'
    BY <1>3, <2>1 DEF Doomed, Owes, Interrupted
  <2> QED
    BY <1>2, <2>1, <2>2 DEF Paid, Below
<1>8. CASE UpClean(d)
  <2>1. /\ job[d] = "created" /\ version'[d] = version[d] /\ dirty'[d] = FALSE /\ job'[d] = "up"
    BY <1>8 DEF UpClean, SetVersion, Goto, IInv, TypeOK
  <2>2. Doomed(d)' = Doomed(d) /\ ~ Owes(d)'
    BY <1>3, <2>1 DEF Doomed, Owes
  <2> QED
    BY <1>2, <2>1, <2>2 DEF Paid, Below
<1> QED
  BY <1>4, <1>5, <1>6, <1>7, <1>8

\* A table is dropped that is doomed, or one that an interruption has paid for.
LEMMA DropPaid ==
    ASSUME IInv, NEW d \in Database, Paid(d), Below(d), Drop(d)
    PROVE  Paid(d)' /\ Below(d)'
<1> DEFINE f == Succ(version[d])
           T == rows[d] \cap {f}
<1>1. /\ dirty[d] /\ job[d] = "drop" /\ version[d] # Last[d] /\ f # Last[d]
      /\ version'[d] = version[d] /\ dirty'[d] = dirty[d] /\ job'[d] = "dropped"
      /\ exists'[d] = exists[d] \ {f} /\ lost'[d] = lost[d] \cup T
      /\ hits'[d] = hits[d] /\ rows[d] \subseteq File(d)
  BY DEF Drop, process, Goto, Below, Marked, IInv, TypeOK
<1> HIDE DEF f
<1>2. BareMade(d)' = BareMade(d)
  BY <1>1 DEF BareMade
<1>3. Doomed(d)' = Doomed(d) /\ ~ Owes(d)'
  BY <1>1, <1>2 DEF Doomed, Owes, Interrupted
<1>4. /\ IsFiniteSet(lost[d] \cup Doomed(d))
      /\ Cardinality(lost[d] \cup Doomed(d)) \in Nat /\ hits[d] \in Nat
  BY DoomedFinite
<1>5. lost'[d] \cup Doomed(d)' = (lost[d] \cup Doomed(d)) \cup T
  BY <1>1, <1>3
<1>6. Cardinality(lost'[d] \cup Doomed(d)') <= hits[d]
  <2>1. CASE Again(d)
    <3>1. Doomed(d) = {f}
      BY <1>1, <2>1 DEF Again, Doomed, f
    <3>2. lost'[d] \cup Doomed(d)' = lost[d] \cup Doomed(d)
      BY <1>5, <3>1
    <3>3. Cardinality(lost'[d] \cup Doomed(d)') = Cardinality(lost[d] \cup Doomed(d))
      BY <3>2, Zenon
    <3> QED
      BY <3>3 DEF Paid
  <2>2. CASE ~ Again(d)
    <3>1. Cardinality(lost[d] \cup Doomed(d)) + 1 <= hits[d]
      BY <1>1, <2>2 DEF Paid, Owes
    <3>2. T \in SUBSET {f}
      OBVIOUS
    <3>3. Cardinality((lost[d] \cup Doomed(d)) \cup T)
             <= Cardinality(lost[d] \cup Doomed(d)) + 1
          /\ Cardinality((lost[d] \cup Doomed(d)) \cup T) \in Nat
      BY <1>4, <3>2, OneMore
    <3>4. Cardinality(lost'[d] \cup Doomed(d)') = Cardinality((lost[d] \cup Doomed(d)) \cup T)
      BY <1>5, Zenon
    <3> QED
      BY <1>4, <3>1, <3>3, <3>4
  <2> QED
    BY <2>1, <2>2
<1> QED
  BY <1>1, <1>3, <1>6 DEF Paid, Below, f

LEMMA CreatePaid ==
    ASSUME IInv, NEW d \in Database, Paid(d), Below(d), Create(d)
    PROVE  Paid(d)' /\ Below(d)'
<1>1. /\ job[d] = "create" /\ dirty[d]
      /\ version'[d] = version[d] /\ dirty'[d] = dirty[d] /\ job'[d] = "created"
      /\ exists'[d] = exists[d] \cup {version[d]} /\ lost'[d] = lost[d] /\ hits'[d] = hits[d]
  BY DEF Create, process, Goto, Marked, IInv, TypeOK
<1>2. Doomed(d)' \subseteq Doomed(d)
  <2>1. CASE version[d] = Last[d]
    BY <1>1, <2>1 DEF Doomed
  <2>2. CASE version[d] # Last[d]
    <3>1. BareMade(d)' = BareMade(d)
      BY <1>1, <2>2 DEF BareMade
    <3> QED
      BY <1>1, <2>2, <3>1 DEF Doomed
  <2> QED
    BY <2>1, <2>2
<1>3. ~ Owes(d)'
  BY <1>1 DEF Owes, Interrupted
<1>4. Cardinality(lost'[d] \cup Doomed(d)') <= hits[d]
  <2>1. /\ IsFiniteSet(lost[d] \cup Doomed(d))
        /\ Cardinality(lost[d] \cup Doomed(d)) \in Nat /\ hits[d] \in Nat
    BY DoomedFinite
  <2>2. lost[d] \cup Doomed(d)' \in SUBSET (lost[d] \cup Doomed(d))
    BY <1>2
  <2>3. /\ Cardinality(lost[d] \cup Doomed(d)') \in Nat
        /\ Cardinality(lost[d] \cup Doomed(d)') <= Cardinality(lost[d] \cup Doomed(d))
    BY <2>1, <2>2, FS_Subset, FS_CardinalityType
  <2> QED
    BY <1>1, <2>1, <2>3 DEF Paid
<1> QED
  BY <1>1, <1>3, <1>4 DEF Paid, Below

\* A file is refused over its own table only: what it needs is there.
LEMMA RefusedIsBare ==
    ASSUME IInv, NEW d \in Database, CreateRefused(d)
    PROVE  dirty[d] /\ version[d] = Last[d] /\ BareMade(d)
<1>1. /\ version[d] \in 1 .. Last[d] /\ dirty[d] /\ ~ CanCreate(d, version[d])
      /\ Last[d] \in Nat \ {0} /\ 1 .. (version[d] - 1) \subseteq exists[d]
  BY MigrationsAssumption
     DEF CreateRefused, IInv, Marked, RowsAreTrue, RowIsTrue, File
<1>2. \A g \in File(d) : <<version[d], g>> \in Needs[d] => g \in 1 .. (version[d] - 1)
  <2> SUFFICES ASSUME NEW g \in File(d), <<version[d], g>> \in Needs[d]
               PROVE  g \in 1 .. (version[d] - 1)
    OBVIOUS
  <2>1. <<version[d], g>>[2] < <<version[d], g>>[1]
    BY MigrationsAssumption
  <2>2. g < version[d] /\ g \in 1 .. Last[d]
    BY <2>1 DEF File
  <2> QED
    BY <1>1, <2>2
<1>3. version[d] \in exists[d] /\ version[d] \in Bare[d]
  BY <1>1, <1>2 DEF CanCreate
<1> QED
  BY <1>1, <1>3, BareAssumption DEF BareMade

\* The doomed table is not referenced: it can always be dropped.
LEMMA RefusedOwes ==
    ASSUME IInv, NEW d \in Database, DropRefused(d)
    PROVE  ~ Again(d)
<1> SUFFICES ASSUME Again(d) PROVE FALSE
  OBVIOUS
<1>1. /\ Referenced(d, Last[d] - 1) /\ BareMade(d)
  BY DEF DropRefused, Again
<1>2. PICK g \in exists[d] : <<g, Last[d] - 1>> \in Needs[d]
  BY <1>1 DEF Referenced
<1>3. Last[d] \in Nat \ {0} /\ g \in 1 .. Last[d]
  BY <1>2, MigrationsAssumption DEF IInv, TypeOK, File
<1>4. <<g, Last[d] - 1>>[2] < <<g, Last[d] - 1>>[1]
  BY <1>2, MigrationsAssumption
<1>5. g = Last[d]
  BY <1>3, <1>4
<1> QED
  BY <1>1, <1>2, <1>5, BareAssumption DEF BareMade

LEMMA StepPaid ==
    ASSUME IInv, NEW d \in Database, Paid(d), Below(d), Step(d)
    PROVE  Paid(d)' /\ Below(d)'
<1>1. CASE ReadVersion(d) \/ DownRefused(d) \/ UpRefused(d) \/ UpEnd(d)
  <2>1. /\ UNCHANGED <<schema, hits>> /\ ~ Interrupted(d)
        /\ job'[d] \notin {"down", "drop", "dropped", "create", "created"}
    BY <1>1 DEF ReadVersion, DownRefused, UpRefused, UpEnd, process, Succeeded, Goto,
                Interrupted, IInv, TypeOK
  <2> QED
    BY <2>1, PaidAtRest DEF schema
<1>2. CASE DropRefused(d)
  <2>1. /\ UNCHANGED <<schema, hits>> /\ job[d] = "drop" /\ job'[d] = "failed"
        /\ version[d] # Last[d] /\ ~ Again(d)
    BY <1>2, RefusedOwes DEF DropRefused, process, Goto, Below, IInv, TypeOK
  <2>2. Doomed(d)' = Doomed(d) /\ Owes(d)
    BY <2>1 DEF Doomed, BareMade, Owes, schema
  <2> QED
    BY <2>1, <2>2 DEF Paid, Below, schema
<1>3. CASE CreateRefused(d)
  <2>1. /\ UNCHANGED <<schema, hits>> /\ job[d] = "create" /\ job'[d] = "failed"
        /\ dirty[d] /\ version[d] = Last[d] /\ BareMade(d)
    BY <1>3, RefusedIsBare DEF CreateRefused, process, Goto, IInv, TypeOK
  <2>2. Doomed(d)' = Doomed(d) /\ ~ Owes(d)'
    BY <2>1 DEF Doomed, BareMade, Owes, schema
  <2> QED
    BY <2>1, <2>2 DEF Paid, Below, schema
<1> QED
  BY <1>1, <1>2, <1>3, RowPaid, DropPaid, CreatePaid DEF Step

LEMMA JobPaying ==
    ASSUME IInv, Paying, NEW d \in Database,
           Step(d) \/ Count(d) \/ ReadFails(d) \/ StatementFails(d)
    PROVE  Paying'
<1>1. /\ UNCHANGED <<made, phase>> /\ job[d] # "idle"
      /\ \A e \in Database \ {d} :
            /\ version'[e] = version[e] /\ dirty'[e] = dirty[e] /\ exists'[e] = exists[e]
            /\ lost'[e] = lost[e] /\ job'[e] = job[e] /\ hits'[e] = hits[e]
  BY DEF Step, process, schema, ReadVersion, ForceBelow, DownRefused, DownMark, Drop, DropRefused,
         DownClean, UpRefused, UpEnd, UpMark, Create, CreateRefused, UpClean, SetVersion,
         Count, CountLoad, CountStore, ReadFails, StatementFails, Goto, IInv, TypeOK
<1>2. Idle'
  BY <1>1 DEF Paying, Idle, Company
<1>3. Paid(d)' /\ Below(d)'
  <2>1. CASE Step(d)
    BY <2>1, StepPaid DEF Paying
  <2>2. CASE Count(d) \/ ReadFails(d) \/ StatementFails(d)
    <3>1. /\ UNCHANGED schema
          /\ job'[d] \notin {"down", "drop", "dropped", "create", "created"}
          /\ hits'[d] = IF Interrupted(d) THEN hits[d] + 1 ELSE hits[d]
      BY <2>2 DEF Count, CountLoad, CountStore, ReadFails, StatementFails, Goto,
                  Interrupted, IInv, TypeOK
    <3> QED
      BY <3>1, PaidAtRest DEF Paying, schema
  <2> QED
    BY <2>1, <2>2
<1>4. \A e \in Database \ {d} : Paid(e)' /\ Below(e)'
  BY <1>1, PaidElsewhere DEF Paying
<1> QED
  BY <1>2, <1>3, <1>4 DEF Paying

LEMMA MainPaying ==
    ASSUME IInv, Paying,
           Main \/ StartFails \/ ListFails \/ Crash \/ \E c \in Company : Register(c)
    PROVE  Paying'
<1>1. UNCHANGED schema
  BY DEF Main, Start, RetryAuth, MigrateCompanies, Serve, StartFails, ListFails, Crash, Register
<1>2. ASSUME NEW d \in Database
      PROVE  /\ job'[d] = job[d]
                \/ job'[d] \notin {"down", "drop", "dropped", "create", "created"}
             /\ job'[d] # job[d] => hits'[d] = IF Interrupted(d) THEN hits[d] + 1 ELSE hits[d]
             /\ job'[d] = job[d] => hits'[d] = hits[d] \/ Crash
  <2>1. CASE Start
    BY <2>1 DEF Start, Paying, Idle, Interrupted
  <2>2. CASE RetryAuth \/ StartFails \/ ListFails \/ Serve
    BY <2>2 DEF RetryAuth, StartFails, ListFails, Serve, Goto, Interrupted, IInv, TypeOK
  <2>3. CASE MigrateCompanies
    BY <2>3 DEF MigrateCompanies, Paying, Idle, Interrupted
  <2>4. CASE Crash
    BY <2>4 DEF Crash, IInv, TypeOK
  <2>5. ASSUME NEW c \in Company, Register(c)
        PROVE  /\ job'[d] # job[d] => job'[d] = "read" /\ job[d] = "idle"
               /\ hits'[d] = hits[d]
    <3>1. /\ job' = [job EXCEPT ![c] = "read"] /\ UNCHANGED hits
          /\ c \in Database \ made
      BY <2>5 DEF Register, Goto, Company
    <3> QED
      BY <3>1 DEF Paying, Idle, IInv, TypeOK
  <2> QED
    BY <2>1, <2>2, <2>3, <2>4, <2>5 DEF Main, Interrupted
<1>3. \A d \in Database : Crash => /\ job'[d] = "idle"
                                  /\ hits'[d] = IF Interrupted(d) THEN hits[d] + 1 ELSE hits[d]
  BY DEF Crash, IInv, TypeOK
<1>4. \A d \in Database : Paid(d)' /\ Below(d)'
  BY <1>1, <1>2, <1>3, PaidElsewhere, PaidAtRest DEF Paying, schema
<1>5. Idle'
  <2>1. CASE Start
    BY <2>1, MigrationsAssumption DEF Start, Paying, Idle, Company
  <2>2. CASE RetryAuth \/ StartFails \/ ListFails
    BY <2>2, MigrationsAssumption
       DEF RetryAuth, StartFails, ListFails, Fatal, Goto, Company, Paying, Idle,
           IInv, TypeOK, AuthDone
  <2>3. CASE MigrateCompanies
    BY <2>3 DEF MigrateCompanies, Paying, Idle
  <2>4. CASE Serve \/ Crash
    BY <2>4 DEF Serve, Crash, Fatal, Company, Paying, Idle
  <2>5. ASSUME NEW c \in Company, Register(c) PROVE Idle'
    <3>1. /\ phase' = "serving" /\ made' = made \cup {c}
          /\ \A d \in Database \ made' : job'[d] = job[d]
      BY <2>5 DEF Register, Goto, IInv, TypeOK
    <3> QED
      BY <3>1 DEF Paying, Idle
  <2> QED
    BY <2>1, <2>2, <2>3, <2>4, <2>5 DEF Main
<1> QED
  BY <1>4, <1>5 DEF Paying

LEMMA NextPaying == ASSUME IInv, Paying, [Next]_vars PROVE Paying'
<1>1. CASE UNCHANGED vars \/ \E d \in Database : Write(d)
  <2>1. UNCHANGED <<made, phase, version, dirty, exists, lost, job, hits>>
    BY <1>1 DEF vars, schema, Write
  <2> QED
    BY <2>1, PaidElsewhere DEF Paying, Idle
<1>2. CASE Main \/ StartFails \/ ListFails \/ Crash \/ \E c \in Company : Register(c)
  BY <1>2, MainPaying
<1>3. ASSUME NEW d \in Database,
             Step(d) \/ Count(d) \/ ReadFails(d) \/ StatementFails(d)
      PROVE  Paying'
  BY <1>3, JobPaying
<1> QED
  BY <1>1, <1>2, <1>3 DEF Next

LEMMA PaidIsBounded == ASSUME IInv, Paying PROVE LossesAreBounded
<1> SUFFICES ASSUME NEW d \in Database PROVE Cardinality(lost[d]) <= hits[d]
  BY DEF LossesAreBounded
<1>1. /\ IsFiniteSet(lost[d] \cup Doomed(d))
      /\ Cardinality(lost[d] \cup Doomed(d)) \in Nat /\ hits[d] \in Nat
      /\ Cardinality(lost[d] \cup Doomed(d)) <= hits[d]
  BY DoomedFinite DEF Paying, Paid
<1>2. lost[d] \in SUBSET (lost[d] \cup Doomed(d))
  OBVIOUS
<1>3. /\ Cardinality(lost[d]) \in Nat
      /\ Cardinality(lost[d]) <= Cardinality(lost[d] \cup Doomed(d))
  BY <1>1, <1>2, FS_Subset, FS_CardinalityType
<1> QED
  BY <1>1, <1>3

-----------------------------------------------------------------------------
\* Versions stay within the files there are, tables within what the files
\* create, and rows within tables, whatever is repaired, refused or interrupted.
THEOREM TypeCorrect == Spec => []TypeOK
<1>1. IInv => TypeOK
  BY DEF IInv
<1> QED
  BY InitIInv, NextIInv, <1>1, PTL DEF Spec

\* Migration may force the version below a dirty one without a look at the
\* tables: they are all there.
THEOREM RowsStayTrue == Spec => []RowsAreTrue
<1>1. IInv => RowsAreTrue
  BY DEF IInv
<1> QED
  BY InitIInv, NextIInv, <1>1, PTL DEF Spec

\* main() serves over a migrated authorization database only, with any number of
\* attempts, faults and restarts.
THEOREM AuthStaysReady == Spec => []AuthReady
<1>1. IInv => AuthReady
  BY DEF IInv, AuthDone, AuthReady, Migrated
<1> QED
  BY InitIInv, NextIInv, <1>1, PTL DEF Spec

\* *counter++ without a lock loses increments and never adds any: the number of
\* migrated databases that main() logs is not too high, nor 0 after a success.
THEOREM CounterStaysBounded == Spec => []CounterIsBounded
<1>1. Counting => CounterIsBounded
  BY DEF Counting, CounterIsBounded, Counted
<1> QED
  BY InitIInv, NextIInv, InitCounting, NextCounting, <1>1, PTL DEF Spec

\* Rows are lost to interruptions of a step only, a table for each: a repair that
\* is refused and begins again further down, at any number of starts, does not go
\* on dropping.  It rests on the one bare file being the last.
THEOREM LossesStayBounded == Spec => []LossesAreBounded
<1>1. IInv /\ Paying => LossesAreBounded
  BY PaidIsBounded
<1> QED
  BY InitIInv, NextIInv, InitPaying, NextPaying, <1>1, PTL DEF Spec

-----------------------------------------------------------------------------
(* What a success means.                                                     *)

Success == {"count", "store", "done"}
DoneMigrated == \A d \in Database : job[d] \in Success => Migrated(d)

LEMMA UpEndMigrated ==
    ASSUME IInv, NEW d \in Database, UpEnd(d)
    PROVE  Migrated(d)'
<1>1. ~ dirty[d] /\ version[d] = Last[d] /\ UNCHANGED schema
  BY DEF UpEnd
<1>2. exists[d] \subseteq File(d) /\ RowIsTrue(d)
  BY LocalFacts DEF Local
<1> QED
  BY <1>1, <1>2 DEF Migrated, RowIsTrue, File, schema

LEMMA NextDoneMigrated == ASSUME IInv, DoneMigrated, [Next]_vars PROVE DoneMigrated'
<1> SUFFICES ASSUME NEW d \in Database, job'[d] \in Success PROVE Migrated(d)'
  BY DEF DoneMigrated
<1>1. ASSUME job[d] \in Success,
             version'[d] = version[d] /\ dirty'[d] = dirty[d] /\ exists'[d] = exists[d]
      PROVE  Migrated(d)'
  BY <1>1 DEF DoneMigrated, Migrated, File
<1>2. CASE UNCHANGED vars \/ \E e \in Database : Write(e)
  BY <1>1, <1>2 DEF vars, schema, Write
<1>3. CASE Main \/ StartFails \/ ListFails \/ Crash \/ \E c \in Company : Register(c)
  <2>1. UNCHANGED schema
    BY <1>3 DEF Main, Start, RetryAuth, MigrateCompanies, Serve, StartFails, ListFails,
       Crash, Register
  <2>2. job[d] \in Success
    BY <1>3 DEF Main, Start, RetryAuth, MigrateCompanies, Serve, StartFails, ListFails,
       Crash, Register, Goto, Success, IInv, TypeOK
  <2> QED
    BY <1>1, <2>1, <2>2 DEF schema
<1>4. CASE Step(d)
  <2>1. UpEnd(d)
    BY <1>4 DEF Step, ReadVersion, ForceBelow, DownRefused, DownMark, Drop, DropRefused,
       DownClean, UpRefused, UpMark, Create, CreateRefused, UpClean, Goto, Success,
       IInv, TypeOK
  <2> QED
    BY <2>1, UpEndMigrated
<1>5. ASSUME NEW e \in Database, e # d /\ Step(e)
      PROVE  Migrated(d)'
  <2>1. /\ version'[d] = version[d] /\ dirty'[d] = dirty[d] /\ exists'[d] = exists[d]
        /\ job'[d] = job[d]
    BY <1>5, StepIsLocal DEF Frame, IInv, TypeOK
  <2> QED
    BY <1>1, <2>1
<1>6. ASSUME NEW e \in Database, Count(e) \/ ReadFails(e) \/ StatementFails(e)
      PROVE  Migrated(d)'
  <2>1. UNCHANGED schema /\ job[d] \in Success
    BY <1>6 DEF Count, CountLoad, CountStore, ReadFails, StatementFails, Goto, Success,
       IInv, TypeOK
  <2> QED
    BY <1>1, <2>1 DEF schema
<1> QED
  BY <1>2, <1>3, <1>4, <1>5, <1>6 DEF Next

\* A migration that reports success has left every table of every file and a clean
\* row at the last version, in the companies' databases too: what main() counts
\* and what a registration goes on with.
THEOREM DoneIsMigrated == Spec => []DoneMigrated
<1>1. Init => DoneMigrated
  BY DEF Init, DoneMigrated, Success
<1> QED
  BY InitIInv, NextIInv, NextDoneMigrated, <1>1, PTL DEF Spec

-----------------------------------------------------------------------------
(* What Recovers rests on: a sound database stays one, on a way on which no   *)
(* statement is refused, as long as nothing fails; and each statement takes it *)
(* further.                                                                  *)

\* The bare tables that are there are below version v.
BareUpTo(d, v) == \A f \in Bare[d] : f \in exists[d] => f <= v

\* Sound, for a database in which Migration is at work.
OnTrack(d) ==
    CASE job[d] = "force" ->
            dirty[d] /\ version[d] >= 2 /\ exists[d] = 1 .. (version[d] - 1)
      [] job[d] = "down" -> version[d] >= 1 /\ exists[d] = 1 .. version[d]
      [] job[d] = "drop" -> version[d] # 0 /\ exists[d] = 1 .. Succ(version[d])
      [] job[d] = "dropped" -> version[d] # 0 /\ exists[d] = 1 .. version[d]
      [] job[d] = "create" -> BareUpTo(d, version[d] - 1)
      [] job[d] = "created" -> BareUpTo(d, version[d])
      [] job[d] = "up" -> ~ dirty[d] /\ Sound(d)
      [] OTHER -> Sound(d)

Resting == {"idle", "read", "count", "store", "done", "failed"}

LEMMA RestingOnTrack ==
    ASSUME NEW d \in Database, job[d] \in Resting
    PROVE  OnTrack(d) <=> Sound(d)
  BY DEF OnTrack, Resting

\* The repair: the table of the dirty version is not there, that of the version
\* below is dropped, and no table references it, for there is none above.
LEMMA RepairOnTrack ==
    ASSUME IInv, NEW d \in Database, OnTrack(d),
           ForceBelow(d) \/ DownMark(d) \/ Drop(d) \/ DownClean(d)
    PROVE  OnTrack(d)' /\ job'[d] # "failed"
<1>1. /\ version[d] \in Int /\ Last[d] \in Nat \ {0} /\ version[d] \in -1 .. Last[d]
      /\ Bare[d] \subseteq File(d)
  BY LocalFacts, MigrationsAssumption DEF Local, NilVersion
<1>2. CASE ForceBelow(d)
  <2>1. /\ job[d] = "force" /\ version'[d] = version[d] - 1 /\ job'[d] = "down"
        /\ exists'[d] = exists[d]
    BY <1>2 DEF ForceBelow, SetVersion, Goto, IInv, TypeOK
  <2>2. version[d] >= 2 /\ exists[d] = 1 .. (version[d] - 1)
    BY <2>1 DEF OnTrack
  <2> QED
    BY <1>1, <2>1, <2>2 DEF OnTrack
<1>3. CASE DownMark(d)
  <2>1. /\ job[d] = "down" /\ version'[d] = Prev(version[d]) /\ job'[d] = "drop"
        /\ exists'[d] = exists[d]
    BY <1>3 DEF DownMark, SetVersion, Goto, IInv, TypeOK
  <2>2. version[d] >= 1 /\ exists[d] = 1 .. version[d]
    BY <2>1 DEF OnTrack
  <2>3. Succ(version'[d]) = version[d] /\ version'[d] # 0
    BY <1>1, <2>1, <2>2 DEF Succ, Prev, NilVersion
  <2> QED
    BY <2>1, <2>2, <2>3 DEF OnTrack
<1>4. CASE Drop(d)
  <2>1. /\ job[d] = "drop" /\ version'[d] = version[d] /\ job'[d] = "dropped"
        /\ exists'[d] = exists[d] \ {Succ(version[d])}
    BY <1>4 DEF Drop, Goto, IInv, TypeOK
  <2>2. version[d] # 0 /\ exists[d] = 1 .. Succ(version[d])
    BY <2>1 DEF OnTrack
  <2>3. exists'[d] = 1 .. version[d]
    BY <1>1, <2>1, <2>2 DEF Succ, NilVersion
  <2> QED
    BY <2>1, <2>2, <2>3 DEF OnTrack
<1>5. CASE DownClean(d)
  <2>1. /\ job[d] = "dropped" /\ version'[d] = version[d] /\ job'[d] = "up"
        /\ exists'[d] = exists[d] /\ dirty'[d] = FALSE
    BY <1>5 DEF DownClean, SetVersion, Goto, IInv, TypeOK
  <2>2. version[d] # 0 /\ exists[d] = 1 .. version[d]
    BY <2>1 DEF OnTrack
  <2>3. Sound(d)'
    BY <1>1, <2>1, <2>2 DEF Sound
  <2> QED
    BY <2>1, <2>3 DEF OnTrack
<1> QED
  BY <1>2, <1>3, <1>4, <1>5

\* The way up: the tables that a file references are those of lower files, which
\* are there, and a bare file does not meet its own table.
LEMMA UpOnTrack ==
    ASSUME IInv, NEW d \in Database, OnTrack(d),
           ReadVersion(d) \/ UpEnd(d) \/ UpMark(d) \/ Create(d) \/ UpClean(d)
    PROVE  OnTrack(d)' /\ job'[d] # "failed"
<1>1. /\ version[d] \in Int /\ Last[d] \in Nat \ {0} /\ version[d] \in -1 .. Last[d]
      /\ Bare[d] \subseteq File(d) /\ dirty[d] \in BOOLEAN
  BY LocalFacts, MigrationsAssumption DEF Local, NilVersion
<1>2. \A f \in Bare[d] : f \in 1 .. Last[d]
  BY <1>1 DEF File
<1>3. CASE ReadVersion(d)
  <2>1. /\ job[d] = "read"
        /\ job'[d] = IF version[d] # NilVersion /\ dirty[d] THEN "force" ELSE "up"
        /\ version'[d] = version[d] /\ exists'[d] = exists[d] /\ dirty'[d] = dirty[d]
    BY <1>3 DEF ReadVersion, schema, Goto, IInv, TypeOK
  <2>2. Sound(d)
    BY <2>1 DEF OnTrack
  <2> QED
    BY <1>1, <2>1, <2>2 DEF OnTrack, Sound, NilVersion
<1>4. CASE UpEnd(d)
  <2>1. /\ job[d] = "up" /\ job'[d] \in {"count", "done"}
        /\ version'[d] = version[d] /\ exists'[d] = exists[d] /\ dirty'[d] = dirty[d]
    BY <1>4 DEF UpEnd, Succeeded, schema, Goto, IInv, TypeOK
  <2>2. Sound(d)
    BY <2>1 DEF OnTrack
  <2> QED
    BY <2>1, <2>2 DEF OnTrack, Sound
<1>5. CASE UpMark(d)
  <2>1. /\ job[d] = "up" /\ job'[d] = "create" /\ version'[d] = Succ(version[d])
        /\ version[d] # 0 /\ exists'[d] = exists[d]
    BY <1>5 DEF UpMark, SetVersion, Goto, IInv, TypeOK
  <2>2. \A f \in Bare[d] : f \in exists[d] => f <= version[d]
    BY <2>1 DEF OnTrack, Sound
  <2>3. \A f \in Bare[d] : f \in exists[d] => f <= Succ(version[d]) - 1
    BY <1>1, <1>2, <2>1, <2>2 DEF Succ, NilVersion
  <2> QED
    BY <2>1, <2>3 DEF OnTrack, BareUpTo
<1>6. CASE Create(d)
  <2>1. /\ job[d] = "create" /\ job'[d] = "created" /\ version'[d] = version[d]
        /\ exists'[d] = exists[d] \cup {version[d]}
    BY <1>6 DEF Create, Goto, IInv, TypeOK
  <2>2. \A f \in Bare[d] : f \in exists[d] => f <= version[d] - 1
    BY <2>1 DEF OnTrack, BareUpTo
  <2>3. \A f \in Bare[d] : f \in exists'[d] => f <= version[d]
    BY <1>1, <1>2, <2>1, <2>2
  <2> QED
    BY <2>1, <2>3 DEF OnTrack, BareUpTo
<1>7. CASE UpClean(d)
  <2>1. /\ job[d] = "created" /\ job'[d] = "up" /\ version'[d] = version[d]
        /\ exists'[d] = exists[d] /\ dirty'[d] = FALSE
    BY <1>7 DEF UpClean, SetVersion, Goto, IInv, TypeOK
  <2>2. \A f \in Bare[d] : f \in exists[d] => f <= version[d]
    BY <2>1 DEF OnTrack, BareUpTo
  <2>3. version[d] # 0
    BY <2>1 DEF IInv, Marked, File
  <2> QED
    BY <2>1, <2>2, <2>3 DEF OnTrack, Sound
<1> QED
  BY <1>3, <1>4, <1>5, <1>6, <1>7

\* What golang-migrate may refuse, it does not refuse on this way.
LEMMA NotRefused ==
    ASSUME IInv, NEW d \in Database, OnTrack(d)
    PROVE  ~ (DownRefused(d) \/ DropRefused(d) \/ UpRefused(d) \/ CreateRefused(d))
<1>1. /\ version[d] \in Int /\ Last[d] \in Nat \ {0} /\ version[d] \in -1 .. Last[d]
      /\ RowIsTrue(d) /\ Marked(d)
      /\ \A need \in Needs[d] : need \in File(d) \X File(d) /\ need[2] < need[1]
  BY LocalFacts, MigrationsAssumption DEF Local, NilVersion
<1>2. ~ DownRefused(d)
  BY <1>1 DEF DownRefused, OnTrack, File
<1>3. ~ DropRefused(d)
  <2>1. ASSUME job[d] = "drop" PROVE ~ Referenced(d, Succ(version[d]))
    <3>1. exists[d] = 1 .. Succ(version[d]) /\ Succ(version[d]) \in Int
      BY <1>1, <2>1 DEF OnTrack, Succ, NilVersion
    <3>2. ASSUME NEW g \in exists[d], <<g, Succ(version[d])>> \in Needs[d] PROVE FALSE
      <4>1. Succ(version[d]) < g
        BY <1>1, <3>2
      <4> QED
        BY <3>1, <3>2, <4>1
    <3> QED
      BY <3>2 DEF Referenced
  <2> QED
    BY <2>1 DEF DropRefused
<1>4. ~ UpRefused(d)
  BY DEF UpRefused, OnTrack, Sound
<1>5. ~ CreateRefused(d)
  <2>1. ASSUME job[d] = "create" PROVE CanCreate(d, version[d])
    <3>1. version[d] \in 1 .. Last[d] /\ 1 .. (version[d] - 1) \subseteq exists[d]
      BY <1>1, <2>1 DEF Marked, RowIsTrue, File
    <3>2. version[d] \in exists[d] => version[d] \notin Bare[d]
      BY <1>1, <2>1 DEF OnTrack, BareUpTo
    <3>3. ASSUME NEW g \in File(d), <<version[d], g>> \in Needs[d] PROVE g \in exists[d]
      <4>1. g < version[d] /\ g \in 1 .. Last[d]
        BY <1>1, <3>3 DEF File
      <4> QED
        BY <3>1, <4>1
    <3> QED
      BY <3>2, <3>3 DEF CanCreate
  <2> QED
    BY <2>1 DEF CreateRefused
<1> QED
  BY <1>2, <1>3, <1>4, <1>5

LEMMA StepOnTrack ==
    ASSUME IInv, NEW d \in Database, OnTrack(d), Step(d)
    PROVE  OnTrack(d)' /\ job'[d] # "failed"
  BY RepairOnTrack, UpOnTrack, NotRefused DEF Step

\* A database whose row and tables stay, and whose job is not touched or rests
\* before and after, is where it was.
LEMMA UntouchedOnTrack ==
    ASSUME NEW d \in Database, OnTrack(d),
           version'[d] = version[d], dirty'[d] = dirty[d], exists'[d] = exists[d],
           job'[d] = job[d] \/ (job[d] \in Resting /\ job'[d] \in Resting)
    PROVE  OnTrack(d)'
<1>1. Sound(d)' = Sound(d)
  BY DEF Sound
<1>2. CASE job'[d] = job[d]
  BY <1>1, <1>2 DEF OnTrack, BareUpTo
<1>3. CASE job[d] \in Resting /\ job'[d] \in Resting
  BY <1>1, <1>3, RestingOnTrack DEF OnTrack, Resting
<1> QED
  BY <1>2, <1>3

\* Without a fault, main() and the registrations only touch jobs at rest.
LEMMA MainAtRest ==
    ASSUME IInv, Idle, NEW d \in Database,
           Main \/ \E c \in Company : Register(c)
    PROVE  /\ UNCHANGED schema
           /\ job'[d] = job[d]
              \/ (job[d] \in Resting /\ job'[d] \in Resting \ {"failed"})
<1>1. CASE Start
  BY <1>1 DEF Start, Idle, Resting
<1>2. CASE RetryAuth
  BY <1>2, MigrationsAssumption DEF RetryAuth, Goto, Resting, IInv, TypeOK
<1>3. CASE MigrateCompanies
  BY <1>3 DEF MigrateCompanies, Idle, Resting
<1>4. CASE Serve
  BY <1>4 DEF Serve
<1>5. ASSUME NEW c \in Company, Register(c)
      PROVE  UNCHANGED schema /\ (job'[d] = job[d] \/ (job[d] = "idle" /\ job'[d] = "read"))
  BY <1>5 DEF Register, Goto, Idle, Company, IInv, TypeOK
<1> QED
  BY <1>1, <1>2, <1>3, <1>4, <1>5 DEF Main, Resting

NeverRefused ==
    \A d \in Database : OnTrack(d) /\ faults' = faults =>
        OnTrack(d)' /\ (job'[d] = "failed" => job[d] = "failed")

LEMMA NextOnTrack == ASSUME IInv, Idle, [Next]_vars PROVE NeverRefused
<1> SUFFICES ASSUME NEW d \in Database, OnTrack(d), faults' = faults
             PROVE  OnTrack(d)' /\ (job'[d] = "failed" => job[d] = "failed")
  BY DEF NeverRefused
<1>1. CASE UNCHANGED vars \/ \E e \in Database : Write(e)
  <2>1. UNCHANGED <<version, dirty, exists, job>>
    BY <1>1 DEF vars, schema, Write
  <2> QED
    BY <2>1, UntouchedOnTrack
<1>2. CASE Main \/ \E c \in Company : Register(c)
  BY <1>2, MainAtRest, UntouchedOnTrack DEF schema
<1>3. CASE Step(d)
  BY <1>3, StepOnTrack
<1>4. CASE Count(d)
  BY <1>4, UntouchedOnTrack
     DEF Count, CountLoad, CountStore, schema, Goto, Resting, IInv, TypeOK
<1>5. ASSUME NEW e \in Database, e # d, Step(e) \/ Count(e)
      PROVE  OnTrack(d)' /\ job'[d] = job[d]
  <2>1. /\ version'[d] = version[d] /\ dirty'[d] = dirty[d] /\ exists'[d] = exists[d]
        /\ job'[d] = job[d]
    BY <1>5 DEF Step, process, schema, ReadVersion, ForceBelow, DownRefused, DownMark, Drop,
           DropRefused, DownClean, UpRefused, UpEnd, UpMark, Create, CreateRefused, UpClean,
           SetVersion, Count, CountLoad, CountStore, Goto, IInv, TypeOK
  <2> QED
    BY <2>1, UntouchedOnTrack
<1>6. ~ Fault
  BY DEF Fault, IInv, TypeOK
<1> QED
  BY <1>1, <1>2, <1>3, <1>4, <1>5, <1>6
     DEF Next, ReadFails, StatementFails, StartFails, ListFails, Crash

\* A database that is sound when main() starts is on a way up on which
\* golang-migrate refuses nothing: only a new fault can make its job fail.  It
\* holds for any files, references and bare files within the assumptions.
THEOREM SoundIsNeverRefused == Spec => [][NeverRefused]_vars
<1>1. Paying => Idle
  BY DEF Paying
<1> QED
  BY InitIInv, NextIInv, InitPaying, NextPaying, NextOnTrack, <1>1, PTL DEF Spec

\* How far a job is: the repair, the files one after the other, the counter.
Travelled(d) ==
    CASE job[d] = "idle" -> 0
      [] job[d] = "read" -> 1
      [] job[d] = "force" -> 2
      [] job[d] = "down" -> 3
      [] job[d] = "drop" -> 4
      [] job[d] = "dropped" -> 5
      [] job[d] = "up" -> IF version[d] = NilVersion THEN 6 ELSE 3 * version[d] + 6
      [] job[d] = "create" -> 3 * version[d] + 4
      [] job[d] = "created" -> 3 * version[d] + 5
      [] job[d] = "count" -> 3 * Last[d] + 7
      [] job[d] = "store" -> 3 * Last[d] + 8
      [] job[d] = "done" -> 3 * Last[d] + 9
      [] job[d] = "failed" -> 3 * Last[d] + 10

Advancing == \A d \in Database : Step(d) \/ Count(d) => Travelled(d) < Travelled(d)'

\* A job that runs comes to an end: the repair undoes one version and is not gone
\* through again, and each file takes the version up for good.
THEOREM JobsAdvance == Spec => [][Advancing]_vars
<1>1. ASSUME IInv, NEW d \in Database, Step(d) \/ Count(d)
      PROVE  Travelled(d) < Travelled(d)'
  <2>1. /\ version[d] \in Int /\ Last[d] \in Nat \ {0} /\ version[d] \in -1 .. Last[d]
        /\ Marked(d)
    BY <1>1, LocalFacts DEF Local, NilVersion
  <2>2. CASE ReadVersion(d) \/ ForceBelow(d) \/ DownMark(d) \/ Drop(d) \/ DownClean(d)
    <3>1. \/ job[d] = "read" /\ job'[d] \in {"force", "up"}
          \/ job[d] = "force" /\ job'[d] = "down"
          \/ job[d] = "down" /\ job'[d] = "drop"
          \/ job[d] = "drop" /\ job'[d] = "dropped"
          \/ job[d] = "dropped" /\ job'[d] = "up"
      BY <1>1, <2>2 DEF ReadVersion, ForceBelow, DownMark, Drop, DownClean, Goto, IInv, TypeOK
    <3>2. job'[d] = "up" => version'[d] = version[d]
      BY <1>1, <2>2 DEF ReadVersion, ForceBelow, DownMark, Drop, DownClean, Goto, schema,
         SetVersion, IInv, TypeOK
    <3> QED
      BY <2>1, <3>1, <3>2 DEF Travelled, NilVersion
  <2>3. CASE DownRefused(d) \/ DropRefused(d) \/ UpRefused(d) \/ CreateRefused(d)
    <3>1. job[d] \in {"down", "drop", "up", "create"} /\ job'[d] = "failed"
      BY <1>1, <2>3 DEF DownRefused, DropRefused, UpRefused, CreateRefused, Goto, IInv, TypeOK
    <3> QED
      BY <2>1, <3>1 DEF Travelled
  <2>4. CASE UpEnd(d) \/ Count(d)
    <3>1. \/ job[d] = "up" /\ version[d] = Last[d] /\ job'[d] \in {"count", "done"}
          \/ job[d] = "count" /\ job'[d] = "store"
          \/ job[d] = "store" /\ job'[d] = "done"
      BY <1>1, <2>4 DEF UpEnd, Succeeded, Count, CountLoad, CountStore, Goto, IInv, TypeOK
    <3> QED
      BY <2>1, <3>1 DEF Travelled
  <2>5. CASE UpMark(d)
    <3>1. /\ job[d] = "up" /\ version[d] # 0 /\ job'[d] = "create"
          /\ version'[d] = Succ(version[d])
      BY <1>1, <2>5 DEF UpMark, SetVersion, Goto, IInv, TypeOK
    <3> QED
      BY <2>1, <3>1 DEF Travelled, Succ, NilVersion
  <2>6. CASE Create(d) \/ UpClean(d)
    <3>1. /\ version'[d] = version[d] /\ version[d] \in 1 .. Last[d]
          /\ \/ job[d] = "create" /\ job'[d] = "created"
             \/ job[d] = "created" /\ job'[d] = "up"
      BY <1>1, <2>1, <2>6 DEF Create, UpClean, SetVersion, Goto, Marked, File, IInv, TypeOK
    <3> QED
      BY <2>1, <3>1 DEF Travelled, NilVersion
  <2> QED
    BY <1>1, <2>2, <2>3, <2>4, <2>5, <2>6 DEF Step
<1>2. ASSUME IInv, [Next]_vars PROVE Advancing
  BY <1>1, <1>2 DEF Advancing
<1> QED
  BY InitIInv, NextIInv, <1>2, PTL DEF Spec
=============================================================================
