-------------------------------- MODULE Pools --------------------------------
(* The pools of dbservice: one map from connection strings to pools of       *)
(* connections (sql.DB), which all calls share and none of them locks.       *)
(*                                                                           *)
(* A call looks its pool up and pings it; when the ping fails it removes the *)
(* entry, closes the pool and opens another one.  The steps of several calls *)
(* interleave.  Pools and PostgreSQL are external: sql.Open connects nobody, *)
(* a ping needs an open pool and the server.                                 *)
EXTENDS Naturals, FiniteSets

CONSTANTS
    Call,         \* handlers that use a pool, one call at a time each
    Key,          \* connection strings of the databases
    AuthKey,      \* that of the authorization database
    AuthName,     \* its name: a second key that the start-up gives its pool
    Pool,         \* pools that the model may open, its bound
    MaxFaults,    \* bound on stops of the server and of dbservice
    None

ASSUME PoolsAssumption ==
    /\ AuthKey \in Key /\ AuthName \notin Key
    /\ None \notin Pool /\ None \notin Key
    /\ MaxFaults \in Nat

VARIABLES
    MapDB,        \* the map, None where it has no entry
    keyOf,        \* the key that a pool was opened for; None: not opened yet
    open,         \* pools that are open
    stage,        \* where a call is
    key,          \* the database it asks for
    db,           \* the pool it has in hand
    crossed,      \* keys over which two runs of GetDb have overlapped (history)
    raced,        \* keys that an access missed because of a data race (history)
    up,           \* the server answers
    faults

vars == <<MapDB, keyOf, open, stage, key, db, crossed, raced, up, faults>>

Stage == {"idle", "ping", "delete", "close", "open", "store", "use"}
Inside == {"ping", "delete", "close", "open", "store"}

TypeOK ==
    /\ MapDB \in [Key \cup {AuthName} -> Pool \cup {None}]
    /\ keyOf \in [Pool -> Key \cup {None}]
    /\ open \subseteq {p \in Pool : keyOf[p] # None}
    /\ stage \in [Call -> Stage]
    /\ key \in [Call -> Key \cup {None}]
    /\ db \in [Call -> Pool \cup {None}]
    /\ \A c \in Call : stage[c] # "idle" => key[c] # None
    /\ \A c \in Call : stage[c] \notin {"idle", "open"} => db[c] # None
    /\ crossed \subseteq Key /\ raced \subseteq Key
    /\ up \in BOOLEAN
    /\ faults \in 0 .. MaxFaults

\* initDB: nothing else runs yet.  Whatever attempt succeeds, the pool that it
\* got is the only one, under two keys.
Booted(p) ==
    [k \in Key \cup {AuthName} |-> IF k \in {AuthKey, AuthName} THEN p ELSE None]

Init ==
    \E p \in Pool :
        /\ MapDB = Booted(p)
        /\ keyOf = [q \in Pool |-> IF q = p THEN AuthKey ELSE None]
        /\ open = {p}
        /\ stage = [c \in Call |-> "idle"]
        /\ key = [c \in Call |-> None]
        /\ db = [c \in Call |-> None]
        /\ crossed = {} /\ raced = {}
        /\ up = TRUE
        /\ faults = 0

-----------------------------------------------------------------------------
(* GetDb. *)

Goto(c, s) == stage' = [stage EXCEPT ![c] = s]
world == <<up, faults>>
history == <<crossed, raced>>

\* A data race: while another call writes to the map, a read may miss an entry
\* that is there, and a write may be lost.
Raced(c) == \E d \in Call \ {c} : stage[d] \in {"delete", "store"}
Write(c, p) ==
    \/ /\ MapDB' = [MapDB EXCEPT ![key[c]] = p]
       /\ UNCHANGED raced
    \/ /\ Raced(c)
       /\ raced' = raced \cup {key[c]}
       /\ UNCHANGED MapDB

Enter(c, k) ==
    /\ stage[c] = "idle"
    /\ key' = [key EXCEPT ![c] = k]
    /\ crossed' = IF \E d \in Call : stage[d] \in Inside /\ key[d] = k
                    THEN crossed \cup {k} ELSE crossed
    /\ UNCHANGED <<MapDB, keyOf, open, world>>

GetDb(c, k) ==
    /\ Enter(c, k)
    /\ MapDB[k] # None
    /\ Goto(c, "ping")
    /\ db' = [db EXCEPT ![c] = MapDB[k]]
    /\ UNCHANGED raced

GetDbMiss(c, k) ==
    /\ Enter(c, k)
    /\ MapDB[k] = None \/ Raced(c)
    /\ Goto(c, "open")
    /\ raced' = IF MapDB[k] = None THEN raced ELSE raced \cup {k}
    /\ UNCHANGED db

Ping(c) ==
    /\ stage[c] = "ping"
    /\ up /\ db[c] \in open
    /\ Goto(c, "use")
    /\ UNCHANGED <<MapDB, keyOf, open, key, db, history, world>>

PingFails(c) ==
    /\ stage[c] = "ping"
    /\ ~ up \/ db[c] \notin open
    /\ Goto(c, "delete")
    /\ UNCHANGED <<MapDB, keyOf, open, key, db, history, world>>

\* Mutant: the closed pool stays until the new one replaces it.
DeleteLeft(c) ==
    /\ stage[c] = "delete"
    /\ Goto(c, "close")
    /\ UNCHANGED <<MapDB, keyOf, open, key, db, history, world>>

\* The entry is removed, whichever pool it names by now.
Delete(c) ==
    /\ stage[c] = "delete"
    /\ Write(c, None)
    /\ Goto(c, "close")
    /\ UNCHANGED <<keyOf, open, key, db, crossed, world>>

\* Other calls may be using the pool.
Close(c) ==
    /\ stage[c] = "close"
    /\ open' = open \ {db[c]}
    /\ Goto(c, "open")
    /\ db' = [db EXCEPT ![c] = None]
    /\ UNCHANGED <<MapDB, keyOf, key, history, world>>

Open(c) ==
    /\ stage[c] = "open"
    /\ \E p \in Pool :
          /\ keyOf[p] = None
          /\ keyOf' = [keyOf EXCEPT ![p] = key[c]]
          /\ open' = open \cup {p}
          /\ db' = [db EXCEPT ![c] = p]
    /\ Goto(c, "store")
    /\ UNCHANGED <<MapDB, key, history, world>>

Return(c) ==
    /\ Goto(c, "idle")
    /\ key' = [key EXCEPT ![c] = None]
    /\ db' = [db EXCEPT ![c] = None]

\* Mutant: the error of sql.Open is ignored.
OpenFailsOn(c) ==
    /\ stage[c] = "open"
    /\ Goto(c, "store")
    /\ UNCHANGED <<MapDB, keyOf, open, key, db, history, world>>

\* The connection string does not parse.
OpenFails(c) ==
    /\ stage[c] = "open"
    /\ Return(c)
    /\ UNCHANGED <<MapDB, keyOf, open, history, world>>

Store(c) ==
    /\ stage[c] = "store"
    /\ Write(c, db[c])
    /\ Goto(c, "use")
    /\ UNCHANGED <<keyOf, open, key, db, crossed, world>>

\* The handler returns; no handler closes the pool.
Finish(c) ==
    /\ stage[c] = "use"
    /\ Return(c)
    /\ UNCHANGED <<MapDB, keyOf, open, history, world>>

-----------------------------------------------------------------------------
Fault == faults < MaxFaults /\ faults' = faults + 1

ServerStops ==
    /\ up
    /\ Fault
    /\ up' = FALSE
    /\ UNCHANGED <<MapDB, keyOf, open, stage, key, db, history>>
ServerStarts ==
    /\ ~ up
    /\ up' = TRUE
    /\ UNCHANGED <<MapDB, keyOf, open, stage, key, db, history, faults>>

\* dbservice stops and is started again.  It may stop at any time, and does when
\* Go notices that one call reads or writes the map while another writes to it.
Restart ==
    /\ up
    /\ Fault
    /\ \E p \in Pool :
          /\ keyOf[p] = None
          /\ MapDB' = Booted(p)
          /\ keyOf' = [keyOf EXCEPT ![p] = AuthKey]
          /\ open' = {p}
    /\ stage' = [c \in Call |-> "idle"]
    /\ key' = [c \in Call |-> None]
    /\ db' = [c \in Call |-> None]
    /\ crossed' = {} /\ raced' = {}
    /\ UNCHANGED up

Next ==
    \/ \E c \in Call :
          \/ (\E k \in Key : GetDb(c, k) \/ GetDbMiss(c, k))
          \/ Ping(c) \/ PingFails(c) \/ Delete(c) \/ Close(c)
          \/ Open(c) \/ OpenFails(c) \/ Store(c) \/ Finish(c)
    \/ ServerStops \/ ServerStarts \/ Restart

Spec == Init /\ [][Next]_vars

-----------------------------------------------------------------------------
OpenFor(k) == {p \in open : keyOf[p] = k}
Storing(k) == {db[c] : c \in {d \in Call : stage[d] = "store" /\ key[d] = k}}
Closing(k) == {db[c] : c \in {d \in Call : stage[d] = "close" /\ key[d] = k}}

\* What the calls can rely on without a lock (GetDb): unless a race has lost an
\* access to its entry, the map never leads to a pool that was closed or that
\* belongs to another database, whatever calls remove and store the entry; and
\* a pool is left behind, open and in no entry, only where two runs of GetDb for
\* its database have overlapped.
MapIsSound ==
    \A k \in Key \ raced :
        /\ MapDB[k] # None => MapDB[k] \in OpenFor(k)
        /\ k \notin crossed => OpenFor(k) \subseteq {MapDB[k]} \cup Storing(k) \cup Closing(k)
=============================================================================
