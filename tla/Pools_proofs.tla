---------------------------- MODULE Pools_proofs -----------------------------
(* Proofs about the map of pools, for any calls, databases and pools.        *)
EXTENDS Pools, TLAPS

-----------------------------------------------------------------------------
(* The inductive invariant. *)

Holding == {"ping", "delete", "close", "store", "use"}

\* A pool in the map or in a call's hand was opened for the key in question; the
\* other calls hold none.
Mapped == \A k \in Key : MapDB[k] # None => keyOf[MapDB[k]] = k
Hand ==
    \A c \in Call : IF stage[c] \in Holding THEN keyOf[db[c]] = key[c] ELSE db[c] = None

\* A pool that is about to be stored is open, and nobody else knows it.
Unstored ==
    \A c \in Call : stage[c] = "store" =>
        /\ db[c] \in open
        /\ \A k \in Key : MapDB[k] # db[c]
        /\ \A d \in Call \ {c} : db[d] # db[c]

\* A pool that is about to be closed is in the map no more.
Removed ==
    \A c \in Call : stage[c] = "close" /\ key[c] \notin raced => MapDB[key[c]] # db[c]

\* Over a key that is not crossed there is one call, ...
Alone ==
    \A c, d \in Call :
        /\ stage[c] \in Inside /\ stage[d] \in Inside
        /\ key[c] = key[d] /\ key[c] \notin crossed
        => c = d

\* ... and what it has read of the map is still true.
InStep ==
    \A c \in Call : key[c] \notin crossed \cup raced =>
        /\ stage[c] \in {"ping", "delete"} => MapDB[key[c]] = db[c]
        /\ stage[c] \in {"close", "open", "store"} => MapDB[key[c]] = None

IInv == TypeOK /\ Mapped /\ Hand /\ Unstored /\ Removed /\ Alone /\ InStep /\ MapIsSound

-----------------------------------------------------------------------------
LEMMA BootedIsSound ==
    ASSUME NEW p \in Pool,
           MapDB = Booted(p), open = {p}, keyOf \in [Pool -> Key \cup {None}],
           keyOf[p] = AuthKey
    PROVE  Mapped /\ \A k \in Key : (MapDB[k] # None => MapDB[k] \in OpenFor(k))
                                 /\ OpenFor(k) \subseteq {MapDB[k]}
  BY PoolsAssumption DEF Booted, Mapped, OpenFor

LEMMA InitIInv == Init => IInv
<1>1. SUFFICES ASSUME NEW p \in Pool,
                      MapDB = Booted(p),
                      keyOf = [q \in Pool |-> IF q = p THEN AuthKey ELSE None],
                      open = {p},
                      stage = [c \in Call |-> "idle"], key = [c \in Call |-> None],
                      db = [c \in Call |-> None], crossed = {}, raced = {},
                      up = TRUE, faults = 0
               PROVE  IInv
  BY DEF Init
<1>2. TypeOK
  BY <1>1, PoolsAssumption DEF TypeOK, Booted, Stage
<1>3. keyOf[p] = AuthKey /\ keyOf \in [Pool -> Key \cup {None}]
  BY <1>1, <1>2 DEF TypeOK
<1>4. Mapped /\ MapIsSound
  BY <1>1, <1>3, BootedIsSound DEF MapIsSound
<1>5. Hand /\ Unstored /\ Removed /\ Alone /\ InStep
  BY <1>1 DEF Hand, Holding, Unstored, Removed, Alone, Inside, InStep
<1> QED
  BY <1>2, <1>4, <1>5 DEF IInv

LEMMA RestartIInv == ASSUME IInv, Restart PROVE IInv'
<1>1. PICK p \in Pool : /\ keyOf[p] = None
                        /\ MapDB' = Booted(p)
                        /\ keyOf' = [keyOf EXCEPT ![p] = AuthKey]
                        /\ open' = {p}
  BY DEF Restart
<1>2. TypeOK'
  BY <1>1, PoolsAssumption DEF IInv, TypeOK, Restart, Fault, Booted, Stage
<1>3. keyOf'[p] = AuthKey
  BY <1>1 DEF IInv, TypeOK
<1>4. Mapped' /\ MapIsSound'
  BY <1>1, <1>2, <1>3, PoolsAssumption
     DEF Mapped, MapIsSound, OpenFor, Booted, TypeOK
<1>5. Hand' /\ Unstored' /\ Removed' /\ Alone' /\ InStep'
  BY DEF Restart, Hand, Holding, Unstored, Removed, Alone, Inside, InStep
<1> QED
  BY <1>2, <1>4, <1>5 DEF IInv

\* A step that leaves the map and the pools alone keeps what is said of them, as
\* long as no call leaves "store" or "close".
LEMMA QuietIsSound ==
    ASSUME MapIsSound, UNCHANGED <<MapDB, keyOf, open>>,
           crossed \subseteq crossed', raced \subseteq raced',
           \A k \in Key : Storing(k) \subseteq Storing(k)' /\ Closing(k) \subseteq Closing(k)'
    PROVE  MapIsSound'
  BY DEF MapIsSound, OpenFor

LEMMA EnterIInv ==
    ASSUME IInv, NEW c \in Call, NEW k \in Key, GetDb(c, k) \/ GetDbMiss(c, k)
    PROVE  IInv'
<1>1. /\ UNCHANGED <<MapDB, keyOf, open>>
      /\ crossed \subseteq crossed' /\ raced \subseteq raced'
      /\ stage[c] = "idle" /\ stage'[c] \in {"ping", "open"} /\ key'[c] = k
      /\ \A d \in Call \ {c} : stage'[d] = stage[d] /\ key'[d] = key[d] /\ db'[d] = db[d]
  BY DEF IInv, TypeOK, GetDb, GetDbMiss, Enter, Goto
<1>2. /\ stage'[c] = "ping" => db'[c] = MapDB[k] /\ MapDB[k] \in Pool
      /\ stage'[c] = "open" /\ k \notin raced' => MapDB[k] = None
  BY DEF IInv, TypeOK, GetDb, GetDbMiss, Enter, Goto
<1>3. TypeOK'
  <2>1. /\ stage' \in [Call -> Stage] /\ key' \in [Call -> Key \cup {None}]
        /\ db' \in [Call -> Pool \cup {None}]
        /\ crossed' \subseteq Key /\ raced' \subseteq Key
        /\ up' \in BOOLEAN /\ faults' \in 0 .. MaxFaults
    BY DEF IInv, TypeOK, GetDb, GetDbMiss, Enter, Goto, Stage, world
  <2>2. /\ \A d \in Call : stage'[d] # "idle" => key'[d] # None
        /\ \A d \in Call : stage'[d] \notin {"idle", "open"} => db'[d] # None
    BY <1>1, <1>2, PoolsAssumption DEF IInv, TypeOK
  <2>3. /\ MapDB' \in [Key \cup {AuthName} -> Pool \cup {None}]
        /\ keyOf' \in [Pool -> Key \cup {None}]
        /\ open' \subseteq {p \in Pool : keyOf'[p] # None}
    BY <1>1 DEF IInv, TypeOK
  <2> QED
    BY <2>1, <2>2, <2>3 DEF TypeOK
<1>4. Mapped' /\ Removed'
  BY <1>1 DEF IInv, Mapped, Removed
<1>5. Hand'
  <2>1. /\ keyOf'[MapDB[k]] = k \/ stage'[c] # "ping"
        /\ stage'[c] = "open" => db'[c] = None
    BY <1>1, <1>2, PoolsAssumption DEF IInv, Mapped, Hand, Holding, GetDb, GetDbMiss, Goto, TypeOK
  <2> QED
    BY <1>1, <1>2, <2>1 DEF IInv, Hand, Holding
<1>6. Unstored'
  <2>1. \A d \in Call : stage'[d] = "store" => d # c /\ stage[d] = "store" /\ db'[d] # db'[c]
    <3>1. db'[c] = db[c] \/ db'[c] = MapDB[k]
      BY DEF GetDb, GetDbMiss, Enter, IInv, TypeOK
    <3> QED
      BY <1>1, <3>1 DEF IInv, Unstored
  <2> QED
    BY <1>1, <2>1 DEF IInv, Unstored
<1>7. Alone'
  <2>1. \A d \in Call \ {c} : stage[d] \in Inside /\ key[d] = k => k \in crossed'
    BY DEF GetDb, GetDbMiss, Enter
  <2> QED
    BY <1>1, <2>1 DEF IInv, Alone
<1>8. InStep'
  BY <1>1, <1>2 DEF IInv, InStep
<1>9. \A j \in Key : Storing(j) \subseteq Storing(j)' /\ Closing(j) \subseteq Closing(j)'
  BY <1>1 DEF Storing, Closing
<1>10. MapIsSound'
  BY <1>1, <1>9, QuietIsSound DEF IInv
<1> QED
  BY <1>3, <1>4, <1>5, <1>6, <1>7, <1>8, <1>10 DEF IInv

\* A ping, and the end of a call.
LEMMA PassIInv ==
    ASSUME IInv, NEW c \in Call, Ping(c) \/ PingFails(c)
    PROVE  IInv'
<1>1. TypeOK'
  BY DEF IInv, TypeOK, Ping, PingFails, Goto, Stage, world, history
<1>2. /\ UNCHANGED <<MapDB, keyOf, open, key, db, crossed, raced>>
      /\ stage[c] = "ping" /\ stage'[c] \in {"use", "delete"}
      /\ \A d \in Call \ {c} : stage'[d] = stage[d]
  BY DEF IInv, TypeOK, Ping, PingFails, Goto, history
<1>3. Mapped' /\ Hand' /\ Unstored' /\ Removed' /\ Alone' /\ InStep'
  BY <1>2 DEF IInv, Mapped, Hand, Holding, Unstored, Removed, Alone, Inside, InStep
<1>4. \A j \in Key : Storing(j) \subseteq Storing(j)' /\ Closing(j) \subseteq Closing(j)'
  BY <1>2 DEF Storing, Closing
<1>5. MapIsSound'
  BY <1>2, <1>4, QuietIsSound DEF IInv
<1> QED
  BY <1>1, <1>3, <1>5 DEF IInv

LEMMA ReturnIInv ==
    ASSUME IInv, NEW c \in Call, OpenFails(c) \/ Finish(c)
    PROVE  IInv'
<1>1. TypeOK'
  BY DEF IInv, TypeOK, OpenFails, Finish, Return, Goto, Stage, world, history
<1>2. /\ UNCHANGED <<MapDB, keyOf, open, crossed, raced>>
      /\ stage[c] \in {"open", "use"} /\ stage'[c] = "idle" /\ db'[c] = None
      /\ \A d \in Call \ {c} : stage'[d] = stage[d] /\ key'[d] = key[d] /\ db'[d] = db[d]
  BY DEF IInv, TypeOK, OpenFails, Finish, Return, Goto, history
<1>3. \A d \in Call : stage[d] = "store" => db[d] # None
  BY DEF IInv, TypeOK
<1>4. Mapped' /\ Hand' /\ Unstored' /\ Removed' /\ Alone' /\ InStep'
  BY <1>2, <1>3 DEF IInv, Mapped, Hand, Holding, Unstored, Removed, Alone, Inside, InStep
<1>5. \A j \in Key : Storing(j) \subseteq Storing(j)' /\ Closing(j) \subseteq Closing(j)'
  BY <1>2 DEF Storing, Closing
<1>6. MapIsSound'
  BY <1>2, <1>5, QuietIsSound DEF IInv
<1> QED
  BY <1>1, <1>4, <1>6 DEF IInv

-----------------------------------------------------------------------------
(* The steps that change the map or the pools. *)

\* A key for which somebody is inside GetDb and which is not crossed has no other
\* call inside.
LEMMA NobodyElse ==
    ASSUME IInv, NEW c \in Call, stage[c] \in Inside, key[c] \notin crossed
    PROVE  \A d \in Call : stage[d] \in Inside /\ key[d] = key[c] => d = c
  BY DEF IInv, Alone

LEMMA DeleteIInv == ASSUME IInv, NEW c \in Call, Delete(c) PROVE IInv'
<1>1. /\ UNCHANGED <<keyOf, open, key, db, crossed>>
      /\ stage[c] = "delete" /\ stage'[c] = "close" /\ key[c] \in Key
      /\ \A d \in Call \ {c} : stage'[d] = stage[d]
      /\ raced \subseteq raced'
      /\ \A k \in Key : MapDB'[k] = MapDB[k] \/ (k = key[c] /\ MapDB'[k] = None)
      /\ key[c] \in raced' \/ MapDB'[key[c]] = None
  BY DEF IInv, TypeOK, Delete, Write, Goto
<1>2. TypeOK'
  <2>1. /\ stage' \in [Call -> Stage] /\ raced' \subseteq Key
        /\ MapDB' \in [Key \cup {AuthName} -> Pool \cup {None}]
        /\ up' \in BOOLEAN /\ faults' \in 0 .. MaxFaults
    BY <1>1 DEF IInv, TypeOK, Delete, Write, Goto, Stage, world
  <2> QED
    BY <1>1, <2>1 DEF IInv, TypeOK
<1>3. Mapped' /\ Hand'
  BY <1>1 DEF IInv, Mapped, Hand, Holding
<1>4. db[c] # None
  BY <1>1 DEF IInv, TypeOK
<1>5. Removed'
  BY <1>1, <1>4 DEF IInv, TypeOK, Removed
<1>6. Unstored'
  <2>1. \A d \in Call : stage[d] = "store" => db[d] # None
    BY DEF IInv, TypeOK
  <2> QED
    BY <1>1, <2>1 DEF IInv, Unstored
<1>7. Alone'
  BY <1>1 DEF IInv, Alone, Inside
<1>8. InStep'
  <2>1. \A d \in Call \ {c} : stage[d] \in Inside /\ key[d] = key[c] => key[c] \in crossed
    BY <1>1, NobodyElse DEF Inside
  <2> QED
    BY <1>1, <2>1 DEF IInv, TypeOK, InStep, Inside
<1>9. MapIsSound'
  <2> SUFFICES ASSUME NEW k \in Key \ raced'
               PROVE  /\ MapDB'[k] # None => MapDB'[k] \in OpenFor(k)'
                      /\ k \notin crossed' =>
                           OpenFor(k)' \subseteq {MapDB'[k]} \cup Storing(k)' \cup Closing(k)'
    BY DEF MapIsSound
  <2>1. OpenFor(k)' = OpenFor(k)
    BY <1>1 DEF OpenFor
  <2>2. Storing(k) \subseteq Storing(k)' /\ Closing(k) \subseteq Closing(k)'
    BY <1>1 DEF Storing, Closing
  <2>3. MapDB'[k] = MapDB[k] \/ MapDB'[k] = None
    BY <1>1
  <2>4. k \notin crossed /\ k = key[c] => MapDB[k] \in Closing(k)'
    BY <1>1 DEF IInv, InStep, Closing
  <2> QED
    BY <1>1, <2>1, <2>2, <2>3, <2>4 DEF IInv, MapIsSound
<1> QED
  BY <1>2, <1>3, <1>5, <1>6, <1>7, <1>8, <1>9 DEF IInv

LEMMA CloseIInv == ASSUME IInv, NEW c \in Call, Close(c) PROVE IInv'
<1>1. /\ UNCHANGED <<MapDB, keyOf, key, crossed, raced>>
      /\ stage[c] = "close" /\ stage'[c] = "open" /\ db'[c] = None /\ key[c] \in Key
      /\ \A d \in Call \ {c} : stage'[d] = stage[d] /\ db'[d] = db[d]
      /\ open' = open \ {db[c]}
  BY DEF IInv, TypeOK, Close, Goto, history
<1>2. TypeOK'
  <2>1. stage' \in [Call -> Stage] /\ db' \in [Call -> Pool \cup {None}]
    BY DEF IInv, TypeOK, Close, Goto, Stage
  <2> QED
    BY <1>1, <2>1 DEF IInv, TypeOK, Close, world
<1>3. Mapped' /\ Hand' /\ Removed'
  BY <1>1 DEF IInv, Mapped, Hand, Holding, Removed
<1>4. keyOf[db[c]] = key[c] /\ db[c] # None
  BY <1>1 DEF IInv, TypeOK, Hand, Holding
<1>5. Unstored'
  <2>1. \A d \in Call : stage'[d] = "store" => d # c /\ db[d] # db[c] /\ db[d] # None
    BY <1>1 DEF IInv, TypeOK, Unstored
  <2> QED
    BY <1>1, <2>1 DEF IInv, Unstored
<1>6. Alone'
  BY <1>1 DEF IInv, Alone, Inside
<1>7. InStep'
  BY <1>1 DEF IInv, InStep
<1>8. MapIsSound'
  <2> SUFFICES ASSUME NEW k \in Key \ raced
               PROVE  /\ MapDB[k] # None => MapDB[k] \in OpenFor(k)'
                      /\ k \notin crossed =>
                           OpenFor(k)' \subseteq {MapDB[k]} \cup Storing(k)' \cup Closing(k)'
    BY <1>1 DEF MapIsSound
  <2>1. OpenFor(k)' = OpenFor(k) \ {db[c]}
    BY <1>1 DEF OpenFor
  <2>2. Storing(k) \subseteq Storing(k)' /\ Closing(k) \ {db[c]} \subseteq Closing(k)'
    BY <1>1 DEF Storing, Closing
  <2>3. MapDB[k] # None => MapDB[k] # db[c]
    BY <1>1, <1>4 DEF IInv, Mapped, Removed
  <2> QED
    BY <2>1, <2>2, <2>3 DEF IInv, MapIsSound
<1> QED
  BY <1>2, <1>3, <1>5, <1>6, <1>7, <1>8 DEF IInv

LEMMA OpenIInv == ASSUME IInv, NEW c \in Call, Open(c) PROVE IInv'
<1>1. PICK p \in Pool : /\ keyOf[p] = None
                        /\ keyOf' = [keyOf EXCEPT ![p] = key[c]]
                        /\ open' = open \cup {p}
                        /\ db' = [db EXCEPT ![c] = p]
  BY DEF Open
<1>2. /\ UNCHANGED <<MapDB, key, crossed, raced, up, faults>>
      /\ stage[c] = "open" /\ stage'[c] = "store" /\ key[c] \in Key /\ db'[c] = p
      /\ \A d \in Call \ {c} : stage'[d] = stage[d] /\ db'[d] = db[d]
      /\ keyOf'[p] = key[c] /\ \A q \in Pool \ {p} : keyOf'[q] = keyOf[q]
  BY <1>1 DEF IInv, TypeOK, Open, Goto, history, world
<1>3. p # None /\ p \notin open
  BY <1>1, PoolsAssumption DEF IInv, TypeOK
<1>4. /\ \A k \in Key : MapDB[k] # p
      /\ \A d \in Call : db[d] # p
  <2>1. \A d \in Call : stage[d] \in Holding => key[d] # None
    BY DEF IInv, TypeOK, Holding
  <2> QED
    BY <1>1, <1>3, <2>1, PoolsAssumption DEF IInv, Mapped, Hand
<1>5. TypeOK'
  <2>1. /\ stage' \in [Call -> Stage] /\ db' \in [Call -> Pool \cup {None}]
        /\ keyOf' \in [Pool -> Key \cup {None}]
    BY <1>1, <1>2 DEF IInv, TypeOK, Open, Goto, Stage
  <2> QED
    BY <1>1, <1>2, <1>3, <2>1, PoolsAssumption DEF IInv, TypeOK
<1>6. \A k \in Key : MapDB[k] # None => MapDB[k] \in Pool \ {p}
  BY <1>4 DEF IInv, TypeOK
<1>7. Mapped'
  BY <1>2, <1>6 DEF IInv, Mapped
<1>8. Hand'
  BY <1>2, <1>4 DEF IInv, TypeOK, Hand, Holding
<1>9. Unstored'
  BY <1>1, <1>2, <1>4 DEF IInv, Unstored
<1>10. Removed' /\ Alone' /\ InStep'
  BY <1>2 DEF IInv, Removed, Alone, Inside, InStep
<1>11. MapIsSound'
  <2> SUFFICES ASSUME NEW k \in Key \ raced
               PROVE  /\ MapDB[k] # None => MapDB[k] \in OpenFor(k)'
                      /\ k \notin crossed =>
                           OpenFor(k)' \subseteq {MapDB[k]} \cup Storing(k)' \cup Closing(k)'
    BY <1>2 DEF MapIsSound
  <2>1. OpenFor(k)' = IF k = key[c] THEN OpenFor(k) \cup {p} ELSE OpenFor(k)
    BY <1>1, <1>2, <1>3 DEF OpenFor, IInv, TypeOK
  <2>2. /\ Storing(k) \subseteq Storing(k)' /\ Closing(k) \subseteq Closing(k)'
        /\ k = key[c] => p \in Storing(k)'
    BY <1>2 DEF Storing, Closing
  <2> QED
    BY <2>1, <2>2 DEF IInv, MapIsSound
<1> QED
  BY <1>5, <1>7, <1>8, <1>9, <1>10, <1>11 DEF IInv

LEMMA StoreIInv == ASSUME IInv, NEW c \in Call, Store(c) PROVE IInv'
<1>1. /\ UNCHANGED <<keyOf, open, key, db, crossed>>
      /\ stage[c] = "store" /\ stage'[c] = "use" /\ key[c] \in Key /\ db[c] \in Pool
      /\ \A d \in Call \ {c} : stage'[d] = stage[d]
      /\ raced \subseteq raced'
      /\ \A k \in Key : MapDB'[k] = MapDB[k] \/ (k = key[c] /\ MapDB'[k] = db[c])
      /\ key[c] \in raced' \/ MapDB'[key[c]] = db[c]
  BY DEF IInv, TypeOK, Store, Write, Goto
<1>2. TypeOK'
  <2>1. /\ stage' \in [Call -> Stage] /\ raced' \subseteq Key
        /\ MapDB' \in [Key \cup {AuthName} -> Pool \cup {None}]
        /\ up' \in BOOLEAN /\ faults' \in 0 .. MaxFaults
    BY <1>1 DEF IInv, TypeOK, Store, Write, Goto, Stage, world
  <2> QED
    BY <1>1, <2>1 DEF IInv, TypeOK
<1>3. /\ keyOf[db[c]] = key[c] /\ db[c] \in open
      /\ \A d \in Call \ {c} : db[d] # db[c]
  BY <1>1 DEF IInv, Hand, Holding, Unstored
<1>4. Mapped' /\ Hand'
  BY <1>1, <1>3 DEF IInv, Mapped, Hand, Holding
<1>5. Unstored'
  BY <1>1, <1>3 DEF IInv, Unstored
<1>6. Removed'
  BY <1>1, <1>3 DEF IInv, TypeOK, Removed
<1>7. Alone'
  BY <1>1 DEF IInv, Alone, Inside
<1>8. \A d \in Call \ {c} : stage[d] \in Inside /\ key[d] = key[c] => key[c] \in crossed
  BY <1>1, NobodyElse DEF Inside
<1>9. InStep'
  BY <1>1, <1>8 DEF IInv, TypeOK, InStep, Inside
<1>10. MapIsSound'
  <2> SUFFICES ASSUME NEW k \in Key \ raced'
               PROVE  /\ MapDB'[k] # None => MapDB'[k] \in OpenFor(k)'
                      /\ k \notin crossed' =>
                           OpenFor(k)' \subseteq {MapDB'[k]} \cup Storing(k)' \cup Closing(k)'
    BY DEF MapIsSound
  <2>1. OpenFor(k)' = OpenFor(k) /\ None \notin OpenFor(k)
    BY <1>1, PoolsAssumption DEF OpenFor, IInv, TypeOK
  <2>2. Closing(k) \subseteq Closing(k)' /\ Storing(k) \ {db[c]} \subseteq Storing(k)'
    BY <1>1 DEF Storing, Closing
  <2>3. CASE k # key[c]
    <3>1. MapDB'[k] = MapDB[k] /\ Storing(k) \subseteq Storing(k)'
      BY <1>1, <2>3 DEF Storing
    <3> QED
      BY <1>1, <2>1, <2>2, <3>1 DEF IInv, MapIsSound
  <2>4. CASE k = key[c]
    <3>1. MapDB'[k] = db[c] /\ db[c] \in OpenFor(k)
      BY <1>1, <1>3, <2>4 DEF OpenFor
    <3>2. k \notin crossed => MapDB[k] = None
      BY <1>1, <2>4 DEF IInv, InStep
    <3> QED
      BY <1>1, <2>1, <2>2, <3>1, <3>2 DEF IInv, MapIsSound
  <2> QED
    BY <2>3, <2>4
<1> QED
  BY <1>2, <1>4, <1>5, <1>6, <1>7, <1>9, <1>10 DEF IInv

\* The server stops and starts without a change of the map.
LEMMA StillIInv ==
    ASSUME IInv,
           UNCHANGED <<MapDB, keyOf, open, stage, key, db, crossed, raced>>,
           up' \in BOOLEAN, faults' \in 0 .. MaxFaults
    PROVE  IInv'
<1>1. TypeOK' /\ Mapped' /\ Hand' /\ Unstored'
  BY DEF IInv, TypeOK, Mapped, Hand, Unstored
<1>2. Removed' /\ Alone' /\ InStep'
  BY DEF IInv, Removed, Alone, InStep
<1>3. MapIsSound'
  BY DEF IInv, MapIsSound, OpenFor, Storing, Closing
<1> QED
  BY <1>1, <1>2, <1>3 DEF IInv

LEMMA NextIInv == ASSUME IInv, [Next]_vars PROVE IInv'
<1>1. CASE UNCHANGED vars
  BY <1>1, StillIInv DEF vars, IInv, TypeOK
<1>2. CASE ServerStops \/ ServerStarts
  <2>1. up' \in BOOLEAN
    BY <1>2 DEF ServerStops, ServerStarts
  <2>2. faults' \in 0 .. MaxFaults
    BY <1>2, PoolsAssumption DEF ServerStops, ServerStarts, Fault, IInv, TypeOK
  <2> QED
    BY <1>2, <2>1, <2>2, StillIInv DEF ServerStops, ServerStarts, history
<1>3. CASE Restart
  BY <1>3, RestartIInv
<1>4. ASSUME NEW c \in Call, NEW k \in Key, GetDb(c, k) \/ GetDbMiss(c, k)
      PROVE  IInv'
  BY <1>4, EnterIInv
<1>5. ASSUME NEW c \in Call,
             \/ Ping(c) \/ PingFails(c) \/ Delete(c) \/ Close(c)
             \/ Open(c) \/ OpenFails(c) \/ Store(c) \/ Finish(c)
      PROVE  IInv'
  BY <1>5, PassIInv, DeleteIInv, CloseIInv, OpenIInv, ReturnIInv, StoreIInv
<1> QED
  BY <1>1, <1>2, <1>3, <1>4, <1>5 DEF Next

-----------------------------------------------------------------------------
\* In every state, whatever calls are inside GetDb and whatever race the map has
\* lost, a call beyond its look-up has a pool in hand and each variable its type.
THEOREM TypeCorrect == Spec => []TypeOK
<1>1. IInv => TypeOK
  BY DEF IInv
<1> QED
  BY InitIInv, NextIInv, <1>1, PTL DEF Spec

\* GetDb needs no lock for this: unless a race has lost an access to its entry,
\* the map leads to open pools of the right database only, and a pool that no
\* entry names is left open only where two runs of GetDb for its database overlap.
THEOREM MapStaysSound == Spec => []MapIsSound
<1>1. IInv => MapIsSound
  BY DEF IInv
<1> QED
  BY InitIInv, NextIInv, <1>1, PTL DEF Spec
=============================================================================
