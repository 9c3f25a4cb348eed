---------------------------- MODULE BatchUpdater ----------------------------
(***************************************************************************)
(* The batch updater: quota and usage changes are collected in memory, one *)
(* map and one mutex per type of change, and written to the database by a  *)
(* goroutine that wakes up every few seconds.                              *)
(*                                                                         *)
(*   model/utils.go   addNewRecord, batchUpdate, InitBatchUpdater          *)
(*                                                                         *)
(* addNewRecord reads and writes an entry of the map in separate steps,    *)
(* and batchUpdate takes the map and replaces it in separate steps; only   *)
(* the mutexes keep them apart.  An entry that is absent from a map counts *)
(* as 0, which adds nothing to the database.                               *)
(***************************************************************************)
EXTENDS Integers

CONSTANTS
    Writers,          \* the goroutines that call addNewRecord
    TypeCount,        \* BatchUpdateTypeCount
    Ids,              \* users, tokens or channels, according to the type
    Values,           \* the changes that may be recorded
    MaxRecords,       \* bound: records in a behaviour
    MaxCrashes,       \* bound: restarts of the process
    DbFaults,         \* whether an update of the database may fail
    Updater, Free     \* holders of a mutex other than a writer

ASSUME BatchAssumption ==
    /\ TypeCount \in Nat \ {0}
    /\ Ids # {}
    /\ Values \subseteq Int
    /\ MaxRecords \in Nat
    /\ MaxCrashes \in Nat
    /\ DbFaults \in BOOLEAN
    /\ Updater \notin Writers
    /\ Free \notin Writers \cup {Updater}

Types == 1..TypeCount

VARIABLES
    stores,           \* batchUpdateStores
    lock,             \* batchUpdateLocks
    wpc,              \* where each writer is in addNewRecord
    rec,              \* its arguments
    old,              \* the entry as it read it
    upc,              \* where batchUpdate is
    typ,              \* i, the type it is at
    batch,            \* store, the map it took
    db,               \* the columns in the database
    recorded,         \* sum of the values recorded
    lost,             \* sum of the values a crash or a failed update dropped
    records, crashes  \* how many there have been

mem  == <<stores, lock, wpc, rec, old, upc, typ, batch>>
batchVars == <<mem, db, recorded, lost, records, crashes>>

-----------------------------------------------------------------------------
Zero  == [i \in Ids |-> 0]
Zeros == [t \in Types |-> Zero]
Sums  == [Types -> [Ids -> Int]]

\* x with v in entry i of type t, and with v added to it.
Put(x, t, i, v)  == [x EXCEPT ![t] = [@ EXCEPT ![i] = v]]
Plus(x, t, i, v) == Put(x, t, i, x[t][i] + v)

BatchTypeOK ==
    /\ stores \in Sums
    /\ lock \in [Types -> Writers \cup {Updater, Free}]
    /\ wpc \in [Writers -> {"idle", "lock", "read", "write"}]
    /\ rec \in [Writers -> [type : Types, id : Ids, value : Int]]
    /\ old \in [Writers -> Int]
    /\ upc \in {"sleep", "lock", "take", "replace", "apply"}
    /\ typ \in Types
    /\ batch \in [Ids -> Int]
    /\ db \in Sums
    /\ recorded \in Sums
    /\ lost \in Sums
    /\ records \in 0..MaxRecords
    /\ crashes \in 0..MaxCrashes

BatchInit ==
    /\ stores = Zeros
    /\ lock = [t \in Types |-> Free]
    /\ wpc = [w \in Writers |-> "idle"]
    /\ upc = "sleep"
    /\ typ = 1
    /\ batch = Zero
    /\ rec = [w \in Writers |-> [type |-> 1, id |-> CHOOSE i \in Ids : TRUE, value |-> 0]]
    /\ old = [w \in Writers |-> 0]
    /\ db = Zeros
    /\ recorded = Zeros
    /\ lost = Zeros
    /\ records = 0
    /\ crashes = 0

-----------------------------------------------------------------------------
(* addNewRecord.                                                           *)

\* Seeded fault: the mutex is not waited for.
BugNoMutex(t, p) == lock' = [lock EXCEPT ![t] = p]

Lock(t, p) == lock[t] = Free /\ lock' = [lock EXCEPT ![t] = p]

Unlock(t) == lock' = [lock EXCEPT ![t] = Free]

Call(w) ==
    /\ wpc[w] = "idle"
    /\ records < MaxRecords
    /\ records' = records + 1
    /\ \E t \in Types, i \in Ids, v \in Values :
          rec' = [rec EXCEPT ![w] = [type |-> t, id |-> i, value |-> v]]
    /\ wpc' = [wpc EXCEPT ![w] = "lock"]
    /\ UNCHANGED <<stores, lock, old, upc, typ, batch, db, recorded, lost, crashes>>

LockStore(w) ==
    /\ wpc[w] = "lock"
    /\ Lock(rec[w].type, w)
    /\ wpc' = [wpc EXCEPT ![w] = "read"]
    /\ UNCHANGED <<stores, rec, old, upc, typ, batch, db, recorded, lost, records,
                   crashes>>

ReadEntry(w) ==
    /\ wpc[w] = "read"
    /\ old' = [old EXCEPT ![w] = stores[rec[w].type][rec[w].id]]
    /\ wpc' = [wpc EXCEPT ![w] = "write"]
    /\ UNCHANGED <<stores, lock, rec, upc, typ, batch, db, recorded, lost, records,
                   crashes>>

WriteEntry(w) ==
    /\ wpc[w] = "write"
    /\ LET t == rec[w].type
           i == rec[w].id
           v == rec[w].value
       IN  /\ stores' = Put(stores, t, i, old[w] + v)
           /\ recorded' = Plus(recorded, t, i, v)
           /\ Unlock(t)
    /\ wpc' = [wpc EXCEPT ![w] = "idle"]
    /\ UNCHANGED <<rec, old, upc, typ, batch, db, lost, records, crashes>>

-----------------------------------------------------------------------------
(* batchUpdate, once per interval.                                         *)

Wake ==
    /\ upc = "sleep"
    /\ upc' = "lock"
    /\ typ' = 1
    /\ UNCHANGED <<stores, lock, wpc, rec, old, batch, db, recorded, lost, records,
                   crashes>>

LockStores ==
    /\ upc = "lock"
    /\ Lock(typ, Updater)
    /\ upc' = "take"
    /\ UNCHANGED <<stores, wpc, rec, old, typ, batch, db, recorded, lost, records,
                   crashes>>

TakeStore ==
    /\ upc = "take"
    /\ batch' = stores[typ]
    /\ upc' = "replace"
    /\ UNCHANGED <<stores, lock, wpc, rec, old, typ, db, recorded, lost, records,
                   crashes>>

ReplaceStore ==
    /\ upc = "replace"
    /\ stores' = [stores EXCEPT ![typ] = Zero]
    /\ Unlock(typ)
    /\ upc' = "apply"
    /\ UNCHANGED <<wpc, rec, old, typ, batch, db, recorded, lost, records, crashes>>

\* One turn of the loop over the map, in whatever order Go picks.
Apply(i) ==
    /\ upc = "apply"
    /\ batch[i] # 0
    /\ db' = Plus(db, typ, i, batch[i])
    /\ batch' = [batch EXCEPT ![i] = 0]
    /\ UNCHANGED <<stores, lock, wpc, rec, old, upc, typ, recorded, lost, records,
                   crashes>>

\* An update that fails is logged, and its value is gone.
ApplyFails(i) ==
    /\ DbFaults
    /\ upc = "apply"
    /\ batch[i] # 0
    /\ lost' = Plus(lost, typ, i, batch[i])
    /\ batch' = [batch EXCEPT ![i] = 0]
    /\ UNCHANGED <<stores, lock, wpc, rec, old, upc, typ, db, recorded, records,
                   crashes>>

\* Seeded fault: the last type is never reached.
BugSkipsLastType == typ < TypeCount - 1

\* Seeded fault: one type too many.
BugOneTypeTooMany == typ <= TypeCount

MoreTypes == typ < TypeCount

NextType ==
    /\ upc = "apply"
    /\ batch = Zero
    /\ \/ MoreTypes /\ typ' = typ + 1 /\ upc' = "lock"
       \/ ~MoreTypes /\ typ' = typ /\ upc' = "sleep"
    /\ UNCHANGED <<stores, lock, wpc, rec, old, batch, db, recorded, lost, records,
                   crashes>>

-----------------------------------------------------------------------------
\* What batchUpdate has taken for the database and not yet written.
InFlight(t, i) == IF upc = "apply" /\ t = typ THEN batch[i] ELSE 0

\* The process dies and starts anew: what is only in memory is lost.
Crash ==
    /\ crashes < MaxCrashes
    /\ crashes' = crashes + 1
    /\ lost' = [t \in Types |-> [i \in Ids |-> lost[t][i] + stores[t][i] + InFlight(t, i)]]
    /\ stores' = Zeros
    /\ lock' = [t \in Types |-> Free]
    /\ wpc' = [w \in Writers |-> "idle"]
    /\ upc' = "sleep"
    /\ typ' = 1
    /\ batch' = Zero
    /\ UNCHANGED <<rec, old, db, recorded, records>>

WriterStep(w) == Call(w) \/ LockStore(w) \/ ReadEntry(w) \/ WriteEntry(w)

UpdaterStep ==
    \/ Wake \/ LockStores \/ TakeStore \/ ReplaceStore \/ NextType
    \/ \E i \in Ids : Apply(i) \/ ApplyFails(i)

BatchNext == (\E w \in Writers : WriterStep(w)) \/ UpdaterStep \/ Crash

BatchSpec == BatchInit /\ [][BatchNext]_batchVars

\* The goroutines run on, and a mutex is handed to whoever waits long enough.
BatchFairSpec ==
    /\ BatchSpec
    /\ WF_batchVars(UpdaterStep)
    /\ SF_batchVars(LockStores)
    /\ \A w \in Writers : WF_batchVars(ReadEntry(w) \/ WriteEntry(w)) /\ SF_batchVars(LockStore(w))

-----------------------------------------------------------------------------
(* Correctness.                                                            *)

\* No change is dropped or applied twice by the exchange of the maps, however
\* records and flushes interleave (utils.go:38-55): every value recorded is in the
\* database, in the map, on its way, or was lost to a crash or a failed update.
NothingDroppedOrDoubled ==
    \A t \in Types, i \in Ids :
        db[t][i] + stores[t][i] + InFlight(t, i) + lost[t][i] = recorded[t][i]

\* Whatever is in a map is taken from it again (utils.go:29-36, 50-54): no type
\* starves, although the updater needs each mutex in turn.
EveryRecordIsTaken ==
    \A t \in Types, i \in Ids : stores[t][i] # 0 ~> stores[t][i] = 0
=============================================================================
