------------------------------ MODULE Records ------------------------------
(***************************************************************************)
(* One node's record store under concurrent callers (records.go).          *)
(*                                                                         *)
(* A writer (Docker watcher, gossip consumer, push/pull handler) takes mu, *)
(* loads both maps, builds new ones and stores the data map, then the meta *)
(* map, in two atomic stores.  Readers take no lock: Lookup is one load,   *)
(* GetAllWithMeta two, and a store may fall between them.                  *)
(***************************************************************************)
EXTENDS RecordStore

CONSTANTS
    Writers,   \* goroutines that write
    Readers,   \* goroutines that call GetAllWithMeta
    Ops,       \* the write calls they may make
    Free,      \* mu is not held
    NoCall     \* the goroutine is in no write call

ASSUME RecordsAssumption == 
    /\ Writers \cap Readers = {}
    /\ Ops \subseteq Calls
    /\ Free \notin Writers /\ NoCall \notin Ops

VARIABLES
    data, meta,  \* the maps the two atomic.Values hold
    mu,          \* the holder of Records.mu, or Free
    pc,          \* where each goroutine is in its call
    arg,         \* the writer's call
    new,         \* the maps the writer has built
    snap,        \* the reader's data map, then its result
    done         \* history: the write calls that have returned

vars == <<data, meta, mu, pc, arg, new, snap, done>>

Current == [data |-> data, meta |-> meta]

Init ==
    /\ data = EmptyStore.data
    /\ meta = EmptyStore.meta
    /\ mu = Free
    /\ pc = [p \in Writers \cup Readers |-> "idle"]
    /\ arg = [w \in Writers |-> NoCall]
    /\ new = [w \in Writers |-> EmptyStore]
    /\ snap = [r \in Readers |-> [data |-> EmptyStore.data,
                                  full |-> Snapshot(EmptyStore.data, EmptyStore.meta)]]
    /\ done = {}
----------------------------------------------------------------------------
(* Mutant: the writer loads the maps without taking mu. *)
LockUnlocked(w, op) ==
    /\ pc[w] = "idle"
    /\ LET s == Apply(Current, op) IN
       IF s = Current
       THEN done' = done \cup {op} /\ UNCHANGED <<pc, mu, arg, new>>
       ELSE /\ pc' = [pc EXCEPT ![w] = "storeData"]
            /\ arg' = [arg EXCEPT ![w] = op]
            /\ new' = [new EXCEPT ![w] = s]
            /\ UNCHANGED <<mu, done>>
    /\ UNCHANGED <<data, meta, snap>>

(* r.mu.Lock() and the loads under it: the call either returns at once,    *)
(* leaving both maps alone, or goes on with the maps it has built.         *)
Lock(w, op) ==
    /\ pc[w] = "idle" /\ mu = Free
    /\ LET s == Apply(Current, op) IN
       IF s = Current
       THEN done' = done \cup {op} /\ UNCHANGED <<pc, mu, arg, new>>
       ELSE /\ pc' = [pc EXCEPT ![w] = "storeData"]
            /\ arg' = [arg EXCEPT ![w] = op]
            /\ mu' = w
            /\ new' = [new EXCEPT ![w] = s]
            /\ UNCHANGED done
    /\ UNCHANGED <<data, meta, snap>>

(* The deferred unlock; the call's local variables are gone. *)
Return(w) ==
    /\ mu' = Free
    /\ pc' = [pc EXCEPT ![w] = "idle"]
    /\ done' = done \cup {arg[w]}
    /\ arg' = [arg EXCEPT ![w] = NoCall]
    /\ new' = [new EXCEPT ![w] = EmptyStore]

(* r.data.Store(newData); Add and Remove return after it. *)
StoreData(w) ==
    /\ pc[w] = "storeData"
    /\ data' = new[w].data
    /\ IF Plain(arg[w])
       THEN Return(w)
       ELSE /\ pc' = [pc EXCEPT ![w] = "storeMeta"]
            /\ UNCHANGED <<mu, arg, new, done>>
    /\ UNCHANGED <<meta, snap>>

(* r.meta.Store(newMeta), after which the call returns. *)
StoreMeta(w) ==
    /\ pc[w] = "storeMeta"
    /\ meta' = new[w].meta
    /\ Return(w)
    /\ UNCHANGED <<data, snap>>

(* GetAllWithMeta: currentData := r.data.Load() *)
LoadData(r) ==
    /\ pc[r] = "idle"
    /\ snap' = [snap EXCEPT ![r] = [data |-> data, full |-> snap[r].full]]
    /\ pc' = [pc EXCEPT ![r] = "loadMeta"]
    /\ UNCHANGED <<data, meta, mu, arg, new, done>>

(* GetAllWithMeta: currentMeta := r.meta.Load(), and the result. *)
LoadMeta(r) ==
    /\ pc[r] = "loadMeta"
    /\ snap' = [snap EXCEPT ![r] = [data |-> EmptyStore.data,
                                    full |-> Snapshot(snap[r].data, meta)]]
    /\ pc' = [pc EXCEPT ![r] = "idle"]
    /\ UNCHANGED <<data, meta, mu, arg, new, done>>

Next ==
    \/ \E w \in Writers, op \in Ops : Lock(w, op)
    \/ \E w \in Writers : StoreData(w)
    \/ \E w \in Writers : StoreMeta(w)
    \/ \E r \in Readers : LoadData(r)
    \/ \E r \in Readers : LoadMeta(r)

Spec == Init /\ [][Next]_vars
----------------------------------------------------------------------------
(* Every variable holds values of its Go type: keys are lowercased, a      *)
(* snapshot entry always carries a RecordMeta.                             *)
TypeOK ==
    /\ data \in DataMaps
    /\ meta \in MetaMaps
    /\ mu \in Writers \cup {Free}
    /\ pc \in [Writers \cup Readers -> {"idle", "storeData", "storeMeta", "loadMeta"}]
    /\ arg \in [Writers -> Ops \cup {NoCall}]
    /\ new \in [Writers -> Stores]
    /\ snap \in [Readers -> [data : DataMaps, full : FullStates]]
    /\ done \subseteq Ops

(* The call on host k that w is in the middle of, or that has returned. *)
CallsOn(k) ==
    {op \in done \cup {arg[w] : w \in {v \in Writers : pc[v] # "idle"}} : Lower[op.host] = k}

(* Last write wins: of all the additions that have returned for a host     *)
(* that only ever saw additions through AddWithMeta, the record is the one *)
(* with the highest timestamp, ties going to the highest node ID, in       *)
(* whatever order and by whichever goroutines they were applied.           *)
HighestTimestampWins ==
    \A k \in Hosts :
        (CallsOn(k) # {} /\ mu = Free /\ \A op \in CallsOn(k) : op.action = "add")
            => \E best \in CallsOn(k) :
                  /\ data[k] = best.ip /\ meta[k] = best.meta
                  /\ \A op \in CallsOn(k) : ~Outranks(op.meta, best.meta)

(* A host that the plain Add and Remove never touched has a record exactly *)
(* when it has metadata, whenever no write is under way: the two stores    *)
(* of AddWithMeta and RemoveWithMeta keep the maps in step.                *)
MapsInStep ==
    mu = Free =>
        \A k \in Hosts : (\A op \in CallsOn(k) : ~Plain(op))
                            => (data[k] = NoIP <=> meta[k] = NoMeta)

(* No step replaces a host's metadata by older metadata: concurrent        *)
(* AddWithMeta calls never lose the newer update (records.go:139-147).     *)
MetaOnlyAdvances ==
    [][\A k \in Hosts :
          (meta[k] # NoMeta /\ meta'[k] \notin {NoMeta, meta[k]})
              => Outranks(meta'[k], meta[k])]_vars

(* The meta map once the lock holder, having stored its data map, has also *)
(* stored its meta map.                                                    *)
CommittedMeta == IF mu # Free /\ pc[mu] = "storeMeta" THEN new[mu].meta ELSE meta

Atomic == INSTANCE AtomicRecords WITH meta <- CommittedMeta

(* The concurrent store implements the atomic one: to its callers a write  *)
(* happens as a whole, at its data store.                                  *)
RefinesAtomic == Atomic!Spec

============================================================================
