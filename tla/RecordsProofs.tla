--------------------------- MODULE RecordsProofs ---------------------------
(***************************************************************************)
(* Proofs about the concurrent record store, for any number of goroutines, *)
(* any calls and any hostnames.                                            *)
(*                                                                         *)
(* The inductive invariant says who holds mu and what the holder's new     *)
(* maps are in relation to the shared ones (LockInv), and that the highest *)
(* timestamp wins in the maps as the calls that have returned left them,   *)
(* or, once the holder has stored its data map, in its new maps, which are *)
(* then also in step (WinInv).                                             *)
(***************************************************************************)
EXTENDS Records, RecordStoreProofs

InWrite(w) == pc[w] \in {"storeData", "storeMeta"}

(* A writer holds mu exactly while it is in a write.  Its new maps are     *)
(* what its call makes of the shared ones; after the data store the meta   *)
(* map is all that is left to store.                                       *)
WriterInv(w) ==
    /\ pc[w] # "loadMeta"
    /\ InWrite(w) <=> mu = w
    /\ InWrite(w) => arg[w] \in Ops
    /\ pc[w] = "storeData" => new[w] = Apply(Current, arg[w])
    /\ pc[w] = "storeMeta" =>
          /\ ~Plain(arg[w])
          /\ new[w].data = data
          /\ \E d \in DataMaps : new[w] = Apply([data |-> d, meta |-> meta], arg[w])

LockInv == \A w \in Writers : WriterInv(w)

DoneOn(S, k) == {op \in S : Lower[op.host] = k}

(* Of the calls S on k, if they are all additions, the maps d and m hold   *)
(* the one that none outranks.                                             *)
Wins(S, k, d, m) ==
    (\A op \in S : op.action = "add") =>
        IF S = {} THEN m[k] = NoMeta
        ELSE \E best \in S :
                /\ d[k] = best.ip /\ m[k] = best.meta
                /\ \A op \in S : ~Outranks(op.meta, best.meta)

(* If none of them is a plain one, the maps agree on k. *)
InStep(S, k, d, m) ==
    (\A op \in S : ~Plain(op)) => (d[k] = NoIP <=> m[k] = NoMeta)

Kept(S, k, d, m) == Wins(S, k, d, m) /\ InStep(S, k, d, m)

WinInv ==
    \A k \in Hosts :
        /\ (\A w \in Writers : pc[w] # "storeMeta") => Kept(DoneOn(done, k), k, data, meta)
        /\ \A w \in Writers : pc[w] = "storeMeta" =>
              Kept(DoneOn(done \cup {arg[w]}, k), k, data, new[w].meta)

IInv == TypeOK /\ LockInv /\ WinInv
----------------------------------------------------------------------------
(* The shared maps are a store. *)
LEMMA CurrentType == TypeOK => Current \in Stores
BY DEF TypeOK, Current, Stores

(* Type correctness is preserved by every step of the store's code. *)
LEMMA TypeStep ==
    ASSUME TypeOK, LockInv, [Next]_vars
    PROVE  TypeOK'
<1> USE RecordsAssumption DEF TypeOK
<1>1. ASSUME NEW w \in Writers, NEW op \in Ops, Lock(w, op) PROVE TypeOK'
  <2>1. Apply(Current, op) \in Stores
    BY CurrentType, ApplyType
  <2> QED BY <1>1, <2>1 DEF Lock
<1>2. ASSUME NEW w \in Writers, pc[w] \in {"storeData", "storeMeta"}
      PROVE  arg[w] \in Ops /\ new[w].data \in DataMaps /\ new[w].meta \in MetaMaps
             /\ EmptyStore \in Stores
  BY <1>2, StoreFields, EmptyStoreType DEF LockInv, WriterInv, InWrite
<1>3. ASSUME NEW w \in Writers, StoreData(w) PROVE TypeOK'
  <2>1. CASE Plain(arg[w])
    BY <1>2, <1>3, <2>1 DEF StoreData, Return
  <2>2. CASE ~Plain(arg[w])
    BY <1>2, <1>3, <2>2 DEF StoreData
  <2> QED BY <2>1, <2>2
<1>4. ASSUME NEW w \in Writers, StoreMeta(w) PROVE TypeOK'
  BY <1>2, <1>4 DEF StoreMeta, Return
<1>5. ASSUME NEW r \in Readers, LoadData(r) PROVE TypeOK'
  BY <1>5 DEF LoadData
<1>6. ASSUME NEW r \in Readers, LoadMeta(r) PROVE TypeOK'
  <2>1. Snapshot(snap[r].data, meta) \in FullStates /\ EmptyStore.data \in DataMaps
    BY SnapshotType, EmptyStoreType, StoreFields
  <2> QED BY <1>6, <2>1 DEF LoadMeta
<1>7. CASE UNCHANGED vars
  BY <1>7 DEF vars
<1> QED BY SMTT(90), <1>1, <1>3, <1>4, <1>5, <1>6, <1>7 DEF Next

(* At most one writer is between its lock and its unlock, and its new maps *)
(* are those its call makes of the shared ones: no update is lost.         *)
LEMMA LockStep ==
    ASSUME TypeOK, LockInv, [Next]_vars
    PROVE  LockInv'
<1> SUFFICES ASSUME NEW v \in Writers PROVE WriterInv(v)'
  BY DEF LockInv
<1> USE RecordsAssumption DEF TypeOK, InWrite, Current
<1>0. WriterInv(v)
  BY DEF LockInv
<1>1. ASSUME NEW w \in Writers, NEW op \in Ops, Lock(w, op) PROVE WriterInv(v)'
  <2>1. CASE Apply(Current, op) = Current
    BY <1>0, <1>1, <2>1 DEF Lock, WriterInv
  <2>2. CASE Apply(Current, op) # Current /\ v = w
    BY <1>0, <1>1, <2>2 DEF Lock, WriterInv
  <2>3. CASE Apply(Current, op) # Current /\ v # w
    BY <1>0, <1>1, <2>3 DEF Lock, WriterInv
  <2> QED BY <2>1, <2>2, <2>3
<1>2. ASSUME NEW w \in Writers, StoreData(w) PROVE WriterInv(v)'
  <2>0. mu = w /\ WriterInv(w)
    BY <1>2 DEF LockInv, WriterInv, StoreData
  <2>1. CASE v # w
    BY <1>0, <1>2, <2>0, <2>1 DEF StoreData, Return, WriterInv
  <2>2. CASE v = w /\ Plain(arg[w])
    BY <1>0, <1>2, <2>0, <2>2 DEF StoreData, Return, WriterInv
  <2>3. CASE v = w /\ ~Plain(arg[w])
    <3>1. new[w] = Apply([data |-> data, meta |-> meta], arg[w])
      BY <1>2, <2>0 DEF StoreData, WriterInv
    <3>2. pc'[w] = "storeMeta" /\ UNCHANGED <<mu, arg, new, meta>> /\ data' = new[w].data
      BY <1>2, <2>3 DEF StoreData
    <3> QED BY <2>0, <2>3, <3>1, <3>2 DEF WriterInv
  <2> QED BY <2>1, <2>2, <2>3
<1>3. ASSUME NEW w \in Writers, StoreMeta(w) PROVE WriterInv(v)'
  <2>0. mu = w
    BY <1>3 DEF LockInv, WriterInv, StoreMeta
  <2> QED BY <1>0, <1>3, <2>0 DEF StoreMeta, Return, WriterInv
<1>4. ASSUME NEW r \in Readers, LoadData(r) PROVE WriterInv(v)'
  BY <1>0, <1>4 DEF LoadData, WriterInv
<1>5. ASSUME NEW r \in Readers, LoadMeta(r) PROVE WriterInv(v)'
  BY ZenonT(90), <1>0, <1>5 DEF LoadMeta, WriterInv
<1>6. CASE UNCHANGED vars
  BY ZenonT(90), <1>0, <1>6 DEF vars, WriterInv
<1> QED BY <1>1, <1>2, <1>3, <1>4, <1>5, <1>6 DEF Next

(* A call leaves the records and metadata of other hosts alone. *)
LEMMA ApplyOther ==
    ASSUME NEW s \in Stores, NEW op \in Calls, NEW k \in Hosts, Lower[op.host] # k
    PROVE  Apply(s, op).data[k] = s.data[k] /\ Apply(s, op).meta[k] = s.meta[k]
<1>1. s.data \in DataMaps /\ s.meta \in MetaMaps
  BY StoreFields
<1> QED BY <1>1 DEF Apply, ApplyMessage, Add, Remove, AddWithMeta, RemoveWithMeta,
                    DataMaps, MetaMaps

(* A plain call leaves all metadata alone. *)
LEMMA ApplyPlain ==
    ASSUME NEW s \in Stores, NEW op \in Calls, Plain(op)
    PROVE  Apply(s, op).meta = s.meta
BY DEF Apply, Plain, Add, Remove

(* What an addition does to its own host. *)
LEMMA ApplyAdd ==
    ASSUME NEW s \in Stores, NEW op \in Calls, op.action = "add", NEW k, k = Lower[op.host]
    PROVE  IF Outranks(op.meta, s.meta[k])
           THEN Apply(s, op).data[k] = op.ip /\ Apply(s, op).meta[k] = op.meta
           ELSE Apply(s, op) = s
<1>1. k \in Hosts /\ s.data \in DataMaps /\ s.meta \in MetaMaps
  BY StoreFields, CallFields, LowerHosts
<1>2. Apply(s, op) = AddWithMeta(s, op.host, op.ip, op.meta)
  BY DEF Apply, ApplyMessage
<1> QED BY <1>1, <1>2 DEF AddWithMeta, DataMaps, MetaMaps

(* The winner among the calls so far, or the new call, wins after it: the  *)
(* order in which additions are applied does not matter.                   *)
LEMMA WinsStep ==
    ASSUME NEW s \in Stores, NEW D, D \subseteq Calls, NEW op \in Calls, NEW k \in Hosts,
           Wins(DoneOn(D, k), k, s.data, s.meta)
    PROVE  Wins(DoneOn(D \cup {op}, k), k, Apply(s, op).data, Apply(s, op).meta)
<1> DEFINE S == DoneOn(D, k)
           T == DoneOn(D \cup {op}, k)
<1>1. CASE Lower[op.host] # k
  <2>1. T = S
    BY <1>1 DEF DoneOn
  <2>2. Apply(s, op).data[k] = s.data[k] /\ Apply(s, op).meta[k] = s.meta[k]
    BY <1>1, ApplyOther
  <2> QED BY ZenonT(90), <2>1, <2>2 DEF Wins
<1>2. CASE Lower[op.host] = k
  <2>1. T = S \cup {op} /\ S \subseteq Calls
    BY <1>2 DEF DoneOn
  <2> HIDE DEF S, T
  <2> SUFFICES ASSUME \A o \in T : o.action = "add"
               PROVE  \E best \in T :
                         /\ Apply(s, op).data[k] = best.ip /\ Apply(s, op).meta[k] = best.meta
                         /\ \A o \in T : ~Outranks(o.meta, best.meta)
    BY ZenonT(90), <2>1 DEF Wins, S, T
  <2>2. op.action = "add" /\ \A o \in T : o.meta \in Meta
    BY <2>1, CallFields
  <2>3. IF Outranks(op.meta, s.meta[k])
        THEN Apply(s, op).data[k] = op.ip /\ Apply(s, op).meta[k] = op.meta
        ELSE Apply(s, op) = s
    BY <1>2, <2>2, ApplyAdd
  <2>4. CASE S = {}
    <3>1. s.meta[k] = NoMeta
      BY <2>1, <2>4 DEF Wins, S
    <3>2. Outranks(op.meta, s.meta[k])
      BY <3>1 DEF Outranks
    <3>3. ~Outranks(op.meta, op.meta)
      BY <2>1, <2>2, OutranksOrder
    <3> QED BY <2>1, <2>3, <2>4, <3>2, <3>3
  <2>5. CASE S # {}
    <3>1. PICK best \in S : /\ s.data[k] = best.ip /\ s.meta[k] = best.meta
                            /\ \A o \in S : ~Outranks(o.meta, best.meta)
      BY <2>1, <2>5 DEF Wins, S
    <3>2. CASE Outranks(op.meta, best.meta)
      <4>1. \A o \in T : ~Outranks(o.meta, op.meta)
        BY <2>1, <2>2, <3>1, <3>2, OutranksOrder
      <4> QED BY <2>1, <2>3, <3>1, <3>2, <4>1
    <3>3. CASE ~Outranks(op.meta, best.meta)
      BY <2>1, <2>3, <3>1, <3>3
    <3> QED BY <3>2, <3>3
  <2> QED BY <2>4, <2>5
<1> QED BY <1>1, <1>2

(* The maps stay in step through a call. *)
LEMMA InStepStep ==
    ASSUME NEW s \in Stores, NEW D, D \subseteq Calls, NEW op \in Calls, NEW k \in Hosts,
           InStep(DoneOn(D, k), k, s.data, s.meta)
    PROVE  InStep(DoneOn(D \cup {op}, k), k, Apply(s, op).data, Apply(s, op).meta)
<1> SUFFICES ASSUME \A o \in DoneOn(D \cup {op}, k) : ~Plain(o)
             PROVE  Apply(s, op).data[k] = NoIP <=> Apply(s, op).meta[k] = NoMeta
  BY DEF InStep
<1>1. s.data[k] = NoIP <=> s.meta[k] = NoMeta
  BY DEF InStep, DoneOn
<1>2. CASE Lower[op.host] # k
  BY <1>1, <1>2, ApplyOther
<1>3. CASE Lower[op.host] = k
  <2>1. ~Plain(op)
    BY <1>3 DEF DoneOn
  <2>2. op \in Messages /\ Apply(s, op) = ApplyMessage(s, op)
    BY <2>1 DEF Calls, Plain, Apply
  <2> QED BY <1>1, <2>2, ApplyMessageAt, MessageFields, StoreAssumption
<1> QED BY <1>2, <1>3

LEMMA KeptStep ==
    ASSUME NEW s \in Stores, NEW D, D \subseteq Calls, NEW op \in Calls, NEW k \in Hosts,
           Kept(DoneOn(D, k), k, s.data, s.meta)
    PROVE  Kept(DoneOn(D \cup {op}, k), k, Apply(s, op).data, Apply(s, op).meta)
BY WinsStep, InStepStep, Zenon DEF Kept

(* The winner stays the winner, and the maps in step, through every step of the code. *)
LEMMA WinStep ==
    ASSUME TypeOK, LockInv, WinInv, [Next]_vars
    PROVE  WinInv'
<1> USE RecordsAssumption DEF TypeOK
<1>0. Current \in Stores /\ Current.data = data /\ Current.meta = meta /\ done \subseteq Calls
  BY CurrentType DEF Current
<1>1. ASSUME NEW w \in Writers, NEW op \in Ops, Lock(w, op) PROVE WinInv'
  <2>1. \A v \in Writers : pc[v] # "storeMeta" /\ pc'[v] # "storeMeta"
    BY <1>1 DEF Lock, LockInv, WriterInv, InWrite
  <2>2. CASE Apply(Current, op) = Current
    <3>1. ASSUME NEW k \in Hosts PROVE Kept(DoneOn(done \cup {op}, k), k, data, meta)
      <4>1. Kept(DoneOn(done, k), k, Current.data, Current.meta)
        BY <1>0, <2>1 DEF WinInv
      <4> QED BY <1>0, <2>2, <4>1, KeptStep
    <3>2. done' = done \cup {op} /\ data' = data /\ meta' = meta
      BY <1>1, <2>2 DEF Lock
    <3> QED BY ZenonT(90), <2>1, <3>1, <3>2 DEF WinInv
  <2>3. CASE Apply(Current, op) # Current
    <3>1. UNCHANGED <<done, data, meta>>
      BY <1>1, <2>3 DEF Lock
    <3> QED BY <2>1, <3>1 DEF WinInv
  <2> QED BY <2>2, <2>3
<1>2. ASSUME NEW w \in Writers, StoreData(w) PROVE WinInv'
  <2>1. /\ \A v \in Writers : pc[v] # "storeMeta"
        /\ \A v \in Writers \ {w} : pc'[v] # "storeMeta"
    BY <1>2 DEF StoreData, Return, LockInv, WriterInv, InWrite
  <2>2. arg[w] \in Ops /\ new[w] = Apply(Current, arg[w]) /\ data' = new[w].data /\ meta' = meta
    BY <1>2 DEF StoreData, LockInv, WriterInv, InWrite
  <2>3. ASSUME NEW k \in Hosts
        PROVE  Kept(DoneOn(done \cup {arg[w]}, k), k, new[w].data, new[w].meta)
    <3>1. Kept(DoneOn(done, k), k, Current.data, Current.meta)
      BY <1>0, <2>1 DEF WinInv
    <3> QED BY <1>0, <2>2, <3>1, KeptStep
  <2>4. CASE Plain(arg[w])
    <3>1. done' = done \cup {arg[w]} /\ pc'[w] = "idle"
      BY <1>2, <2>4 DEF StoreData, Return
    <3>2. new[w].meta = meta'
      BY <1>0, <2>2, <2>4, ApplyPlain
    <3> QED BY ZenonT(90), <2>1, <2>2, <2>3, <3>1, <3>2 DEF WinInv
  <2>5. CASE ~Plain(arg[w])
    <3>1. UNCHANGED <<done, arg, new>> /\ pc'[w] = "storeMeta"
      BY <1>2, <2>5 DEF StoreData
    <3> QED BY ZenonT(90), <2>1, <2>2, <2>3, <3>1 DEF WinInv
  <2> QED BY <2>4, <2>5
<1>3. ASSUME NEW w \in Writers, StoreMeta(w) PROVE WinInv'
  <2>1. \A v \in Writers : pc'[v] # "storeMeta"
    BY <1>3 DEF StoreMeta, Return, LockInv, WriterInv, InWrite
  <2>2. done' = done \cup {arg[w]} /\ data' = data /\ meta' = new[w].meta /\ pc[w] = "storeMeta"
    BY <1>3 DEF StoreMeta, Return
  <2> QED BY <2>1, <2>2 DEF WinInv
<1>4. CASE UNCHANGED <<data, meta, done, arg, new>> /\ \A v \in Writers : pc'[v] = pc[v]
  BY <1>4 DEF WinInv
<1>5. ASSUME NEW r \in Readers, LoadData(r) \/ LoadMeta(r) PROVE WinInv'
  BY <1>4, <1>5 DEF LoadData, LoadMeta
<1>6. CASE UNCHANGED vars
  BY <1>4, <1>6 DEF vars
<1> QED BY <1>1, <1>2, <1>3, <1>5, <1>6 DEF Next

LEMMA InitIInv == Init => IInv
<1> SUFFICES ASSUME Init PROVE IInv
  OBVIOUS
<1> USE RecordsAssumption DEF Init
<1>1. TypeOK
  BY EmptyStoreType, StoreFields, SnapshotType DEF TypeOK
<1>2. LockInv
  BY DEF LockInv, WriterInv, InWrite
<1>3. WinInv
  BY DEF WinInv, Kept, Wins, InStep, DoneOn, EmptyStore
<1> QED BY <1>1, <1>2, <1>3 DEF IInv

LEMMA NextIInv == IInv /\ [Next]_vars => IInv'
BY TypeStep, LockStep, WinStep DEF IInv

(* The inductive invariant holds throughout. *)
THEOREM Invariance == Spec => []IInv
BY InitIInv, NextIInv, PTL DEF Spec

(* Type correctness of the store under any concurrent calls. *)
THEOREM TypeCorrect == Spec => []TypeOK
BY Invariance, PTL DEF IInv

(* Last write wins: whatever the number of writers and the order of their  *)
(* AddWithMeta calls, the record left is the one with the highest          *)
(* timestamp and node ID.                                                  *)
THEOREM LastWriteWins == Spec => []HighestTimestampWins
<1>1. IInv => HighestTimestampWins
  <2> SUFFICES ASSUME IInv, mu = Free, NEW k \in Hosts,
                      CallsOn(k) # {}, \A op \in CallsOn(k) : op.action = "add"
               PROVE  \E best \in CallsOn(k) :
                         /\ data[k] = best.ip /\ meta[k] = best.meta
                         /\ \A op \in CallsOn(k) : ~Outranks(op.meta, best.meta)
    BY DEF HighestTimestampWins
  <2>1. \A w \in Writers : pc[w] = "idle"
    BY RecordsAssumption DEF IInv, TypeOK, LockInv, WriterInv, InWrite
  <2>2. CallsOn(k) = DoneOn(done, k)
    BY <2>1 DEF CallsOn, DoneOn
  <2>3. Wins(DoneOn(done, k), k, data, meta)
    BY <2>1 DEF IInv, WinInv, Kept
  <2> QED BY <2>2, <2>3 DEF Wins
<1> QED BY <1>1, Invariance, PTL

(* The two atomic stores of AddWithMeta and RemoveWithMeta keep the data   *)
(* and the meta map in step: between writes, a host the plain calls never  *)
(* touched has both a record and metadata, or neither.                     *)
THEOREM InStepAlways == Spec => []MapsInStep
<1>1. IInv => MapsInStep
  <2> SUFFICES ASSUME IInv, mu = Free, NEW k \in Hosts, \A op \in CallsOn(k) : ~Plain(op)
               PROVE  data[k] = NoIP <=> meta[k] = NoMeta
    BY DEF MapsInStep
  <2>1. \A w \in Writers : pc[w] = "idle"
    BY RecordsAssumption DEF IInv, TypeOK, LockInv, WriterInv, InWrite
  <2>2. CallsOn(k) = DoneOn(done, k)
    BY <2>1 DEF CallsOn, DoneOn
  <2>3. InStep(DoneOn(done, k), k, data, meta)
    BY <2>1 DEF IInv, WinInv, Kept
  <2> QED BY <2>2, <2>3 DEF InStep
<1> QED BY <1>1, Invariance, PTL
----------------------------------------------------------------------------
(* A call replaces metadata only by metadata that outranks it, or deletes  *)
(* it.                                                                     *)
LEMMA ApplyAdvances ==
    ASSUME NEW s \in Stores, NEW op \in Calls, NEW k \in Hosts
    PROVE  \/ Apply(s, op).meta[k] \in {NoMeta, s.meta[k]}
           \/ Outranks(Apply(s, op).meta[k], s.meta[k])
<1>1. s.data \in DataMaps /\ s.meta \in MetaMaps
  BY StoreFields
<1> QED BY <1>1 DEF Apply, ApplyMessage, Add, Remove, AddWithMeta, RemoveWithMeta,
                    DataMaps, MetaMaps

(* No interleaving of writers replaces newer metadata by older metadata. *)
THEOREM Advances == Spec => MetaOnlyAdvances
<1> DEFINE A == \A k \in Hosts :
                   (meta[k] # NoMeta /\ meta'[k] \notin {NoMeta, meta[k]})
                       => Outranks(meta'[k], meta[k])
<1>1. IInv /\ [Next]_vars => [A]_vars
  <2> SUFFICES ASSUME IInv, Next, NEW k \in Hosts, meta'[k] \notin {NoMeta, meta[k]}
               PROVE  Outranks(meta'[k], meta[k])
    OBVIOUS
  <2>1. PICK w \in Writers : StoreMeta(w)
    BY DEF Next, Lock, StoreData, LoadData, LoadMeta
  <2>2. PICK d \in DataMaps : new[w] = Apply([data |-> d, meta |-> meta], arg[w])
    BY <2>1 DEF IInv, LockInv, WriterInv, StoreMeta
  <2>3. [data |-> d, meta |-> meta] \in Stores /\ arg[w] \in Calls
    BY SMTT(90), <2>1, RecordsAssumption DEF IInv, TypeOK, LockInv, WriterInv, InWrite, StoreMeta, Stores
  <2>4. meta' = Apply([data |-> d, meta |-> meta], arg[w]).meta
    BY <2>1, <2>2 DEF StoreMeta
  <2> QED BY <2>3, <2>4, ApplyAdvances
<1> QED BY <1>1, Invariance, PTL DEF Spec, MetaOnlyAdvances
----------------------------------------------------------------------------
(* The atomic store's Apply is this module's. *)
LEMMA AtomicApply ==
    ASSUME NEW s, NEW op
    PROVE  Atomic!Apply(s, op) = Apply(s, op)
BY DEF Atomic!Apply, Atomic!Add, Atomic!Remove, Atomic!ApplyMessage, Atomic!AddWithMeta,
       Atomic!RemoveWithMeta, Atomic!Outranks,
       Apply, Add, Remove, ApplyMessage, AddWithMeta, RemoveWithMeta, Outranks

(* What the committed metadata is, by where the lock holder is. *)
LEMMA CommittedMetaIs ==
    ASSUME TypeOK, LockInv
    PROVE  /\ \A w \in Writers : pc[w] = "storeMeta" => CommittedMeta = new[w].meta
           /\ (\A w \in Writers : pc[w] # "storeMeta") => CommittedMeta = meta
<1>1. mu # Free => mu \in Writers
  BY DEF TypeOK
<1>2. \A w \in Writers : pc[w] = "storeMeta" => mu = w /\ mu # Free
  BY RecordsAssumption DEF LockInv, WriterInv, InWrite
<1> QED BY <1>1, <1>2 DEF CommittedMeta

(* The concurrent store implements the atomic one: each write takes effect *)
(* as a whole at its data store, and no other step has an effect.          *)
THEOREM Refinement == Spec => RefinesAtomic
<1>1. Init => Atomic!Init
  BY ZenonT(90), RecordsAssumption DEF Init, Atomic!Init, Atomic!EmptyStore, Atomic!Hosts, EmptyStore, Hosts,
     CommittedMeta
<1>2. IInv /\ IInv' /\ [Next]_vars => [Atomic!Next]_<<data, CommittedMeta>>
  <2> SUFFICES ASSUME IInv, IInv', [Next]_vars
               PROVE  Atomic!Next \/ UNCHANGED <<data, CommittedMeta>>
    OBVIOUS
  <2> USE RecordsAssumption DEF IInv
  <2>c. /\ \A w \in Writers : pc[w] = "storeMeta" => CommittedMeta = new[w].meta
        /\ (\A w \in Writers : pc[w] # "storeMeta") => CommittedMeta = meta
    BY CommittedMetaIs
  <2>d. /\ \A w \in Writers : pc'[w] = "storeMeta" => CommittedMeta' = new'[w].meta
        /\ (\A w \in Writers : pc'[w] # "storeMeta") => CommittedMeta' = meta'
    <3>1. (TypeOK /\ LockInv =>
              /\ \A w \in Writers : pc[w] = "storeMeta" => CommittedMeta = new[w].meta
              /\ (\A w \in Writers : pc[w] # "storeMeta") => CommittedMeta = meta)'
      BY CommittedMetaIs, PTL
    <3> QED BY <3>1
  <2>1. ASSUME NEW w \in Writers, NEW op \in Ops, Lock(w, op) PROVE UNCHANGED <<data, CommittedMeta>>
    <3>1. \A v \in Writers : pc[v] # "storeMeta" /\ pc'[v] # "storeMeta"
      BY SMTT(90), <2>1 DEF Lock, LockInv, WriterInv, InWrite, TypeOK
    <3> QED BY SMTT(90), <2>1, <2>c, <2>d, <3>1 DEF Lock
  <2>2. ASSUME NEW w \in Writers, StoreData(w) PROVE Atomic!Next
    <3>1. /\ \A v \in Writers : pc[v] # "storeMeta"
          /\ \A v \in Writers \ {w} : pc'[v] # "storeMeta"
      BY SMTT(90), <2>2 DEF StoreData, Return, LockInv, WriterInv, InWrite, TypeOK
    <3>2. /\ arg[w] \in Ops /\ new[w] = Apply([data |-> data, meta |-> CommittedMeta], arg[w])
          /\ data' = new[w].data
      BY <2>2, <2>c, <3>1 DEF StoreData, LockInv, WriterInv, InWrite, Current
    <3>3. CommittedMeta' = new[w].meta
      <4>1. CASE Plain(arg[w])
        <5>1. new[w].meta = meta
          BY <3>1, <3>2, <2>c, <4>1, CurrentType, ApplyPlain DEF Current
        <5>2. \A v \in Writers : pc'[v] # "storeMeta"
          BY <2>2, <3>1, <4>1 DEF StoreData, Return, TypeOK
        <5>3. meta' = meta
          BY <2>2 DEF StoreData
        <5> QED BY <2>d, <5>1, <5>2, <5>3
      <4>2. CASE ~Plain(arg[w])
        <5>1. pc'[w] = "storeMeta" /\ new' = new
          BY <2>2, <4>2 DEF StoreData, TypeOK
        <5> QED BY <2>d, <5>1
      <4> QED BY <4>1, <4>2
    <3>4. Atomic!Do(arg[w])
      BY <3>2, <3>3, AtomicApply DEF Atomic!Do
    <3> QED BY <3>2, <3>4 DEF Atomic!Next
  <2>3. ASSUME NEW w \in Writers, StoreMeta(w) PROVE UNCHANGED <<data, CommittedMeta>>
    <3>1. \A v \in Writers : pc'[v] # "storeMeta"
      BY SMTT(90), <2>3 DEF StoreMeta, Return, LockInv, WriterInv, InWrite, TypeOK
    <3> QED BY SMTT(90), <2>3, <2>c, <2>d, <3>1 DEF StoreMeta
  <2>4. ASSUME UNCHANGED <<data, meta, mu, new>>, \A v \in Writers : pc'[v] = pc[v]
        PROVE  UNCHANGED <<data, CommittedMeta>>
    BY <2>4, <2>c, <2>d
  <2>5. ASSUME NEW r \in Readers, LoadData(r) \/ LoadMeta(r) PROVE UNCHANGED <<data, CommittedMeta>>
    <3>1. UNCHANGED <<data, meta, mu, new>>
      BY SMTT(90), <2>5 DEF LoadData, LoadMeta
    <3>2. \A v \in Writers : pc'[v] = pc[v]
      BY <2>5 DEF LoadData, LoadMeta, TypeOK
    <3> QED BY <2>4, <3>1, <3>2
  <2>6. CASE UNCHANGED vars
    BY <2>4, <2>6 DEF vars
  <2> QED BY <2>1, <2>2, <2>3, <2>5, <2>6 DEF Next
<1> QED BY <1>1, <1>2, Invariance, PTL DEF Spec, RefinesAtomic, Atomic!Spec
============================================================================
