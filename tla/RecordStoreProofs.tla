------------------------- MODULE RecordStoreProofs -------------------------
(***************************************************************************)
(* Facts about the operators of RecordStore, for every set of names,       *)
(* addresses and timestamps.                                               *)
(***************************************************************************)
EXTENDS RecordStore, TLAPS

(* Lowercasing lands in the key set, and keys are their own lowercase. *)
LEMMA LowerHosts ==
    /\ \A n \in Names : Lower[n] \in Hosts
    /\ \A h \in Hosts : h \in Names /\ Lower[h] = h
BY StoreAssumption DEF Hosts

(* Fields of a metadata value; the sentinel is not one. *)
LEMMA MetaFields ==
    /\ ZeroMeta \in Meta /\ NoMeta \notin Meta
    /\ \A m \in Meta : m.ts \in Nat /\ m.node \in Nat
BY StoreAssumption DEF Meta, ZeroMeta

(* The order behind last-write-wins is a strict total order on metadata. *)
LEMMA OutranksOrder ==
    ASSUME NEW a \in Meta, NEW b \in Meta, NEW c \in Meta
    PROVE  /\ ~Outranks(a, a)
           /\ Outranks(a, b) \/ Outranks(b, a) \/ a = b
           /\ Outranks(a, b) => ~Outranks(b, a)
           /\ Outranks(a, b) /\ ~Outranks(c, b) => ~Outranks(c, a)
BY MetaFields DEF Outranks, Meta

(* The empty store is a store. *)
LEMMA EmptyStoreType == EmptyStore \in Stores
BY DEF EmptyStore, Stores, DataMaps, MetaMaps

LEMMA StoreFields ==
    ASSUME NEW s \in Stores
    PROVE  s.data \in DataMaps /\ s.meta \in MetaMaps /\ s = [data |-> s.data, meta |-> s.meta]
BY DEF Stores

LEMMA CallFields ==
    ASSUME NEW op \in Calls
    PROVE  /\ op.host \in Names
           /\ op.action \in {"Add", "Remove", "add", "remove"}
           /\ op.action \in {"Add", "add"} => op.ip \in IPs
           /\ op.action \in {"add", "remove"} => op.meta \in Meta /\ op \in Messages
           /\ Plain(op) <=> op.action \in {"Add", "Remove"}
BY DEF Calls, Messages, Plain

(* Each operation turns a store into a store. *)
LEMMA AddType ==
    ASSUME NEW s \in Stores, NEW h \in Names, NEW ip \in IPs
    PROVE  Add(s, h, ip) \in Stores /\ Remove(s, h) \in Stores
BY StoreFields, LowerHosts DEF Add, Remove, Stores, DataMaps

LEMMA AddWithMetaType ==
    ASSUME NEW s \in Stores, NEW h \in Names, NEW ip \in IPs, NEW m \in Meta
    PROVE  AddWithMeta(s, h, ip, m) \in Stores /\ RemoveWithMeta(s, h, m) \in Stores
BY StoreFields, LowerHosts DEF AddWithMeta, RemoveWithMeta, Stores, DataMaps, MetaMaps

LEMMA ApplyMessageType ==
    ASSUME NEW s \in Stores, NEW msg \in Messages
    PROVE  ApplyMessage(s, msg) \in Stores
<1>1. CASE msg.action = "add"
  <2>1. msg.host \in Names /\ msg.ip \in IPs /\ msg.meta \in Meta
    BY <1>1 DEF Messages
  <2> QED BY <1>1, <2>1, AddWithMetaType DEF ApplyMessage
<1>2. CASE msg.action # "add"
  <2>1. msg.host \in Names /\ msg.meta \in Meta
    BY <1>2 DEF Messages
  <2>2. RemoveWithMeta(s, msg.host, msg.meta) \in Stores
    BY <2>1, StoreFields, LowerHosts DEF RemoveWithMeta, Stores, DataMaps, MetaMaps
  <2> QED BY <1>2, <2>2 DEF ApplyMessage
<1> QED BY <1>1, <1>2

LEMMA ApplyType ==
    ASSUME NEW s \in Stores, NEW op \in Calls
    PROVE  Apply(s, op) \in Stores
<1> USE CallFields
<1>1. CASE op.action = "Add"
  <2>1. Apply(s, op) = Add(s, op.host, op.ip)
    BY <1>1 DEF Apply
  <2> QED BY <1>1, <2>1, AddType
<1>2. CASE op.action = "Remove"
  <2>1. Apply(s, op) = Remove(s, op.host)
    BY <1>2 DEF Apply
  <2>2. Remove(s, op.host) \in Stores
    BY StoreFields, LowerHosts DEF Remove, Stores, DataMaps
  <2> QED BY <2>1, <2>2
<1>3. CASE op.action \notin {"Add", "Remove"}
  <2>1. Apply(s, op) = ApplyMessage(s, op)
    BY <1>3 DEF Apply
  <2> QED BY <1>3, <2>1, ApplyMessageType
<1> QED BY <1>1, <1>2, <1>3

(* GetAllWithMeta of any two maps, read at whatever moments, is a full     *)
(* state: every entry has metadata.                                        *)
LEMMA SnapshotType ==
    ASSUME NEW d \in DataMaps, NEW m \in MetaMaps
    PROVE  Snapshot(d, m) \in FullStates
<1>1. ASSUME NEW h \in Hosts
      PROVE  /\ d[h] \in IPs \cup {NoIP}
             /\ (IF d[h] = NoIP \/ m[h] = NoMeta THEN ZeroMeta ELSE m[h]) \in Meta
  BY MetaFields DEF DataMaps, MetaMaps
<1> QED BY <1>1 DEF Snapshot, FullStates

(* The message made of an entry of a full state is a message, and the full *)
(* state without the entry a full state.                                   *)
LEMMA EntryType ==
    ASSUME NEW full \in FullStates, NEW h \in Hosts
    PROVE  /\ full[h].meta \in Meta
           /\ full[h].ip # NoIP => EntryMessage(h, full[h]) \in Messages
           /\ [full EXCEPT ![h] = NoEntry] \in FullStates
BY LowerHosts, MetaFields DEF FullStates, EntryMessage, Messages, NoEntry

LEMMA MessageFields ==
    ASSUME NEW msg \in Messages
    PROVE  /\ msg.host \in Names /\ msg.meta \in Meta
           /\ msg.action \in {"add", "remove"}
           /\ msg.action = "add" => msg.ip \in IPs
BY DEF Messages

(* What a message does to one host: nothing, or what it says.  An addition *)
(* has an effect only if it outranks the host's metadata.                  *)
LEMMA ApplyMessageAt ==
    ASSUME NEW s \in Stores, NEW msg \in Messages, NEW k \in Hosts
    PROVE  LET t == ApplyMessage(s, msg) IN
           \/ t.data[k] = s.data[k] /\ t.meta[k] = s.meta[k]
           \/ /\ Lower[msg.host] = k /\ msg.action = "add" /\ Outranks(msg.meta, s.meta[k])
              /\ t.data[k] = msg.ip /\ t.meta[k] = msg.meta
           \/ /\ Lower[msg.host] = k /\ msg.action = "remove" /\ s.data[k] # NoIP
              /\ t.data[k] = NoIP /\ t.meta[k] = NoMeta
<1>1. s.data \in DataMaps /\ s.meta \in MetaMaps
  BY StoreFields
<1>2. msg.action \in {"add", "remove"}
  BY MessageFields
<1> QED BY <1>1, <1>2 DEF ApplyMessage, AddWithMeta, RemoveWithMeta, DataMaps, MetaMaps

(* An addition that outranks the host's metadata is applied. *)
LEMMA ApplyMessageAccepted ==
    ASSUME NEW s \in Stores, NEW msg \in Messages, msg.action = "add",
           Outranks(msg.meta, s.meta[Lower[msg.host]])
    PROVE  LET t == ApplyMessage(s, msg) IN
           t.data[Lower[msg.host]] = msg.ip /\ t.meta[Lower[msg.host]] = msg.meta
<1>1. s.data \in DataMaps /\ s.meta \in MetaMaps /\ Lower[msg.host] \in Hosts
  BY StoreFields, MessageFields, LowerHosts
<1> QED BY <1>1 DEF ApplyMessage, AddWithMeta, DataMaps, MetaMaps

LEMMA PlainAt ==
    ASSUME NEW s \in Stores, NEW h \in Names, NEW ip, NEW k \in Hosts
    PROVE  /\ Add(s, h, ip).meta = s.meta /\ Remove(s, h).meta = s.meta
           /\ Add(s, h, ip).data[k] = IF Lower[h] = k THEN ip ELSE s.data[k]
           /\ Remove(s, h).data[k] = IF Lower[h] = k THEN NoIP ELSE s.data[k]
<1>1. s.data \in DataMaps
  BY StoreFields
<1> QED BY <1>1 DEF Add, Remove, DataMaps
============================================================================
