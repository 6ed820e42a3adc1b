--------------------------- MODULE ClusterProofs ---------------------------
(***************************************************************************)
(* Proofs about the cluster of record stores, for any number of nodes and  *)
(* containers, any skew of their clocks, any loss, delay, duplication and  *)
(* reordering of messages and any number of crashes.                       *)
(*                                                                         *)
(* The argument is about one container c whose hostname is its own.  Every *)
(* addition of that hostname in circulation (in a store, a channel, a full *)
(* state, on the network) carries the address of c's node and metadata     *)
(* that is either zero (from a torn or early snapshot) or was taken from   *)
(* the node's clock, and, unless the node has crashed or is just starting  *)
(* c, does not outrank the metadata in the node's own store (OkMeta).      *)
(* Limit(c) is the part of the state these bounds depend on.  Each step is *)
(* classified by what it does to the hostname at c's own node (AtOwner)    *)
(* and at the others (Elsewhere); the bounds only ever grow (OkMetaStep).  *)
(***************************************************************************)
EXTENDS Cluster, RecordStoreProofs

LEMMA ContainerFields ==
    ASSUME NEW c \in Containers
    PROVE  On[c] \in Nodes /\ Label[c] \in Names /\ HostIP[On[c]] \in IPs /\ Key(c) \in Hosts
BY Zenon, ClusterAssumption, LowerHosts DEF Key

LEMMA StoreType ==
    ASSUME TypeOK, NEW n \in Nodes
    PROVE  Store(n) \in Stores /\ Store(n).data = data[n] /\ Store(n).meta = meta[n]
BY Zenon DEF TypeOK, Store, Stores

(* What a node's store t is at host k after a message, in terms of its     *)
(* maps before it.                                                         *)
LEMMA AppliedAt ==
    ASSUME TypeOK, NEW n \in Nodes, NEW msg \in Messages, NEW k \in Hosts,
           NEW t, t = ApplyMessage(Store(n), msg)
    PROVE  \/ t.data[k] = data[n][k] /\ t.meta[k] = meta[n][k]
           \/ /\ Lower[msg.host] = k /\ msg.action = "add" /\ Outranks(msg.meta, meta[n][k])
              /\ t.data[k] = msg.ip /\ t.meta[k] = msg.meta
           \/ /\ Lower[msg.host] = k /\ msg.action = "remove" /\ data[n][k] # NoIP
              /\ t.data[k] = NoIP /\ t.meta[k] = NoMeta
<1> DEFINE s == Store(n)
<1>1. s \in Stores /\ s.data = data[n] /\ s.meta = meta[n] /\ t = ApplyMessage(s, msg)
  BY Zenon, StoreType
<1> HIDE DEF s
<1> QED BY <1>1, ApplyMessageAt

LEMMA AcceptedAt ==
    ASSUME TypeOK, NEW n \in Nodes, NEW msg \in Messages, NEW t, t = ApplyMessage(Store(n), msg),
           msg.action = "add", Outranks(msg.meta, meta[n][Lower[msg.host]])
    PROVE  t.data[Lower[msg.host]] = msg.ip /\ t.meta[Lower[msg.host]] = msg.meta
<1> DEFINE s == Store(n)
<1>1. s \in Stores /\ s.meta = meta[n] /\ t = ApplyMessage(s, msg)
  BY Zenon, StoreType
<1> HIDE DEF s
<1> QED BY Zenon, <1>1, ApplyMessageAccepted

LEMMA AnnouncementType ==
    ASSUME NEW n \in Nodes, NEW c \in Containers, NEW added \in BOOLEAN, NEW ts \in Nat
    PROVE  Announcement(n, c, added, ts) \in Messages
<1>1. n \in Nat /\ HostIP[n] \in IPs /\ Label[c] \in Names
  BY Zenon, ClusterAssumption
<1>2. CASE added
  BY Zenon, <1>1, <1>2 DEF Announcement, Messages, Meta
<1>3. CASE ~added
  BY Zenon, <1>1, <1>3 DEF Announcement, Messages, Meta
<1> QED BY Zenon, <1>2, <1>3

(* A write replaces one node's data map at once and its meta map, as far   *)
(* as later writers are concerned, at once too.                            *)
LEMMA WriteEffect ==
    ASSUME TypeOK, NEW p \in Nodes, NEW s \in Stores, Write(p, s), meta' = meta
    PROVE  /\ pending[p] = NoWrite /\ SettledMeta(p) = meta[p]
           /\ data'[p] = s.data /\ SettledMeta(p)' = s.meta
           /\ \A q \in Nodes \ {p} : data'[q] = data[q] /\ SettledMeta(q)' = SettledMeta(q)
           /\ data' \in [Nodes -> DataMaps]
           /\ pending' \in [Nodes -> MetaMaps \cup {NoWrite}]
BY ZenonT(90), ClusterAssumption, StoreFields DEF TypeOK, Write, SettledMeta

(* What the watcher and the push/pull in progress hold. *)
LEMMA WatchFields ==
    ASSUME TypeOK, NEW n \in Nodes
    PROVE  /\ watch[n] # Idle => watch[n].c \in Containers
           /\ watch[n] # Idle /\ watch[n].step = "send" => watch[n].msg \in Messages
           /\ watch[n] # Idle => watch[n].step \in {"added", "removed", "send"}
BY Zenon DEF TypeOK, WatchStates

LEMMA PushFields ==
    ASSUME TypeOK, NEW n \in Nodes
    PROVE  /\ push[n] # NoPush => push[n].to \in Nodes /\ push[n].at \in {"meta", "wire", "merge"}
           /\ push[n] # NoPush /\ push[n].at = "meta" => push[n].data \in DataMaps
           /\ push[n] # NoPush /\ push[n].at # "meta" => push[n].full \in FullStates
BY Zenon DEF TypeOK, PushStates

(* Every step keeps every variable in its type. *)
LEMMA TypeStep ==
    ASSUME TypeOK, [Next]_vars
    PROVE  TypeOK'
<1> USE ClusterAssumption DEF past
<1>1. ASSUME NEW c \in Containers, ContainerStart(c) PROVE TypeOK'
  <2> DEFINE n == On[c]
  <2>1. n \in Nodes /\ Add(Store(n), Label[c], HostIP[n]) \in Stores
    BY Zenon, ContainerFields, StoreType, AddType
  <2>2. data' \in [Nodes -> DataMaps] /\ pending' \in [Nodes -> MetaMaps \cup {NoWrite}]
    BY Zenon, <1>1, <2>1, WriteEffect DEF ContainerStart
  <2>3. tracked' \in [Nodes -> SUBSET Containers] /\ watch' \in [Nodes -> WatchStates]
    BY ZenonT(90), <1>1, <2>1 DEF ContainerStart, TypeOK, WatchStates
  <2> QED BY Zenon, <1>1, <2>2, <2>3 DEF ContainerStart, TypeOK
<1>2. ASSUME NEW c \in Containers, ContainerStop(c) PROVE TypeOK'
  <2> DEFINE n == On[c]
  <2>1. n \in Nodes /\ Remove(Store(n), Label[c]) \in Stores
    BY Zenon, ContainerFields, StoreType, AddType
  <2>2. data' \in [Nodes -> DataMaps] /\ pending' \in [Nodes -> MetaMaps \cup {NoWrite}]
    BY Zenon, <1>2, <2>1, WriteEffect DEF ContainerStop
  <2>3. tracked' \in [Nodes -> SUBSET Containers] /\ watch' \in [Nodes -> WatchStates]
    BY ZenonT(90), <1>2, <2>1 DEF ContainerStop, TypeOK, WatchStates
  <2> QED BY Zenon, <1>2, <2>2, <2>3 DEF ContainerStop, TypeOK
<1>3. ASSUME NEW n \in Nodes, StoreMeta(n) PROVE TypeOK'
  BY Zenon, <1>3 DEF StoreMeta, TypeOK
<1>4. ASSUME NEW n \in Nodes, Notify(n) PROVE TypeOK'
  <2> DEFINE c == watch[n].c
             added == watch[n].step = "added"
  <2>1. PICK ts \in (clock[n] + 1)..MaxTs :
           /\ clock' = [clock EXCEPT ![n] = ts]
           /\ Write(n, ApplyMessage(Store(n), Announcement(n, c, added, ts)))
           /\ watch' = [watch EXCEPT ![n] =
                          [step |-> "send", c |-> c, msg |-> Announcement(n, c, added, ts)]]
    BY Zenon, <1>4 DEF Notify
  <2>2. ts \in Nat /\ c \in Containers
    BY SMTT(90), <1>4, <2>1, WatchFields DEF TypeOK, Notify
  <2>3. Announcement(n, c, added, ts) \in Messages
    BY Zenon, <2>2, AnnouncementType
  <2>4. ApplyMessage(Store(n), Announcement(n, c, added, ts)) \in Stores
    BY Zenon, <2>3, StoreType, ApplyMessageType
  <2>5. data' \in [Nodes -> DataMaps] /\ pending' \in [Nodes -> MetaMaps \cup {NoWrite}]
    BY Zenon, <1>4, <2>1, <2>4, WriteEffect DEF Notify
  <2>6. clock' \in [Nodes -> Nat] /\ watch' \in [Nodes -> WatchStates]
    <3> HIDE DEF c, added
    <3> QED BY Zenon, <2>1, <2>2, <2>3 DEF TypeOK, WatchStates
  <2> QED BY Zenon, <1>4, <2>5, <2>6 DEF Notify, TypeOK
<1>5. ASSUME NEW n \in Nodes, BroadcastRecord(n) PROVE TypeOK'
  BY ZenonT(90), <1>5, WatchFields DEF BroadcastRecord, TypeOK, WatchStates
<1>6. ASSUME NEW n \in Nodes, NEW msg \in net, NotifyMsg(n, msg) PROVE TypeOK'
  <2>1. chan[n] \in Seq(Messages) /\ msg \in Messages
    BY Zenon DEF TypeOK
  <2>2. Append(chan[n], msg) \in Seq(Messages)
    BY <2>1
  <2>3. chan' \in [Nodes -> Seq(Messages)]
    <3>1. chan' = chan \/ chan' = [chan EXCEPT ![n] = Append(chan[n], msg)]
      BY Zenon, <1>6 DEF NotifyMsg
    <3>2. ASSUME NEW q \in Seq(Messages), chan' = [chan EXCEPT ![n] = q]
          PROVE  chan' \in [Nodes -> Seq(Messages)]
      BY Zenon, <3>2 DEF TypeOK
    <3> QED BY Zenon, <2>2, <3>1, <3>2 DEF TypeOK
  <2>4. dropped' \in [Nodes -> SUBSET Messages]
    <3>1. dropped' = dropped \/ dropped' = [dropped EXCEPT ![n] = dropped[n] \cup {msg}]
      BY Zenon, <1>6 DEF NotifyMsg
    <3>2. dropped \in [Nodes -> SUBSET Messages] /\ dropped[n] \cup {msg} \in SUBSET Messages
      BY Zenon, <2>1 DEF TypeOK
    <3> QED BY ZenonT(90), <3>1, <3>2
  <2> QED BY Zenon, <1>6, <2>3, <2>4 DEF NotifyMsg, TypeOK
<1>7. ASSUME NEW n \in Nodes, ProcessMessage(n) PROVE TypeOK'
  <2>1. Head(chan[n]) \in Messages /\ chan' \in [Nodes -> Seq(Messages)]
    BY <1>7 DEF ProcessMessage, TypeOK
  <2>2. ApplyMessage(Store(n), Head(chan[n])) \in Stores
    BY Zenon, <2>1, StoreType, ApplyMessageType
  <2>3. data' \in [Nodes -> DataMaps] /\ pending' \in [Nodes -> MetaMaps \cup {NoWrite}]
    BY Zenon, <1>7, <2>2, WriteEffect DEF ProcessMessage
  <2> QED BY Zenon, <1>7, <2>1, <2>3 DEF ProcessMessage, TypeOK
<1>8. ASSUME NEW n \in Nodes, NEW p \in Nodes, LocalStateData(n, p) PROVE TypeOK'
  BY ZenonT(90), <1>8 DEF LocalStateData, TypeOK, PushStates
<1>9. ASSUME NEW n \in Nodes, LocalStateMeta(n) PROVE TypeOK'
  <2>1. Snapshot(push[n].data, meta[n]) \in FullStates /\ push[n].to \in Nodes
    BY Zenon, <1>9, PushFields, SnapshotType DEF LocalStateMeta, TypeOK
  <2>2. push' \in [Nodes -> PushStates]
    BY Zenon, <1>9, <2>1 DEF LocalStateMeta, TypeOK, PushStates
  <2> QED BY Zenon, <1>9, <2>2 DEF LocalStateMeta, TypeOK
<1>10. ASSUME NEW n \in Nodes, NEW h \in Hosts, MergeRemoteState(n, h) PROVE TypeOK'
  <2> DEFINE p == push[n].to
             full == push[n].full
             msg == EntryMessage(h, full[h])
  <2>1. p \in Nodes /\ msg \in Messages /\ [full EXCEPT ![h] = NoEntry] \in FullStates
    BY Zenon, <1>10, PushFields, EntryType DEF MergeRemoteState
  <2>2. ApplyMessage(Store(p), msg) \in Stores
    BY Zenon, <2>1, StoreType, ApplyMessageType
  <2>3. data' \in [Nodes -> DataMaps] /\ pending' \in [Nodes -> MetaMaps \cup {NoWrite}]
    BY Zenon, <1>10, <2>1, <2>2, WriteEffect DEF MergeRemoteState
  <2>4. push' \in [Nodes -> PushStates]
    BY Zenon, <1>10, <2>1 DEF MergeRemoteState, TypeOK, PushStates
  <2> QED BY Zenon, <1>10, <2>3, <2>4 DEF MergeRemoteState, TypeOK
<1>11. ASSUME NEW n \in Nodes, ReceiveState(n) \/ PushFail(n) \/ MergeDone(n) PROVE TypeOK'
  <2>1. CASE ReceiveState(n)
    BY Zenon, <2>1, PushFields DEF ReceiveState, TypeOK, PushStates
  <2>2. CASE PushFail(n) \/ MergeDone(n)
    BY ZenonT(90), <2>2 DEF PushFail, MergeDone, TypeOK, PushStates
  <2> QED BY Zenon, <1>11, <2>1, <2>2
<1>12. ASSUME NEW n \in Nodes, Crash(n) PROVE TypeOK'
  <2>1. EmptyStore.data \in DataMaps /\ EmptyStore.meta \in MetaMaps
    BY Zenon, EmptyStoreType, StoreFields
  <2>2. data' \in [Nodes -> DataMaps] /\ meta' \in [Nodes -> MetaMaps]
    BY Zenon, <1>12, <2>1 DEF Crash, TypeOK
  <2>3. push' \in [Nodes -> PushStates]
    BY Zenon, <1>12 DEF Crash, TypeOK, PushStates
  <2>4. chan' \in [Nodes -> Seq(Messages)]
    BY <1>12 DEF Crash, TypeOK
  <2>5. crashes' \in [Nodes -> Nat]
    BY <1>12 DEF Crash, TypeOK
  <2>6. /\ pending' \in [Nodes -> MetaMaps \cup {NoWrite}] /\ tracked' \in [Nodes -> SUBSET Containers]
        /\ watch' \in [Nodes -> WatchStates]
    BY Zenon, <1>12 DEF Crash, TypeOK, WatchStates
  <2> QED BY Zenon, <1>12, <2>2, <2>3, <2>4, <2>5, <2>6 DEF Crash, TypeOK
<1>13. CASE UNCHANGED vars
  BY Zenon, <1>13 DEF vars, TypeOK
<1>14. Next \/ UNCHANGED vars
  BY Zenon
<1> QED BY ZenonT(90), <1>1, <1>2, <1>3, <1>4, <1>5, <1>6, <1>7, <1>8, <1>9, <1>10, <1>11, <1>12, <1>13,
           <1>14 DEF Next

LEMMA TypeInit == Init => TypeOK
BY EmptyStoreType, StoreFields DEF Init, TypeOK, WatchStates, PushStates

(* Type correctness of the cluster model. *)
THEOREM TypeCorrect == Spec => []TypeOK
BY TypeInit, TypeStep, PTL DEF Spec

----------------------------------------------------------------------------
(* The node of c has not crashed and has announced c since it started it. *)
Bound(c) == crashes[On[c]] = 0 /\ watch[On[c]] # [step |-> "added", c |-> c]

Limit(c) ==
    [clock |-> clock[On[c]], bound |-> Bound(c), top |-> SettledMeta(On[c])[Key(c)],
     started |-> c \in started, stopped |-> c \in stopped]

(* Metadata that an addition of c's hostname may carry, given Limit(c). *)
OkMeta(c, m, L) ==
    /\ L.started
    /\ m = ZeroMeta \/ (m.node = On[c] /\ m.ts <= L.clock)
    /\ L.bound => ~Outranks(m, L.top)

OkMsg(c, msg, L) ==
    Lower[msg.host] = Key(c) =>
        IF msg.action = "add"
        THEN msg.ip = HostIP[On[c]] /\ OkMeta(c, msg.meta, L)
        ELSE msg.meta.node = On[c] /\ L.stopped

StoreOk(c) ==
    \A p \in Nodes :
        /\ data[p][Key(c)] \in {NoIP, HostIP[On[c]]}
        /\ data[p][Key(c)] # NoIP => OkMeta(c, ZeroMeta, Limit(c))
        /\ meta[p][Key(c)] # NoMeta => OkMeta(c, meta[p][Key(c)], Limit(c))
        /\ SettledMeta(p)[Key(c)] # NoMeta => OkMeta(c, SettledMeta(p)[Key(c)], Limit(c))

MsgOk(c) ==
    /\ \A msg \in net : OkMsg(c, msg, Limit(c))
    /\ \A p \in Nodes : \A i \in 1..Len(chan[p]) : OkMsg(c, chan[p][i], Limit(c))
    /\ \A p \in Nodes : watch[p] # Idle /\ watch[p].step = "send" => OkMsg(c, watch[p].msg, Limit(c))

PushOk(c) ==
    \A p \in Nodes : push[p] # NoPush =>
        /\ push[p].at = "meta" =>
              /\ push[p].data[Key(c)] \in {NoIP, HostIP[On[c]]}
              /\ push[p].data[Key(c)] # NoIP => OkMeta(c, ZeroMeta, Limit(c))
        /\ push[p].at # "meta" =>
              /\ push[p].full[Key(c)].ip \in {NoIP, HostIP[On[c]]}
              /\ push[p].full[Key(c)].ip # NoIP => OkMeta(c, push[p].full[Key(c)].meta, Limit(c))

OwnOk(c) ==
    /\ c \in tracked[On[c]] => data[On[c]][Key(c)] = HostIP[On[c]]
    /\ (crashes[On[c]] = 0 /\ c \notin tracked[On[c]]) => data[On[c]][Key(c)] = NoIP

(* No node receives its own messages. *)
ChanForeign == \A p \in Nodes : \A i \in 1..Len(chan[p]) : chan[p][i].meta.node # p

(* The watcher's unfinished event is about a container of its node. *)
WatchOk ==
    \A p \in Nodes : watch[p] # Idle =>
        /\ On[watch[p].c] = p
        /\ watch[p].step = "added" => watch[p].c \in tracked[p] /\ watch[p].c \in started
        /\ watch[p].step = "removed" => watch[p].c \notin tracked[p] /\ watch[p].c \in stopped

CInv(c) == StoreOk(c) /\ MsgOk(c) /\ PushOk(c) /\ OwnOk(c)

IInv ==
    /\ TypeOK /\ ChanForeign /\ WatchOk
    /\ \A c \in Containers : Exclusive(c) => CInv(c)
----------------------------------------------------------------------------
(* What a step does to c's hostname at node p: nothing; an addition in     *)
(* circulation is accepted; it is removed, c having been stopped, or lost  *)
(* in a crash.                                                             *)
Kept(c, p) ==
    /\ data'[p][Key(c)] = data[p][Key(c)]
    /\ SettledMeta(p)'[Key(c)] = SettledMeta(p)[Key(c)]
Accepted(c, p) ==
    /\ data'[p][Key(c)] = HostIP[On[c]]
    /\ SettledMeta(p)'[Key(c)] \in Meta
    /\ OkMeta(c, SettledMeta(p)'[Key(c)], Limit(c))
Removed(c, p) ==
    /\ data'[p][Key(c)] = NoIP
    /\ SettledMeta(p)'[Key(c)] = NoMeta
    /\ c \in stopped \/ crashes'[p] # crashes[p]
Elsewhere(c, p) == Kept(c, p) \/ Accepted(c, p) \/ Removed(c, p)

(* A step that does not start, stop or announce c and does not crash its   *)
(* node.                                                                   *)
Quiet(c) ==
    LET n == On[c] IN
    /\ Bound(c)' => Bound(c)
    /\ c \in tracked'[n] <=> c \in tracked[n]
    /\ crashes'[n] = crashes[n]
    /\ clock'[n] >= clock[n]

(* What a step does to c's hostname at its own node. *)
AtOwner(c) ==
    LET n == On[c]  k == Key(c) IN
    \/ Quiet(c) /\ Kept(c, n)
    \/ Quiet(c) /\ ~Bound(c) /\ Accepted(c, n)
    \/ Quiet(c) /\ c \notin tracked[n] /\ crashes[n] # 0 /\ Removed(c, n)
    \/ \* ContainerStart
       /\ ~Bound(c)' /\ c \in tracked'[n] /\ clock'[n] = clock[n] /\ c \in started'
       /\ data'[n][k] = HostIP[n] /\ SettledMeta(n)'[k] = SettledMeta(n)[k]
    \/ \* ContainerStop
       /\ Bound(c)' => Bound(c)
       /\ c \notin tracked'[n] /\ clock'[n] = clock[n] /\ c \in stopped'
       /\ data'[n][k] = NoIP /\ SettledMeta(n)'[k] = SettledMeta(n)[k]
    \/ \* Notify of a start
       /\ c \in tracked'[n] /\ clock'[n] > clock[n] /\ c \in started'
       /\ data'[n][k] = HostIP[n] /\ SettledMeta(n)'[k] = [ts |-> clock'[n], node |-> n]
    \/ \* Crash
       /\ crashes'[n] # 0 /\ tracked'[n] = {} /\ clock'[n] = clock[n]
       /\ Removed(c, n)

StepAt(c) ==
    /\ AtOwner(c)
    /\ (c \in started => c \in started') /\ (c \in stopped => c \in stopped')
    /\ \A p \in Nodes \ {On[c]} : Elsewhere(c, p)
    /\ \A p \in Nodes : meta'[p][Key(c)] \in {meta[p][Key(c)], SettledMeta(p)[Key(c)], NoMeta}

(* Containers of other hostnames have other keys. *)
LEMMA OtherKey ==
    ASSUME NEW c \in Containers, Exclusive(c), NEW d \in Containers, d # c
    PROVE  Lower[Label[d]] # Key(c)
BY Zenon DEF Exclusive, Key

LEMMA NotIdle ==
    ASSUME NEW c \in Containers
    PROVE  Idle # [step |-> "added", c |-> c] /\ Idle # [step |-> "removed", c |-> c]
BY ClusterAssumption

LEMMA StartAt ==
    ASSUME IInv, NEW c \in Containers, Exclusive(c), NEW d \in Containers, ContainerStart(d)
    PROVE  StepAt(c)
<1> DEFINE n == On[d]
           s == Add(Store(n), Label[d], HostIP[n])
<1>1. n \in Nodes /\ s \in Stores /\ Key(c) \in Hosts /\ On[c] \in Nodes /\ Label[d] \in Names
  BY Zenon, ContainerFields, StoreType, AddType DEF IInv
<1>2. /\ s.meta = meta[n]
      /\ s.data[Key(c)] = IF Lower[Label[d]] = Key(c) THEN HostIP[n] ELSE data[n][Key(c)]
  BY <1>1, StoreType, PlainAt DEF IInv
<1>3. /\ SettledMeta(n) = meta[n] /\ data'[n] = s.data /\ SettledMeta(n)' = s.meta
      /\ \A q \in Nodes \ {n} : data'[q] = data[q] /\ SettledMeta(q)' = SettledMeta(q)
  BY ZenonT(90), <1>1, WriteEffect DEF IInv, ContainerStart
<1> HIDE DEF s
<1>4. \A p \in Nodes \ {On[c]} : Kept(c, p)
  <2>1. CASE d = c
    BY Zenon, <2>1, <1>3 DEF Kept
  <2>2. CASE d # c
    BY ZenonT(90), <2>2, <1>1, <1>2, <1>3, OtherKey DEF Kept
  <2> QED BY Zenon, <2>1, <2>2
<1>5. CASE d = c
  <2>1. ~Bound(c)' /\ c \in tracked'[n] /\ clock'[n] = clock[n] /\ c \in started'
    BY Zenon, <1>1, <1>5 DEF ContainerStart, Bound, IInv, TypeOK
  <2>2. data'[n][Key(c)] = HostIP[n] /\ SettledMeta(n)'[Key(c)] = SettledMeta(n)[Key(c)]
    BY Zenon, <1>2, <1>3, <1>5 DEF Key
  <2> QED BY Zenon, <1>4, <1>5, <2>1, <2>2 DEF ContainerStart, StepAt, AtOwner, Elsewhere
<1>6. CASE d # c
  <2>1. Quiet(c)
    BY <1>1, <1>6, NotIdle DEF ContainerStart, Quiet, Bound, IInv, TypeOK
  <2>2. Kept(c, On[c])
    BY Zenon, <1>1, <1>2, <1>3, <1>6, OtherKey DEF Kept
  <2> QED BY Zenon, <1>4, <2>1, <2>2 DEF ContainerStart, StepAt, AtOwner, Elsewhere
<1> QED BY Zenon, <1>5, <1>6

LEMMA StopAt ==
    ASSUME IInv, NEW c \in Containers, Exclusive(c), NEW d \in Containers, ContainerStop(d)
    PROVE  StepAt(c)
<1> DEFINE n == On[d]
           s == Remove(Store(n), Label[d])
<1>1. n \in Nodes /\ s \in Stores /\ Key(c) \in Hosts /\ On[c] \in Nodes /\ Label[d] \in Names
  BY Zenon, ContainerFields, StoreType, AddType DEF IInv
<1>2. /\ s.meta = meta[n]
      /\ s.data[Key(c)] = IF Lower[Label[d]] = Key(c) THEN NoIP ELSE data[n][Key(c)]
  BY SMTT(90), <1>1, StoreType, PlainAt DEF IInv
<1>3. /\ SettledMeta(n) = meta[n] /\ data'[n] = s.data /\ SettledMeta(n)' = s.meta
      /\ \A q \in Nodes \ {n} : data'[q] = data[q] /\ SettledMeta(q)' = SettledMeta(q)
  BY Zenon, <1>1, WriteEffect DEF IInv, ContainerStop
<1> HIDE DEF s
<1>4. \A p \in Nodes \ {On[c]} : Kept(c, p)
  <2>1. CASE d = c
    BY Zenon, <2>1, <1>3 DEF Kept
  <2>2. CASE d # c
    BY ZenonT(90), <2>2, <1>1, <1>2, <1>3, OtherKey DEF Kept
  <2> QED BY Zenon, <2>1, <2>2
<1>5. CASE d = c
  <2>1. (Bound(c)' => Bound(c)) /\ c \notin tracked'[n] /\ clock'[n] = clock[n] /\ c \in stopped'
    BY Zenon, <1>1, <1>5, NotIdle DEF ContainerStop, Bound, IInv, TypeOK
  <2>2. data'[n][Key(c)] = NoIP /\ SettledMeta(n)'[Key(c)] = SettledMeta(n)[Key(c)]
    BY Zenon, <1>2, <1>3, <1>5 DEF Key
  <2> QED BY Zenon, <1>4, <1>5, <2>1, <2>2 DEF ContainerStop, StepAt, AtOwner, Elsewhere
<1>6. CASE d # c
  <2>1. Quiet(c)
    BY <1>1, <1>6, NotIdle DEF ContainerStop, Quiet, Bound, IInv, TypeOK
  <2>2. Kept(c, On[c])
    BY Zenon, <1>1, <1>2, <1>3, <1>6, OtherKey DEF Kept
  <2> QED BY Zenon, <1>4, <2>1, <2>2 DEF ContainerStop, StepAt, AtOwner, Elsewhere
<1> QED BY Zenon, <1>5, <1>6

(* A step that leaves every store as it is. *)
LEMMA StillAt ==
    ASSUME NEW c \in Containers, Quiet(c), data' = data, UNCHANGED past,
           \A p \in Nodes : SettledMeta(p)' = SettledMeta(p) /\ meta'[p] \in {meta[p], SettledMeta(p)}
    PROVE  StepAt(c)
BY Zenon, ContainerFields DEF StepAt, AtOwner, Elsewhere, Kept, past

(* A message is applied, at c's own node only an addition or one that is   *)
(* not from there.                                                         *)
LEMMA MessageAt ==
    ASSUME IInv, NEW c \in Containers, Exclusive(c), Quiet(c), meta' = meta, UNCHANGED past,
           NEW p \in Nodes, NEW msg \in Messages, OkMsg(c, msg, Limit(c)),
           Write(p, ApplyMessage(Store(p), msg)),
           p = On[c] => msg.action = "add" \/ msg.meta.node # p
    PROVE  StepAt(c)
<1> DEFINE n == On[c]
           k == Key(c)
           t == ApplyMessage(Store(p), msg)
<1>1. n \in Nodes /\ k \in Hosts /\ HostIP[n] \in IPs /\ Store(p) \in Stores /\ t \in Stores
  BY Zenon, ContainerFields, StoreType, ApplyMessageType DEF IInv
<1>2. /\ SettledMeta(p) = meta[p] /\ data'[p] = t.data /\ SettledMeta(p)' = t.meta
      /\ \A q \in Nodes \ {p} : data'[q] = data[q] /\ SettledMeta(q)' = SettledMeta(q)
  BY Zenon, <1>1, WriteEffect DEF IInv
<1>t. t = ApplyMessage(Store(p), msg)
  BY Zenon
<1> HIDE DEF t
<1>3. \/ Kept(c, p)
      \/ Accepted(c, p) /\ Outranks(msg.meta, SettledMeta(p)[k]) /\ OkMeta(c, msg.meta, Limit(c))
      \/ Removed(c, p) /\ msg.action = "remove" /\ msg.meta.node = n
  <2>1. msg.meta \in Meta
    BY Zenon, MessageFields
  <2>2. \/ t.data[k] = data[p][k] /\ t.meta[k] = meta[p][k]
        \/ /\ Lower[msg.host] = k /\ msg.action = "add" /\ Outranks(msg.meta, meta[p][k])
           /\ t.data[k] = msg.ip /\ t.meta[k] = msg.meta
        \/ /\ Lower[msg.host] = k /\ msg.action = "remove"
           /\ t.data[k] = NoIP /\ t.meta[k] = NoMeta
    BY SMTT(90), <1>t, <1>1, AppliedAt DEF IInv
  <2> QED BY Zenon, <1>2, <2>1, <2>2 DEF OkMsg, Kept, Accepted, Removed, Limit
<1>4. \A q \in Nodes \ {p} : Kept(c, q)
  BY Zenon, <1>2 DEF Kept
<1>5. p = n => Kept(c, n) \/ (~Bound(c) /\ Accepted(c, n))
  <2>1. Outranks(msg.meta, SettledMeta(n)[k]) /\ OkMeta(c, msg.meta, Limit(c)) => ~Bound(c)
    BY Zenon DEF OkMeta, Limit
  <2> QED BY Zenon, <1>3, <2>1
<1>6. AtOwner(c)
  BY Zenon, <1>1, <1>4, <1>5 DEF AtOwner
<1> QED BY Zenon, <1>3, <1>4, <1>6 DEF StepAt, Elsewhere, past

(* The watcher's announcement outranks whatever its own store has of its   *)
(* hostname, and its removal finds nothing unless the node has crashed.    *)
LEMMA NotifyAt ==
    ASSUME IInv, NEW c \in Containers, Exclusive(c), NEW n \in Nodes, Notify(n)
    PROVE  /\ StepAt(c)
           /\ watch[n] = [step |-> "added", c |-> c]
                 => SettledMeta(n)'[Key(c)] = [ts |-> clock'[n], node |-> n]
<1> DEFINE d == watch[n].c
           k == Key(c)
           added == watch[n].step = "added"
<1>1. PICK ts \in (clock[n] + 1)..MaxTs :
         /\ clock' = [clock EXCEPT ![n] = ts]
         /\ Write(n, ApplyMessage(Store(n), Announcement(n, d, added, ts)))
         /\ watch' = [watch EXCEPT ![n] =
                        [step |-> "send", c |-> d, msg |-> Announcement(n, d, added, ts)]]
  BY Zenon DEF Notify
<1> DEFINE msg == Announcement(n, d, added, ts)
           t == ApplyMessage(Store(n), msg)
<1>2. /\ ts \in Nat /\ ts > clock[n] /\ clock[n] \in Nat
      /\ d \in Containers /\ On[d] = n /\ watch[n] # Idle /\ watch[n].step \in {"added", "removed"}
      /\ added => d \in tracked[n] /\ d \in started
      /\ ~added => d \notin tracked[n] /\ d \in stopped
  <2>1. ts \in Nat /\ ts > clock[n] /\ clock[n] \in Nat
    BY SMTT(90), <1>1, ClusterAssumption DEF IInv, TypeOK
  <2>2. watch[n] # Idle /\ watch[n].step \in {"added", "removed"}
    BY Zenon DEF Notify
  <2> QED BY Zenon, <2>1, <2>2, WatchFields DEF IInv, WatchOk
<1>3. /\ msg \in Messages /\ t \in Stores /\ Store(n) \in Stores /\ k \in Hosts
      /\ On[c] \in Nodes
  BY Zenon, <1>2, AnnouncementType, StoreType, ApplyMessageType, ContainerFields DEF IInv
<1>t. t = ApplyMessage(Store(n), msg)
  BY Zenon
<1>4. /\ SettledMeta(n) = meta[n] /\ data'[n] = t.data /\ SettledMeta(n)' = t.meta
      /\ \A q \in Nodes \ {n} : data'[q] = data[q] /\ SettledMeta(q)' = SettledMeta(q)
  BY ZenonT(90), <1>1, <1>3, WriteEffect DEF IInv, Notify
<1> HIDE DEF t
<1>5. /\ clock'[n] = ts /\ \A q \in Nodes \ {n} : clock'[q] = clock[q] /\ watch'[q] = watch[q]
      /\ tracked' = tracked /\ crashes' = crashes /\ meta' = meta
      /\ started' = started /\ stopped' = stopped
  BY ZenonT(90), <1>1 DEF IInv, TypeOK, Notify, past
<1>6. \A q \in Nodes \ {n} : Kept(c, q)
  BY Zenon, <1>4 DEF Kept
<1>7. CASE d # c
  <2>1. Quiet(c)
    <3>1. clock'[On[c]] >= clock[On[c]]
      <4>1. clock[On[c]] \in Nat
        BY Zenon, <1>3 DEF IInv, TypeOK
      <4>2. (clock'[On[c]] = ts /\ n = On[c]) \/ clock'[On[c]] = clock[On[c]]
        BY Zenon, <1>3, <1>5
      <4> QED BY <1>2, <4>1, <4>2
    <3>2. watch[n] # [step |-> "added", c |-> c]
      BY SMTT(90), <1>7
    <3> QED BY Zenon, <1>3, <1>5, <3>1, <3>2 DEF Quiet, Bound
  <2>2. t.data[k] = data[n][k] /\ t.meta[k] = meta[n][k]
    <3>1. Lower[msg.host] # k
      BY Zenon, <1>2, <1>7, OtherKey DEF Announcement
    <3> HIDE DEF msg
    <3> QED BY SMTT(90), <1>t, <1>3, <3>1, AppliedAt DEF IInv
  <2>3. Kept(c, n)
    BY Zenon, <1>4, <2>2 DEF Kept
  <2>4. StepAt(c)
    BY Zenon, <1>3, <1>5, <1>6, <2>1, <2>3 DEF StepAt, AtOwner, Elsewhere
  <2> QED BY <1>7, <2>4
<1>8. CASE d = c /\ added
  <2>1. /\ msg.action = "add" /\ msg.ip = HostIP[n] /\ Lower[msg.host] = k
        /\ msg.meta = [ts |-> ts, node |-> n]
    BY Zenon, <1>8 DEF Announcement, Key
  <2>2. Outranks(msg.meta, meta[n][k])
    <3>1. meta[n][k] = NoMeta \/ OkMeta(c, meta[n][k], Limit(c))
      BY Zenon DEF IInv, CInv, StoreOk
    <3>2. meta[n][k] = NoMeta \/ meta[n][k].ts <= clock[n]
      BY <1>2, <1>8, <3>1 DEF OkMeta, Limit, ZeroMeta
    <3>3. meta[n][k] = NoMeta \/ meta[n][k].ts \in Nat
      BY SMTT(90), <1>3, MetaFields DEF IInv, TypeOK, MetaMaps
    <3> QED BY SMTT(90), <1>2, <2>1, <3>2, <3>3 DEF Outranks
  <2>3. t.data[k] = HostIP[n] /\ t.meta[k] = [ts |-> ts, node |-> n]
    <3> HIDE DEF msg
    <3> QED BY SMTT(90), <1>t, <1>3, <2>1, <2>2, AcceptedAt DEF IInv
  <2> HIDE DEF msg
  <2>4. StepAt(c)
    BY ZenonT(90), <1>2, <1>3, <1>4, <1>5, <1>6, <1>8, <2>3 DEF StepAt, AtOwner, Elsewhere
  <2> QED BY Zenon, <1>4, <1>5, <2>3, <2>4
<1>9. CASE d = c /\ ~added
  <2>1. Quiet(c)
    BY SMTT(90), <1>2, <1>5, <1>9, NotIdle DEF Quiet, Bound, IInv, TypeOK
  <2>2. Kept(c, n) \/ (crashes[n] # 0 /\ Removed(c, n))
    <3>1. msg.action = "remove"
      BY Zenon, <1>9 DEF Announcement
    <3>2. \/ t.data[k] = data[n][k] /\ t.meta[k] = meta[n][k]
          \/ data[n][k] # NoIP /\ t.data[k] = NoIP /\ t.meta[k] = NoMeta
      <4> HIDE DEF msg
      <4> QED BY SMTT(90), <1>t, <1>3, <3>1, AppliedAt DEF IInv
    <3>3. data[n][k] # NoIP => crashes[n] # 0
      BY Zenon, <1>2, <1>9 DEF IInv, CInv, OwnOk
    <3> QED BY Zenon, <1>2, <1>4, <1>9, <3>2, <3>3 DEF Kept, Removed
  <2>3. AtOwner(c)
    BY Zenon, <1>2, <1>9, <2>1, <2>2 DEF AtOwner
  <2>4. StepAt(c)
    BY Zenon, <1>2, <1>5, <1>6, <1>9, <2>3 DEF StepAt, Elsewhere
  <2>5. watch[n] # [step |-> "added", c |-> c]
    BY <1>9
  <2> QED BY Zenon, <2>4, <2>5
<1> QED BY Zenon, <1>7, <1>8, <1>9

LEMMA CrashAt ==
    ASSUME IInv, NEW c \in Containers, NEW n \in Nodes, Crash(n)
    PROVE  StepAt(c)
<1>1. On[c] \in Nodes /\ Key(c) \in Hosts
  BY Zenon, ContainerFields
<1>2. EmptyStore.data[Key(c)] = NoIP /\ EmptyStore.meta[Key(c)] = NoMeta
  BY Zenon, <1>1 DEF EmptyStore
<1>a. crashes'[n] # crashes[n] /\ UNCHANGED <<started, stopped>>
  BY SMTT(90) DEF Crash, past, IInv, TypeOK
<1>3. Removed(c, n) /\ meta'[n][Key(c)] = NoMeta
  BY Zenon, <1>2, <1>a DEF Crash, Removed, SettledMeta, IInv, TypeOK
<1>4. \A q \in Nodes \ {n} : Kept(c, q) /\ meta'[q] = meta[q]
  BY Zenon DEF Crash, Kept, SettledMeta, IInv, TypeOK
<1>5. CASE n = On[c]
  <2>1. crashes'[n] # 0 /\ tracked'[n] = {} /\ clock' = clock
    BY SMTT(90), <1>5 DEF Crash, IInv, TypeOK
  <2> QED BY Zenon, <1>a, <1>3, <1>4, <1>5, <2>1 DEF StepAt, AtOwner, Elsewhere
<1>6. CASE n # On[c]
  <2>1. Quiet(c)
    BY SMTT(90), <1>1, <1>6 DEF Crash, Quiet, Bound, IInv, TypeOK
  <2> QED BY Zenon, <1>a, <1>1, <1>3, <1>4, <1>6, <2>1 DEF StepAt, AtOwner, Elsewhere
<1> QED BY Zenon, <1>5, <1>6

(* Every step is one of the classified ones. *)
LEMMA EveryStepAt ==
    ASSUME IInv, [Next]_vars, NEW c \in Containers, Exclusive(c)
    PROVE  StepAt(c)
<1>1. TypeOK /\ CInv(c) /\ ChanForeign /\ On[c] \in Nodes /\ clock[On[c]] \in Nat
  BY Zenon, ContainerFields DEF IInv, TypeOK
<1>2. ASSUME NEW d \in Containers, ContainerStart(d) PROVE StepAt(c)
  BY Zenon, <1>2, StartAt
<1>3. ASSUME NEW d \in Containers, ContainerStop(d) PROVE StepAt(c)
  BY Zenon, <1>3, StopAt
<1>4. ASSUME NEW n \in Nodes, StoreMeta(n) PROVE StepAt(c)
  <2>1. Quiet(c)
    BY <1>1, <1>4 DEF StoreMeta, Quiet, Bound
  <2>2. \A p \in Nodes : SettledMeta(p)' = SettledMeta(p) /\ meta'[p] \in {meta[p], SettledMeta(p)}
    BY Zenon, <1>1, <1>4 DEF StoreMeta, SettledMeta, TypeOK
  <2> QED BY Zenon, <1>4, <2>1, <2>2, StillAt DEF StoreMeta
<1>5. ASSUME NEW n \in Nodes, Notify(n) PROVE StepAt(c)
  BY Zenon, <1>5, NotifyAt
<1>6. ASSUME UNCHANGED <<data, meta, pending, tracked, clock, crashes, past>>,
             watch' = watch \/ \E n \in Nodes : BroadcastRecord(n)
      PROVE  StepAt(c)
  <2>1. Bound(c)' => Bound(c)
    <3>1. CASE watch' = watch
      BY Zenon, <1>6, <3>1 DEF Bound
    <3>2. ASSUME NEW n \in Nodes, BroadcastRecord(n) PROVE Bound(c)' => Bound(c)
      <4>1. watch[n] # [step |-> "added", c |-> c] /\ crashes' = crashes
        BY <3>2 DEF BroadcastRecord
      <4>2. n # On[c] => watch'[On[c]] = watch[On[c]]
        BY Zenon, <1>1, <3>2 DEF BroadcastRecord, TypeOK
      <4> QED BY Zenon, <4>1, <4>2 DEF Bound
    <3> QED BY Zenon, <1>6, <3>1, <3>2
  <2>2. Quiet(c)
    BY <1>1, <1>6, <2>1 DEF Quiet
  <2>3. \A p \in Nodes : SettledMeta(p)' = SettledMeta(p) /\ meta'[p] \in {meta[p], SettledMeta(p)}
    BY Zenon, <1>6 DEF SettledMeta
  <2> QED BY Zenon, <1>6, <2>2, <2>3, StillAt
<1>7. ASSUME NEW n \in Nodes, ProcessMessage(n) PROVE StepAt(c)
  <2> DEFINE msg == Head(chan[n])
  <2>1. msg \in Messages /\ chan[n] # << >> /\ msg = chan[n][1] /\ 1 \in 1..Len(chan[n])
    BY SMTT(90), <1>1, <1>7 DEF ProcessMessage, TypeOK
  <2>2. OkMsg(c, msg, Limit(c)) /\ msg.meta.node # n
    BY Zenon, <1>1, <2>1 DEF CInv, MsgOk, ChanForeign
  <2>3. Quiet(c)
    <3>1. clock' = clock /\ watch' = watch /\ tracked' = tracked /\ crashes' = crashes
      BY Zenon, <1>7 DEF ProcessMessage
    <3> QED BY <1>1, <3>1 DEF Quiet, Bound
  <2>4. Write(n, ApplyMessage(Store(n), msg)) /\ meta' = meta /\ UNCHANGED past
    BY Zenon, <1>7 DEF ProcessMessage
  <2> HIDE DEF msg
  <2> QED BY Zenon, <2>1, <2>2, <2>3, <2>4, MessageAt
<1>8. ASSUME NEW n \in Nodes, NEW h \in Hosts, MergeRemoteState(n, h) PROVE StepAt(c)
  <2> DEFINE p == push[n].to
             entry == push[n].full[h]
             msg == EntryMessage(h, entry)
  <2>1. p \in Nodes /\ msg \in Messages /\ push[n] # NoPush /\ push[n].at # "meta"
    BY Zenon, <1>1, <1>8, PushFields, EntryType DEF MergeRemoteState
  <2>2. OkMsg(c, msg, Limit(c))
    <3>1. Lower[h] = h /\ entry.ip # NoIP
      BY Zenon, <1>8, LowerHosts DEF MergeRemoteState
    <3>2. h = Key(c) => entry.ip = HostIP[On[c]] /\ OkMeta(c, entry.meta, Limit(c))
      BY Zenon, <1>1, <2>1, <3>1 DEF CInv, PushOk
    <3> QED BY Zenon, <3>1, <3>2 DEF OkMsg, EntryMessage
  <2>3. Quiet(c)
    <3>1. clock' = clock /\ watch' = watch /\ tracked' = tracked /\ crashes' = crashes
      BY Zenon, <1>8 DEF MergeRemoteState
    <3> QED BY <1>1, <3>1 DEF Quiet, Bound
  <2>4. /\ Write(p, ApplyMessage(Store(p), msg)) /\ meta' = meta /\ msg.action = "add"
        /\ UNCHANGED past
    BY Zenon, <1>8 DEF MergeRemoteState, EntryMessage
  <2> HIDE DEF msg, p
  <2> QED BY Zenon, <2>1, <2>2, <2>3, <2>4, MessageAt
<1>9. ASSUME NEW n \in Nodes, Crash(n) PROVE StepAt(c)
  BY Zenon, <1>9, CrashAt
<1>10. ASSUME NEW n \in Nodes, BroadcastRecord(n) PROVE StepAt(c)
  BY Zenon, <1>6, <1>10 DEF BroadcastRecord
<1>11. ASSUME NEW n \in Nodes, NEW msg \in net, NotifyMsg(n, msg) PROVE StepAt(c)
  BY Zenon, <1>6, <1>11 DEF NotifyMsg
<1>12. ASSUME NEW n \in Nodes, NEW p \in Nodes, LocalStateData(n, p) PROVE StepAt(c)
  BY Zenon, <1>6, <1>12 DEF LocalStateData
<1>13. ASSUME NEW n \in Nodes,
              LocalStateMeta(n) \/ ReceiveState(n) \/ PushFail(n) \/ MergeDone(n)
       PROVE  StepAt(c)
  BY Zenon, <1>6, <1>13 DEF LocalStateMeta, ReceiveState, PushFail, MergeDone
<1>14. CASE UNCHANGED vars
  BY Zenon, <1>6, <1>14 DEF vars
<1>15. Next \/ UNCHANGED vars
  BY Zenon
<1> QED BY ZenonT(90), <1>2, <1>3, <1>4, <1>5, <1>7, <1>8, <1>9, <1>10, <1>11, <1>12, <1>13, <1>14,
           <1>15 DEF Next

-----------------------------------------------------------------------------
(* The argument as a whole.                                                 *)


LEMMA OwnMetaType ==
    ASSUME NEW n \in Nodes, NEW t \in Nat
    PROVE  [ts |-> t, node |-> n] \in Meta
BY Zenon, ClusterAssumption DEF Meta

(* The zero metadata outranks nothing. *)
LEMMA ZeroOk ==
    ASSUME NEW c \in Containers, NEW L, NEW m \in Meta, OkMeta(c, m, L),
           L.top \in Meta \cup {NoMeta}
    PROVE  OkMeta(c, ZeroMeta, L)
BY MetaFields DEF OkMeta, Outranks, ZeroMeta, Meta

(* What was allowed to circulate still is after the step. *)
LEMMA OkMetaStep ==
    ASSUME TypeOK, TypeOK', NEW c \in Containers, StepAt(c), NEW m \in Meta,
           OkMeta(c, m, Limit(c))
    PROVE  OkMeta(c, m, Limit(c)')
<1> DEFINE n == On[c]
           k == Key(c)
<1>1. /\ n \in Nodes /\ k \in Hosts /\ clock[n] \in Nat /\ clock'[n] \in Nat
      /\ m.ts \in Nat /\ m.node \in Nat
  BY Zenon, ContainerFields, MetaFields DEF TypeOK
<1>2. m = ZeroMeta \/ (m.node = n /\ m.ts <= clock[n])
  BY Zenon DEF OkMeta, Limit
<1>3. Bound(c) => ~Outranks(m, SettledMeta(n)[k])
  BY ZenonT(60) DEF OkMeta, Limit
<1>4. clock'[n] >= clock[n]
  BY <1>1 DEF StepAt, AtOwner, Quiet
<1>5. m = ZeroMeta \/ (m.node = n /\ m.ts <= clock'[n])
  BY <1>1, <1>2, <1>4
<1>6. Bound(c)' => ~Outranks(m, SettledMeta(n)'[k])
  <2>1. CASE SettledMeta(n)'[k] = [ts |-> clock'[n], node |-> n] /\ clock'[n] > clock[n]
    <3>1. SettledMeta(n)'[k] # NoMeta
      BY Zenon, <2>1, <1>1, OwnMetaType, MetaFields
    <3>2. m.ts < clock'[n]
      BY <1>1, <1>2, <2>1 DEF ZeroMeta
    <3> QED BY <1>1, <2>1, <3>1, <3>2 DEF Outranks
  <2>2. CASE (Bound(c)' => Bound(c)) /\ SettledMeta(n)'[k] = SettledMeta(n)[k]
    BY Zenon, <1>3, <2>2
  <2>3. CASE ~Bound(c)'
    BY Zenon, <2>3
  <2>4. \/ SettledMeta(n)'[k] = [ts |-> clock'[n], node |-> n] /\ clock'[n] > clock[n]
        \/ (Bound(c)' => Bound(c)) /\ SettledMeta(n)'[k] = SettledMeta(n)[k]
        \/ ~Bound(c)'
    BY Zenon DEF StepAt, AtOwner, Quiet, Kept, Bound
  <2> QED BY Zenon, <2>1, <2>2, <2>3, <2>4
<1>7. c \in started'
  BY Zenon DEF OkMeta, Limit, StepAt
<1> QED BY Zenon, <1>5, <1>6, <1>7 DEF OkMeta, Limit

(* The metadata the owner's store settles on is itself allowed. *)
LEMMA TopOk ==
    ASSUME TypeOK, TypeOK', NEW c \in Containers, StepAt(c), StoreOk(c),
           SettledMeta(On[c])'[Key(c)] # NoMeta
    PROVE  OkMeta(c, SettledMeta(On[c])'[Key(c)], Limit(c)')
<1> DEFINE n == On[c]
           k == Key(c)
           top == SettledMeta(n)'[k]
<1>1. n \in Nodes /\ k \in Hosts /\ clock'[n] \in Nat
  BY Zenon, ContainerFields DEF TypeOK
<1>2. top \in Meta
  BY <1>1 DEF TypeOK, SettledMeta, MetaMaps
<1>3. CASE top = [ts |-> clock'[n], node |-> n] /\ c \in started'
  <2>1. top.ts = clock'[n] /\ top.node = n
    BY <1>3
  <2>2. ~Outranks(top, top)
    BY Zenon, <1>2, OutranksOrder
  <2>3. top.ts <= clock'[n]
    BY <1>1, <2>1
  <2> QED BY Zenon, <1>3, <2>1, <2>2, <2>3 DEF OkMeta, Limit
<1>4. CASE OkMeta(c, top, Limit(c))
  BY Zenon, <1>2, <1>4, OkMetaStep
<1>5. CASE top = SettledMeta(n)[k]
  BY Zenon, <1>1, <1>2, <1>5, OkMetaStep DEF StoreOk
<1>6. \/ top = [ts |-> clock'[n], node |-> n] /\ c \in started'
      \/ OkMeta(c, top, Limit(c))
      \/ top = SettledMeta(n)[k]
  BY Zenon DEF StepAt, AtOwner, Kept, Accepted, Removed
<1> QED BY Zenon, <1>3, <1>4, <1>5, <1>6

LEMMA StoreStep ==
    ASSUME TypeOK, TypeOK', NEW c \in Containers, StepAt(c), StoreOk(c)
    PROVE  StoreOk(c)'
<1> DEFINE n == On[c]
           k == Key(c)
<1>1. n \in Nodes /\ k \in Hosts /\ HostIP[n] \in IPs /\ HostIP[n] # NoIP
  BY Zenon, ContainerFields, StoreAssumption
<1>2. ZeroMeta \in Meta /\ NoMeta \notin Meta
  BY ZenonT(60), MetaFields
<1>3. Limit(c).top \in Meta \cup {NoMeta} /\ Limit(c)'.top \in Meta \cup {NoMeta}
  BY SMTT(90), <1>1 DEF Limit, TypeOK, SettledMeta, MetaMaps
<1>4. ASSUME NEW p \in Nodes, Accepted(c, p)
      PROVE  OkMeta(c, SettledMeta(p)'[k], Limit(c)') /\ OkMeta(c, ZeroMeta, Limit(c)')
  BY Zenon, <1>3, <1>4, OkMetaStep, ZeroOk, <1>2 DEF Accepted
<1>5. ASSUME NEW p \in Nodes
      PROVE  /\ data'[p][k] \in {NoIP, HostIP[n]}
             /\ data'[p][k] # NoIP => OkMeta(c, ZeroMeta, Limit(c)')
  <2>1. /\ data[p][k] \in {NoIP, HostIP[n]}
        /\ data[p][k] # NoIP => OkMeta(c, ZeroMeta, Limit(c)')
    BY Zenon, <1>2, OkMetaStep DEF StoreOk
  <2>2. CASE Kept(c, p)
    BY Zenon, <2>1, <2>2 DEF Kept
  <2>3. CASE Accepted(c, p)
    BY Zenon, <1>4, <2>3 DEF Accepted
  <2>4. CASE data'[p][k] = NoIP
    BY Zenon, <2>4
  <2>5. CASE p = n /\ ~Bound(c)' /\ data'[n][k] = HostIP[n] /\ c \in started'
    BY Zenon, <2>5 DEF OkMeta, Limit
  <2>6. CASE p = n /\ data'[n][k] = HostIP[n] /\ SettledMeta(n)'[k] = [ts |-> clock'[n], node |-> n]
    <3>1. SettledMeta(n)'[k] \in Meta
      BY <1>1, <2>6, OwnMetaType DEF TypeOK
    <3>2. OkMeta(c, SettledMeta(n)'[k], Limit(c)')
      BY Zenon, <1>2, <3>1, TopOk
    <3>3. OkMeta(c, ZeroMeta, Limit(c)')
      BY Zenon, <1>3, <3>1, <3>2, ZeroOk
    <3> QED BY Zenon, <2>6, <3>3
  <2> QED BY Zenon, <2>2, <2>3, <2>4, <2>5, <2>6 DEF StepAt, AtOwner, Elsewhere, Removed
<1>6. ASSUME NEW p \in Nodes, SettledMeta(p)'[k] # NoMeta
      PROVE  OkMeta(c, SettledMeta(p)'[k], Limit(c)')
  <2>1. CASE p = n
    BY Zenon, <1>6, <2>1, TopOk
  <2>2. CASE p # n /\ Kept(c, p)
    <3>1. SettledMeta(p)[k] \in Meta
      BY <1>1, <1>6, <2>2 DEF Kept, TypeOK, SettledMeta, MetaMaps
    <3> QED BY Zenon, <1>6, <2>2, <3>1, OkMetaStep DEF Kept, StoreOk
  <2>3. CASE p # n /\ Accepted(c, p)
    BY Zenon, <1>4, <2>3
  <2> QED BY Zenon, <1>6, <2>1, <2>2, <2>3 DEF StepAt, Elsewhere, Removed
<1>7. ASSUME NEW p \in Nodes, meta'[p][k] # NoMeta
      PROVE  OkMeta(c, meta'[p][k], Limit(c)')
  <2>1. meta'[p][k] \in Meta
    BY SMTT(90), <1>1, <1>7 DEF TypeOK, MetaMaps
  <2> QED BY Zenon, <1>7, <2>1, OkMetaStep DEF StepAt, StoreOk
<1> QED BY Zenon, <1>5, <1>6, <1>7 DEF StoreOk

LEMMA OwnStep ==
    ASSUME IInv, NEW c \in Containers, Exclusive(c), StepAt(c)
    PROVE  OwnOk(c)'
<1> DEFINE n == On[c]
<1>1. n \in Nodes /\ OwnOk(c)
  BY Zenon, ContainerFields DEF IInv, CInv
<1>2. crashes[n] = 0 /\ ~Bound(c) => c \in tracked[n]
  BY <1>1, NotIdle DEF Bound, IInv, WatchOk
<1> QED BY Zenon, <1>1, <1>2 DEF OwnOk, StepAt, AtOwner, Quiet, Kept, Accepted, Removed

(* What a step adds to the network, the channels and the watchers. *)
NewMessages ==
    /\ \A msg \in net' : msg \in net
          \/ \E p \in Nodes : watch[p] # Idle /\ watch[p].step = "send" /\ msg = watch[p].msg
    /\ \A p \in Nodes : \A i \in 1..Len(chan'[p]) :
          \/ \E j \in 1..Len(chan[p]) : chan'[p][i] = chan[p][j]
          \/ chan'[p][i] \in net /\ chan'[p][i].meta.node # p
    /\ \A p \in Nodes : watch'[p] # Idle /\ watch'[p].step = "send" =>
          watch'[p] = watch[p] \/ Notify(p)

LEMMA ChanAppend ==
    ASSUME NEW q \in Seq(Messages), NEW msg \in Messages, NEW i \in 1..Len(Append(q, msg))
    PROVE  (i \in 1..Len(q) /\ Append(q, msg)[i] = q[i]) \/ Append(q, msg)[i] = msg
OBVIOUS

LEMMA ChanTail ==
    ASSUME NEW q \in Seq(Messages), q # << >>, NEW i \in 1..Len(Tail(q))
    PROVE  \E j \in 1..Len(q) : Tail(q)[i] = q[j]
<1>1. i + 1 \in 1..Len(q) /\ Tail(q)[i] = q[i + 1]
  OBVIOUS
<1> QED BY Zenon, <1>1

LEMMA MessagesStep ==
    ASSUME TypeOK, [Next]_vars
    PROVE  NewMessages
<1>1. ASSUME net' = net, chan' = chan,
             \A p \in Nodes : watch'[p] # Idle /\ watch'[p].step = "send" =>
                watch'[p] = watch[p] \/ Notify(p)
      PROVE  NewMessages
  BY Zenon, <1>1 DEF NewMessages
<1>2. ASSUME NEW d \in Containers, ContainerStart(d) \/ ContainerStop(d) PROVE NewMessages
  BY SMTT(90), <1>1, <1>2, ContainerFields DEF ContainerStart, ContainerStop, TypeOK
<1>3. ASSUME NEW n \in Nodes, StoreMeta(n) PROVE NewMessages
  BY Zenon, <1>1, <1>3 DEF StoreMeta
<1>4. ASSUME NEW n \in Nodes, Notify(n) PROVE NewMessages
  <2>1. net' = net /\ chan' = chan /\ \A p \in Nodes \ {n} : watch'[p] = watch[p]
    BY ZenonT(90), <1>4 DEF Notify, TypeOK
  <2> QED BY Zenon, <1>1, <1>4, <2>1
<1>5. ASSUME NEW n \in Nodes, BroadcastRecord(n) PROVE NewMessages
  BY Zenon, <1>5 DEF BroadcastRecord, NewMessages, TypeOK
<1>6. ASSUME NEW n \in Nodes, NEW msg \in net, NotifyMsg(n, msg) PROVE NewMessages
  <2>1. net' = net /\ watch' = watch /\ msg.meta.node # n /\ msg \in Messages
    BY Zenon, <1>6 DEF NotifyMsg, TypeOK
  <2>2. CASE chan' = chan
    BY Zenon, <1>1, <2>1, <2>2
  <2>3. CASE chan' = [chan EXCEPT ![n] = Append(chan[n], msg)]
    <3>1. chan[n] \in Seq(Messages) /\ chan'[n] = Append(chan[n], msg)
      BY Zenon, <2>3 DEF TypeOK
    <3>2. \A p \in Nodes \ {n} : chan'[p] = chan[p]
      BY Zenon, <2>3 DEF TypeOK
    <3>3. \A i \in 1..Len(chan'[n]) :
             (i \in 1..Len(chan[n]) /\ chan'[n][i] = chan[n][i]) \/ chan'[n][i] = msg
      BY ZenonT(90), <2>1, <3>1, ChanAppend
    <3> QED BY ZenonT(90), <2>1, <3>2, <3>3 DEF NewMessages
  <2> QED BY Zenon, <1>6, <2>2, <2>3 DEF NotifyMsg
<1>7. ASSUME NEW n \in Nodes, ProcessMessage(n) PROVE NewMessages
  <2>1. /\ chan[n] \in Seq(Messages) /\ chan[n] # << >> /\ chan'[n] = Tail(chan[n])
        /\ net' = net /\ watch' = watch
    BY Zenon, <1>7 DEF ProcessMessage, TypeOK
  <2>2. \A p \in Nodes \ {n} : chan'[p] = chan[p]
    BY Zenon, <1>7 DEF ProcessMessage, TypeOK
  <2>3. \A i \in 1..Len(chan'[n]) : \E j \in 1..Len(chan[n]) : chan'[n][i] = chan[n][j]
    BY <2>1, ChanTail
  <2> QED BY ZenonT(90), <2>1, <2>2, <2>3 DEF NewMessages
<1>8. ASSUME NEW n \in Nodes, NEW p \in Nodes, LocalStateData(n, p) PROVE NewMessages
  BY Zenon, <1>1, <1>8 DEF LocalStateData
<1>9. ASSUME NEW n \in Nodes,
             LocalStateMeta(n) \/ ReceiveState(n) \/ PushFail(n) \/ MergeDone(n)
      PROVE  NewMessages
  BY Zenon, <1>1, <1>9 DEF LocalStateMeta, ReceiveState, PushFail, MergeDone
<1>10. ASSUME NEW n \in Nodes, NEW h \in Hosts, MergeRemoteState(n, h) PROVE NewMessages
  BY Zenon, <1>1, <1>10 DEF MergeRemoteState
<1>11. ASSUME NEW n \in Nodes, Crash(n) PROVE NewMessages
  <2>1. /\ net' = net /\ chan'[n] = << >> /\ watch'[n] = Idle
        /\ \A p \in Nodes \ {n} : chan'[p] = chan[p] /\ watch'[p] = watch[p]
    BY Zenon, <1>11 DEF Crash, TypeOK
  <2>2. 1..Len(chan'[n]) = {}
    BY <2>1
  <2> QED BY Zenon, <2>1, <2>2 DEF NewMessages
<1>12. CASE UNCHANGED vars
  BY Zenon, <1>1, <1>12 DEF vars
<1>13. Next \/ UNCHANGED vars
  BY Zenon
<1> QED BY ZenonT(90), <1>2, <1>3, <1>4, <1>5, <1>6, <1>7, <1>8, <1>9, <1>10, <1>11, <1>12, <1>13
        DEF Next

LEMMA ChanStep ==
    ASSUME ChanForeign, NewMessages
    PROVE  ChanForeign'
BY ZenonT(90) DEF ChanForeign, NewMessages

(* The message the watcher is left with after Notify is allowed. *)
LEMMA NotifyMessage ==
    ASSUME IInv, TypeOK', NEW c \in Containers, Exclusive(c), NEW n \in Nodes, Notify(n),
           StoreOk(c)'
    PROVE  OkMsg(c, watch'[n].msg, Limit(c)')
<1> DEFINE d == watch[n].c
           added == watch[n].step = "added"
<1>1. PICK ts \in (clock[n] + 1)..MaxTs :
         /\ clock' = [clock EXCEPT ![n] = ts]
         /\ watch' = [watch EXCEPT ![n] =
                        [step |-> "send", c |-> d, msg |-> Announcement(n, d, added, ts)]]
  BY Zenon DEF Notify
<1>2. d \in Containers /\ On[d] = n /\ clock'[n] = ts /\ ts \in Nat
  BY <1>1, WatchFields DEF Notify, IInv, TypeOK, WatchOk
<1>3. ~added => d \in stopped'
  BY Zenon DEF Notify, IInv, WatchOk, past
<1>4. watch'[n].msg = Announcement(n, d, added, ts)
  BY Zenon, <1>1 DEF IInv, TypeOK
<1> DEFINE msg == watch'[n].msg
<1> SUFFICES OkMsg(c, msg, Limit(c)')
  OBVIOUS
<1> HIDE DEF d, msg
<1>5. CASE added
  <2>1. msg = [action |-> "add", host |-> Label[d], ip |-> HostIP[n],
               meta |-> [ts |-> ts, node |-> n]]
    BY Zenon, <1>4, <1>5 DEF Announcement, msg
  <2>2. CASE d # c
    <3>1. Lower[msg.host] # Key(c)
      BY Zenon, <1>2, <2>1, <2>2, OtherKey
    <3> QED BY Zenon, <3>1 DEF OkMsg
  <2>3. CASE d = c
    <3>1. watch[n] = [step |-> "added", c |-> c]
      BY Zenon, <1>5, <2>3 DEF IInv, TypeOK, WatchStates, Notify, d
    <3>2. SettledMeta(n)'[Key(c)] = [ts |-> ts, node |-> n]
      BY Zenon, <1>2, <3>1, NotifyAt
    <3>3. [ts |-> ts, node |-> n] # NoMeta
      BY Zenon, <1>2, OwnMetaType, MetaFields
    <3>4. OkMeta(c, [ts |-> ts, node |-> n], Limit(c)') /\ On[c] = n
      BY Zenon, <1>2, <2>3, <3>2, <3>3 DEF StoreOk
    <3>5. OkMeta(c, msg.meta, Limit(c)') /\ msg.ip = HostIP[n]
      BY Zenon, <2>1, <3>4
    <3>6. msg.action = "add"
      BY Zenon, <2>1
    <3> QED BY Zenon, <3>4, <3>5, <3>6 DEF OkMsg
  <2> QED BY Zenon, <2>2, <2>3
<1>6. CASE ~added
  <2>1. msg = [action |-> "remove", host |-> Label[d], ip |-> NoIP,
               meta |-> [ts |-> ts, node |-> n]]
    BY Zenon, <1>4, <1>6 DEF Announcement, msg
  <2>2. CASE d # c
    <3>1. Lower[msg.host] # Key(c)
      BY Zenon, <1>2, <2>1, <2>2, OtherKey
    <3> QED BY Zenon, <3>1 DEF OkMsg
  <2>3. CASE d = c
    <3>1. msg.action = "remove" /\ msg.meta.node = n
      BY Zenon, <2>1
    <3> QED BY Zenon, <1>2, <1>3, <1>6, <2>3, <3>1 DEF OkMsg, Limit
  <2> QED BY Zenon, <2>2, <2>3
<1> QED BY Zenon, <1>5, <1>6

LEMMA MsgStep ==
    ASSUME IInv, TypeOK', NEW c \in Containers, Exclusive(c), StepAt(c), NewMessages,
           StoreOk(c)'
    PROVE  MsgOk(c)'
<1>1. TypeOK /\ MsgOk(c)
  BY Zenon DEF IInv, CInv
<1>2. ASSUME NEW msg \in Messages, OkMsg(c, msg, Limit(c))
      PROVE  OkMsg(c, msg, Limit(c)')
  <2>1. Limit(c).stopped => Limit(c)'.stopped
    BY Zenon DEF Limit, StepAt
  <2> QED BY Zenon, <1>1, <1>2, <2>1, MessageFields, OkMetaStep DEF OkMsg
<1>3. ASSUME NEW msg \in net PROVE OkMsg(c, msg, Limit(c)')
  BY Zenon, <1>1, <1>2 DEF MsgOk, TypeOK
<1>4. ASSUME NEW p \in Nodes, NEW i \in 1..Len(chan[p]) PROVE OkMsg(c, chan[p][i], Limit(c)')
  <2>1. chan[p] \in Seq(Messages)
    BY Zenon, <1>1 DEF TypeOK
  <2>2. chan[p][i] \in Messages
    BY SMTT(90), <2>1
  <2> QED BY Zenon, <1>1, <1>2, <2>2 DEF MsgOk
<1>5. ASSUME NEW p \in Nodes, watch[p] # Idle, watch[p].step = "send"
      PROVE  OkMsg(c, watch[p].msg, Limit(c)')
  BY Zenon, <1>1, <1>2, <1>5, WatchFields DEF MsgOk
<1>6. \A msg \in net' : OkMsg(c, msg, Limit(c)')
  BY ZenonT(90), <1>3, <1>5 DEF NewMessages
<1>7. \A p \in Nodes : \A i \in 1..Len(chan'[p]) : OkMsg(c, chan'[p][i], Limit(c)')
  BY ZenonT(90), <1>3, <1>4 DEF NewMessages
<1>8. ASSUME NEW p \in Nodes, watch'[p] # Idle, watch'[p].step = "send"
      PROVE  OkMsg(c, watch'[p].msg, Limit(c)')
  <2>1. CASE watch'[p] = watch[p]
    BY Zenon, <1>5, <1>8, <2>1
  <2>2. CASE Notify(p)
    BY Zenon, <2>2, NotifyMessage
  <2> QED BY Zenon, <1>8, <2>1, <2>2 DEF NewMessages
<1> QED BY Zenon, <1>6, <1>7, <1>8 DEF MsgOk

LEMMA PushStep ==
    ASSUME IInv, TypeOK', [Next]_vars, NEW c \in Containers, Exclusive(c), StepAt(c)
    PROVE  PushOk(c)'
<1> DEFINE n == On[c]
           k == Key(c)
           Safe(ip) == /\ ip \in {NoIP, HostIP[n]}
                       /\ ip # NoIP => OkMeta(c, ZeroMeta, Limit(c)')
           SafeEntry(e) == /\ e.ip \in {NoIP, HostIP[n]}
                           /\ e.ip # NoIP => OkMeta(c, e.meta, Limit(c)')
           SafePush(q) == /\ q.at = "meta" => Safe(q.data[k])
                          /\ q.at # "meta" => SafeEntry(q.full[k])
<1>1. TypeOK /\ StoreOk(c) /\ PushOk(c) /\ n \in Nodes /\ k \in Hosts
  BY Zenon, ContainerFields DEF IInv, CInv
<1>2. ASSUME NEW p \in Nodes
      PROVE  Safe(data[p][k]) /\ (meta[p][k] # NoMeta => OkMeta(c, meta[p][k], Limit(c)'))
  <2>1. meta[p][k] \in Meta \cup {NoMeta}
    BY SMTT(90), <1>1 DEF TypeOK, MetaMaps
  <2> QED BY Zenon, <1>1, <2>1, OkMetaStep, MetaFields DEF StoreOk
<1>2a. \A m \in Meta : OkMeta(c, m, Limit(c)) => OkMeta(c, m, Limit(c)')
  BY Zenon, <1>1, OkMetaStep
<1>3. ASSUME NEW p \in Nodes, push[p] # NoPush
      PROVE  SafePush(push[p])
  <2>1. CASE push[p].at = "meta"
    <3>1. /\ push[p].data[k] \in {NoIP, HostIP[n]}
          /\ push[p].data[k] # NoIP => OkMeta(c, ZeroMeta, Limit(c))
      BY Zenon, <1>1, <1>3, <2>1 DEF PushOk
    <3>2. Safe(push[p].data[k])
      BY Zenon, <1>2a, <3>1, MetaFields
    <3> HIDE DEF Safe, SafeEntry
    <3> QED BY Zenon, <2>1, <3>2
  <2>2. CASE push[p].at # "meta"
    <3>1. push[p].full[k].meta \in Meta
      BY Zenon, <1>1, <1>3, <2>2, PushFields, EntryType
    <3>2. /\ push[p].full[k].ip \in {NoIP, HostIP[n]}
          /\ push[p].full[k].ip # NoIP => OkMeta(c, push[p].full[k].meta, Limit(c))
      BY Zenon, <1>1, <1>3, <2>2 DEF PushOk
    <3>3. SafeEntry(push[p].full[k])
      BY Zenon, <1>2a, <3>1, <3>2
    <3> HIDE DEF Safe, SafeEntry
    <3> QED BY Zenon, <2>2, <3>3
  <2> HIDE DEF SafePush
  <2> QED BY Zenon, <2>1, <2>2
<1>4. SUFFICES \A p \in Nodes : push'[p] # NoPush => SafePush(push'[p])
  BY Zenon DEF PushOk
<1> HIDE DEF SafePush
<1>5. ASSUME NEW m \in Nodes, NEW q, push' = [push EXCEPT ![m] = q], q = NoPush \/ SafePush(q)
      PROVE  \A p \in Nodes : push'[p] # NoPush => SafePush(push'[p])
  BY Zenon, <1>1, <1>3, <1>5 DEF TypeOK
<1> USE DEF SafePush
<1>6. ASSUME NEW m \in Nodes, NEW p \in Nodes, LocalStateData(m, p)
      PROVE  \A r \in Nodes : push'[r] # NoPush => SafePush(push'[r])
  <2> DEFINE q == [at |-> "meta", to |-> p, data |-> data[m]]
  <2>1. push' = [push EXCEPT ![m] = q] /\ SafePush(q)
    BY Zenon, <1>2, <1>6 DEF LocalStateData
  <2> HIDE DEF q, SafePush
  <2> QED BY Zenon, <1>5, <2>1
<1>7. ASSUME NEW m \in Nodes, LocalStateMeta(m)
      PROVE  \A r \in Nodes : push'[r] # NoPush => SafePush(push'[r])
  <2> DEFINE full == Snapshot(push[m].data, meta[m])
             q == [at |-> "wire", to |-> push[m].to, full |-> full]
  <2>1. push' = [push EXCEPT ![m] = q] /\ Safe(push[m].data[k])
    BY Zenon, <1>3, <1>7 DEF LocalStateMeta
  <2>2. full[k].ip = push[m].data[k] /\ full[k].meta \in {ZeroMeta, meta[m][k]}
        /\ (full[k].meta = ZeroMeta \/ meta[m][k] # NoMeta)
    BY Zenon, <1>1 DEF Snapshot
  <2>3. SafePush(q)
    <3> HIDE DEF full
    <3> QED BY Zenon, <1>2, <2>1, <2>2
  <2> HIDE DEF q, SafePush
  <2> QED BY Zenon, <1>5, <2>1, <2>3
<1>8. ASSUME NEW m \in Nodes, ReceiveState(m)
      PROVE  \A r \in Nodes : push'[r] # NoPush => SafePush(push'[r])
  <2> DEFINE q == [at |-> "merge", to |-> push[m].to, full |-> push[m].full]
  <2>1. push' = [push EXCEPT ![m] = q] /\ SafePush(q)
    BY Zenon, <1>3, <1>8 DEF ReceiveState
  <2> HIDE DEF q, SafePush
  <2> QED BY Zenon, <1>5, <2>1
<1>9. ASSUME NEW m \in Nodes, NEW h \in Hosts, MergeRemoteState(m, h)
      PROVE  \A r \in Nodes : push'[r] # NoPush => SafePush(push'[r])
  <2> DEFINE full == [push[m].full EXCEPT ![h] = NoEntry]
             q == [at |-> "merge", to |-> push[m].to, full |-> full]
  <2>1. push' = [push EXCEPT ![m] = q] /\ SafeEntry(push[m].full[k])
    BY Zenon, <1>3, <1>9 DEF MergeRemoteState
  <2>2. full[k] = NoEntry \/ full[k] = push[m].full[k]
    BY Zenon, <1>1, <1>9, PushFields DEF MergeRemoteState, FullStates
  <2>3. SafePush(q)
    <3> HIDE DEF full
    <3> QED BY <2>1, <2>2 DEF NoEntry
  <2> HIDE DEF q, SafePush
  <2> QED BY Zenon, <1>5, <2>1, <2>3
<1> HIDE DEF SafePush
<1>10. ASSUME NEW m \in Nodes, PushFail(m) \/ MergeDone(m)
       PROVE  \A r \in Nodes : push'[r] # NoPush => SafePush(push'[r])
  BY Zenon, <1>5, <1>10 DEF PushFail, MergeDone
<1>11. ASSUME NEW m \in Nodes, Crash(m)
       PROVE  \A r \in Nodes : push'[r] # NoPush => SafePush(push'[r])
  BY Zenon, <1>3, <1>11 DEF Crash
<1>12. CASE push' = push
  BY Zenon, <1>3, <1>12
<1>13. \/ push' = push
       \/ \E m, p \in Nodes : LocalStateData(m, p)
       \/ \E m \in Nodes : LocalStateMeta(m) \/ ReceiveState(m) \/ PushFail(m) \/ MergeDone(m)
       \/ \E m \in Nodes, h \in Hosts : MergeRemoteState(m, h)
       \/ \E m \in Nodes : Crash(m)
  BY Zenon DEF Next, vars, ContainerStart, ContainerStop, StoreMeta, Notify, BroadcastRecord,
         NotifyMsg, ProcessMessage
<1> QED BY ZenonT(90), <1>6, <1>7, <1>8, <1>9, <1>10, <1>11, <1>12, <1>13

LEMMA WatchStep ==
    ASSUME TypeOK, WatchOk, [Next]_vars
    PROVE  WatchOk'
<1>1. ASSUME NEW c \in Containers, ContainerStart(c) \/ ContainerStop(c) PROVE WatchOk'
  <2>1. On[c] \in Nodes
    BY Zenon, ContainerFields
  <2>2. CASE ContainerStart(c)
    BY ZenonT(90), <2>1, <2>2 DEF ContainerStart, WatchOk, TypeOK
  <2>3. CASE ContainerStop(c)
    BY Zenon, <2>1, <2>3 DEF ContainerStop, WatchOk, TypeOK
  <2> QED BY Zenon, <1>1, <2>2, <2>3
<1>2. ASSUME NEW n \in Nodes, Notify(n) PROVE WatchOk'
  <2>1. /\ tracked' = tracked /\ watch'[n].step = "send" /\ watch'[n].c = watch[n].c
        /\ watch[n] # Idle /\ \A p \in Nodes \ {n} : watch'[p] = watch[p]
        /\ started' = started /\ stopped' = stopped
    BY SMTT(90), <1>2 DEF Notify, TypeOK, past
  <2> QED BY ZenonT(90), <2>1 DEF WatchOk
<1>3. ASSUME NEW n \in Nodes, BroadcastRecord(n) PROVE WatchOk'
  BY Zenon, <1>3 DEF BroadcastRecord, WatchOk, TypeOK, past
<1>4. ASSUME NEW n \in Nodes, Crash(n) PROVE WatchOk'
  BY Zenon, <1>4 DEF Crash, WatchOk, TypeOK, past
<1>5. CASE watch' = watch /\ tracked' = tracked /\ UNCHANGED past
  BY Zenon, <1>5 DEF WatchOk, past
<1>6. \/ watch' = watch /\ tracked' = tracked /\ UNCHANGED past
      \/ \E c \in Containers : ContainerStart(c) \/ ContainerStop(c)
      \/ \E n \in Nodes : Notify(n) \/ BroadcastRecord(n) \/ Crash(n)
  BY Zenon DEF Next, vars, StoreMeta, NotifyMsg, ProcessMessage, LocalStateData, LocalStateMeta,
         ReceiveState, PushFail, MergeRemoteState, MergeDone
<1> QED BY ZenonT(90), <1>1, <1>2, <1>3, <1>4, <1>5, <1>6
----------------------------------------------------------------------------
LEMMA InitIInv == Init => IInv
<1> SUFFICES ASSUME Init PROVE IInv
  BY Zenon
<1>1. TypeOK
  BY Zenon, TypeInit
<1>2. \A p \in Nodes : chan[p] = << >> /\ 1..Len(chan[p]) = {} /\ watch[p] = Idle /\ push[p] = NoPush
  BY DEF Init
<1>3. ChanForeign /\ WatchOk
  BY Zenon, <1>2 DEF ChanForeign, WatchOk
<1>4. ASSUME NEW c \in Containers PROVE CInv(c)
  <2>1. On[c] \in Nodes /\ Key(c) \in Hosts
    BY Zenon, ContainerFields
  <2>2. \A p \in Nodes : /\ data[p][Key(c)] = NoIP /\ meta[p][Key(c)] = NoMeta
                          /\ SettledMeta(p)[Key(c)] = NoMeta
    BY Zenon, <2>1 DEF Init, EmptyStore, SettledMeta
  <2>3. net = {} /\ tracked[On[c]] = {}
    BY Zenon, <2>1 DEF Init
  <2> QED BY Zenon, <1>2, <2>1, <2>2, <2>3 DEF CInv, StoreOk, MsgOk, PushOk, OwnOk
<1> QED BY Zenon, <1>1, <1>3, <1>4 DEF IInv

LEMMA NextIInv ==
    ASSUME IInv, [Next]_vars
    PROVE  IInv'
<1>1. TypeOK' /\ NewMessages
  BY Zenon, TypeStep, MessagesStep DEF IInv
<1>2. ChanForeign' /\ WatchOk'
  BY Zenon, <1>1, ChanStep, WatchStep DEF IInv
<1>3. ASSUME NEW c \in Containers, Exclusive(c) PROVE CInv(c)'
  <2>1. StepAt(c)
    BY Zenon, <1>3, EveryStepAt
  <2>2. StoreOk(c)'
    BY Zenon, <1>1, <1>3, <2>1, StoreStep DEF IInv, CInv
  <2>3. MsgOk(c)' /\ PushOk(c)' /\ OwnOk(c)'
    BY Zenon, <1>1, <1>3, <2>1, <2>2, MsgStep, PushStep, OwnStep
  <2> QED BY Zenon, <2>2, <2>3 DEF CInv
<1>4. \A c \in Containers : Exclusive(c)' => Exclusive(c)
  BY Zenon DEF Exclusive, Key
<1> QED BY Zenon, <1>1, <1>2, <1>3, <1>4 DEF IInv

(* The inductive invariant behind the theorems below holds throughout. *)
THEOREM Invariance == Spec => []IInv
BY InitIInv, NextIInv, PTL DEF Spec

(* A node that tracks a container with a hostname of its own answers with  *)
(* its own address, in any cluster.                                        *)
THEOREM ServesOwn == Spec => []OwnerServes
<1>1. IInv => OwnerServes
  BY Zenon DEF IInv, CInv, OwnOk, OwnerServes
<1> QED BY <1>1, Invariance, PTL

(* A node that never crashed does not get the hostname of its stopped      *)
(* container back from any peer.                                           *)
THEOREM ForgetsOwn == Spec => []OwnerForgets
<1>1. IInv => OwnerForgets
  BY Zenon DEF IInv, CInv, OwnOk, OwnerForgets
<1> QED BY <1>1, Invariance, PTL

(* NotifyRecordAdd's local ApplyMessage is never rejected for a hostname   *)
(* that only this container has.                                           *)
THEOREM AcceptsOwn == Spec => AnnouncementAccepted
<1> DEFINE A == \A c \in Containers :
                  LET n == On[c] IN
                  (Exclusive(c) /\ watch[n] = [step |-> "added", c |-> c] /\ watch'[n] # watch[n]
                     /\ watch'[n] # Idle)
                      => SettledMeta(n)'[Key(c)] = [ts |-> clock'[n], node |-> n]
<1>1. ASSUME IInv, [Next]_vars PROVE [A]_vars
  <2> SUFFICES ASSUME NEW c \in Containers, Exclusive(c), watch[On[c]] = [step |-> "added", c |-> c],
                      watch'[On[c]] # watch[On[c]], watch'[On[c]] # Idle
               PROVE  SettledMeta(On[c])'[Key(c)] = [ts |-> clock'[On[c]], node |-> On[c]]
    BY Zenon
  <2> DEFINE n == On[c]
  <2>1. n \in Nodes /\ TypeOK /\ watch[n] # Idle /\ watch[n].step = "added"
    <3>1. n \in Nodes
      BY Zenon, ContainerFields
    <3>2. TypeOK
      BY Zenon, <1>1 DEF IInv
    <3>3. watch[n] # Idle
      BY Zenon, NotIdle
    <3>4. watch[n].step = "added"
      BY SMTT(90)
    <3> QED BY Zenon, <3>1, <3>2, <3>3, <3>4
  <2>2. Notify(n)
    <3>1. ASSUME NEW d \in Containers, ContainerStart(d) \/ ContainerStop(d) PROVE FALSE
      BY Zenon, <2>1, <3>1, ContainerFields DEF ContainerStart, ContainerStop, TypeOK
    <3>2. ASSUME NEW m \in Nodes, BroadcastRecord(m) PROVE FALSE
      BY Zenon, <2>1, <3>2 DEF BroadcastRecord, TypeOK
    <3>3. ASSUME NEW m \in Nodes, Crash(m) PROVE FALSE
      BY Zenon, <2>1, <3>3 DEF Crash, TypeOK
    <3>4. ASSUME NEW m \in Nodes, Notify(m) PROVE m = n
      BY ZenonT(90), <2>1, <3>4 DEF Notify, TypeOK
    <3>5. \/ \E d \in Containers : ContainerStart(d) \/ ContainerStop(d)
          \/ \E m \in Nodes : Notify(m) \/ BroadcastRecord(m) \/ Crash(m)
      BY ZenonT(90), <1>1 DEF Next, vars, StoreMeta, NotifyMsg, ProcessMessage, LocalStateData,
                  LocalStateMeta, ReceiveState, PushFail, MergeRemoteState, MergeDone
    <3> QED BY Zenon, <3>1, <3>2, <3>3, <3>4, <3>5
  <2> QED BY Zenon, <1>1, <2>1, <2>2, NotifyAt
<1>2. Spec => [][A]_vars
  BY <1>1, Invariance, PTL DEF Spec
<1> QED BY Zenon, <1>2 DEF AnnouncementAccepted
----------------------------------------------------------------------------
(* The cluster as a directory.  A step shows in it as one change of one    *)
(* entry, as a container's start or stop, as a crash, or not at all.       *)
LEMMA OwnFacts ==
    ASSUME NEW c \in Own
    PROVE  /\ c \in Containers /\ Exclusive(c) /\ On[c] \in Nodes /\ Key(c) \in Hosts
           /\ \A d \in Containers : d # c => Key(d) # Key(c)
BY Zenon, ContainerFields DEF Own, Exclusive

(* Entries that do not change make no answer change, ... *)
LEMMA SameAnswers ==
    ASSUME \A q \in Nodes, d \in Own : data'[q][Key(d)] = data[q][Key(d)]
    PROVE  Answers' = Answers
BY DEF Answers

(* ... and one that does changes one answer. *)
LEMMA OneAnswer ==
    ASSUME NEW p \in Nodes, NEW c \in Own,
           \A q \in Nodes, d \in Own : q # p \/ d # c => data'[q][Key(d)] = data[q][Key(d)]
    PROVE  Answers' = [Answers EXCEPT ![p][c] = data'[p][Key(c)]]
BY ZenonT(60) DEF Answers

(* What one entry may become while no container comes or goes. *)
LEMMA EntryStep ==
    ASSUME IInv, NEW c \in Own, NEW p \in Nodes, StepAt(c), UNCHANGED <<tracked, crashes, past>>
    PROVE  \/ data'[p][Key(c)] = data[p][Key(c)]
           \/ /\ p # On[c] \/ (crashes[p] # 0 /\ c \notin tracked[On[c]])
              /\ \/ data'[p][Key(c)] = HostIP[On[c]] /\ c \in started
                 \/ data'[p][Key(c)] = NoIP /\ c \in stopped
<1>1. c \in Containers /\ Exclusive(c) /\ On[c] \in Nodes
  BY Zenon, OwnFacts
<1>2. OwnOk(c) /\ WatchOk
  BY Zenon, <1>1 DEF IInv, CInv
<1>3. UNCHANGED <<started, stopped>>
  BY Zenon DEF past
<1>4. CASE p # On[c]
  BY Zenon, <1>1, <1>3, <1>4 DEF StepAt, Elsewhere, Kept, Accepted, Removed, OkMeta, Limit
<1>5. CASE p = On[c]
  <2>1. c \in tracked[p] => data[p][Key(c)] = HostIP[p]
    BY Zenon, <1>2, <1>5 DEF OwnOk
  <2>2. c \notin tracked[p] /\ crashes[p] = 0 => data[p][Key(c)] = NoIP
    BY Zenon, <1>2, <1>5 DEF OwnOk
  <2>3. ~Bound(c) => crashes[p] # 0 \/ c \in tracked[p]
    BY <1>1, <1>2, <1>5, NotIdle DEF Bound, WatchOk
  <2>4. Accepted(c, p) => data'[p][Key(c)] = HostIP[p] /\ c \in started
    BY Zenon, <1>5 DEF Accepted, OkMeta, Limit
  <2> QED BY ZenonT(60), <1>3, <1>5, <2>1, <2>2, <2>3, <2>4 DEF StepAt, AtOwner, Kept, Removed
<1> QED BY Zenon, <1>4, <1>5

(* A step that applies one message shows as at most one change. *)
LEMMA MessageDir ==
    ASSUME IInv, \A c \in Own : StepAt(c), NEW p \in Nodes, NEW msg \in Messages,
           Write(p, ApplyMessage(Store(p), msg)), meta' = meta,
           UNCHANGED <<tracked, crashes, past>>
    PROVE  [Dir!Next]_Dir!vars
<1> DEFINE t == ApplyMessage(Store(p), msg)
<1>1. t \in Stores
  BY Zenon, StoreType, ApplyMessageType DEF IInv
<1>2. data'[p] = t.data /\ \A q \in Nodes \ {p} : data'[q] = data[q]
  BY Zenon, <1>1, WriteEffect DEF IInv
<1>3. ASSUME NEW d \in Own, Key(d) # Lower[msg.host] PROVE data'[p][Key(d)] = data[p][Key(d)]
  <2>1. Key(d) \in Hosts /\ t = ApplyMessage(Store(p), msg)
    BY Zenon, OwnFacts
  <2> HIDE DEF t
  <2>2. t.data[Key(d)] = data[p][Key(d)]
    BY SMTT(30), <1>3, <2>1, AppliedAt DEF IInv
  <2> QED BY Zenon, <1>2, <2>2
<1>4. UNCHANGED <<Up, Crashed, started \cap Own, stopped \cap Own>>
  BY Zenon DEF Up, Crashed, past
<1>5. CASE \A q \in Nodes, d \in Own : data'[q][Key(d)] = data[q][Key(d)]
  BY Zenon, <1>4, <1>5, SameAnswers DEF Dir!vars
<1>6. CASE \E q \in Nodes, d \in Own : data'[q][Key(d)] # data[q][Key(d)]
  <2>1. PICK q \in Nodes, c \in Own : data'[q][Key(c)] # data[q][Key(c)]
    BY Zenon, <1>6
  <2>2. q = p /\ Key(c) = Lower[msg.host]
    BY Zenon, <1>2, <1>3, <2>1
  <2>3. \A r \in Nodes, d \in Own : r # p \/ d # c => data'[r][Key(d)] = data[r][Key(d)]
    BY Zenon, <1>2, <1>3, <2>2, OwnFacts
  <2>4. Answers' = [Answers EXCEPT ![p][c] = data'[p][Key(c)]]
    BY Zenon, <2>3, OneAnswer
  <2>5. /\ p # On[c] \/ (crashes[p] # 0 /\ c \notin tracked[On[c]])
        /\ \/ data'[p][Key(c)] = HostIP[On[c]] /\ c \in started
           \/ data'[p][Key(c)] = NoIP /\ c \in stopped
    BY Zenon, <2>1, <2>2, EntryStep
  <2>6. Dir!Hearsay(p, c)
    <3>1. crashes[p] \in Nat
      BY Zenon DEF IInv, TypeOK
    <3>2. crashes[p] # 0 => p \in Crashed
      BY <3>1 DEF Crashed
    <3> QED BY Zenon, <2>5, <3>2 DEF Dir!Hearsay, Up
  <2>7. CASE data'[p][Key(c)] = HostIP[On[c]] /\ c \in started
    BY Zenon, <1>4, <2>4, <2>6, <2>7 DEF Dir!Next, Dir!Learn
  <2>8. CASE data'[p][Key(c)] = NoIP /\ c \in stopped
    BY Zenon, <1>4, <2>4, <2>6, <2>8 DEF Dir!Next, Dir!Forget
  <2> QED BY Zenon, <2>5, <2>7, <2>8
<1> QED BY Zenon, <1>5, <1>6

(* A container with a hostname of its own is started or stopped in the     *)
(* directory too; any other does not show in it.                           *)
LEMMA StartDir ==
    ASSUME IInv, NEW d \in Containers, ContainerStart(d)
    PROVE  [Dir!Next]_Dir!vars
<1> DEFINE n == On[d]
           s == Add(Store(n), Label[d], HostIP[n])
<1>1. n \in Nodes /\ s \in Stores /\ Label[d] \in Names /\ Store(n) \in Stores
      /\ Store(n).data = data[n]
  BY Zenon, ContainerFields, StoreType, AddType DEF IInv
<1>2. \A k \in Hosts : s.data[k] = IF Lower[Label[d]] = k THEN HostIP[n] ELSE data[n][k]
  BY SMTT(30), <1>1, PlainAt
<1>3. data'[n] = s.data /\ \A q \in Nodes \ {n} : data'[q] = data[q]
  BY Zenon, <1>1, WriteEffect DEF IInv, ContainerStart
<1> HIDE DEF s
<1>4. ASSUME NEW q \in Nodes, NEW c \in Own, q # n \/ c # d
      PROVE  data'[q][Key(c)] = data[q][Key(c)]
  <2>1. Key(c) \in Hosts /\ (c # d => Lower[Label[d]] # Key(c))
    BY Zenon, OwnFacts, OtherKey
  <2> QED BY Zenon, <1>2, <1>3, <1>4, <2>1
<1>5. /\ d \notin tracked[n] /\ \A c \in Containers : c \in tracked'[On[c]] <=> c \in tracked[On[c]] \/ c = d
      /\ started' = started \cup {d} /\ stopped' = stopped /\ crashes' = crashes
  BY Zenon, <1>1, ContainerFields DEF ContainerStart, IInv, TypeOK
<1>6. Crashed' = Crashed
  BY Zenon, <1>5 DEF Crashed
<1>7. CASE d \in Own
  <2>1. data'[n][Key(d)] = HostIP[n]
    BY ZenonT(60), <1>2, <1>3, <1>7, OwnFacts DEF Key
  <2>2. Answers' = [Answers EXCEPT ![n][d] = data'[n][Key(d)]]
    BY Zenon, <1>1, <1>4, <1>7, OneAnswer
  <2>3. Up' = Up \cup {d} /\ d \notin Up
    BY Zenon, <1>5, <1>7, OwnFacts DEF Up
  <2>4. started' \cap Own = (started \cap Own) \cup {d} /\ stopped' \cap Own = stopped \cap Own
    BY Zenon, <1>5, <1>7
  <2> QED BY Zenon, <1>6, <1>7, <2>1, <2>2, <2>3, <2>4 DEF Dir!Next, Dir!Start
<1>8. CASE d \notin Own
  <2>1. Up' = Up
    BY Zenon, <1>5, <1>8, OwnFacts DEF Up
  <2>2. started' \cap Own = started \cap Own /\ stopped' \cap Own = stopped \cap Own
    BY Zenon, <1>5, <1>8
  <2>3. Answers' = Answers
    BY Zenon, <1>4, <1>8, SameAnswers
  <2> QED BY Zenon, <1>6, <2>1, <2>2, <2>3 DEF Dir!vars
<1> QED BY Zenon, <1>7, <1>8

LEMMA StopDir ==
    ASSUME IInv, NEW d \in Containers, ContainerStop(d)
    PROVE  [Dir!Next]_Dir!vars
<1> DEFINE n == On[d]
           s == Remove(Store(n), Label[d])
<1>1. n \in Nodes /\ s \in Stores /\ Label[d] \in Names /\ Store(n) \in Stores
      /\ Store(n).data = data[n]
  BY Zenon, ContainerFields, StoreType, AddType DEF IInv
<1>2. \A k \in Hosts : s.data[k] = IF Lower[Label[d]] = k THEN NoIP ELSE data[n][k]
  BY SMTT(30), <1>1, PlainAt
<1>3. data'[n] = s.data /\ \A q \in Nodes \ {n} : data'[q] = data[q]
  BY Zenon, <1>1, WriteEffect DEF IInv, ContainerStop
<1> HIDE DEF s
<1>4. ASSUME NEW q \in Nodes, NEW c \in Own, q # n \/ c # d
      PROVE  data'[q][Key(c)] = data[q][Key(c)]
  <2>1. Key(c) \in Hosts /\ (c # d => Lower[Label[d]] # Key(c))
    BY Zenon, OwnFacts, OtherKey
  <2> QED BY Zenon, <1>2, <1>3, <1>4, <2>1
<1>5. /\ d \in tracked[n] /\ \A c \in Containers : c \in tracked'[On[c]] <=> c \in tracked[On[c]] /\ c # d
      /\ stopped' = stopped \cup {d} /\ started' = started /\ crashes' = crashes
  BY Zenon, <1>1, ContainerFields DEF ContainerStop, IInv, TypeOK
<1>6. Crashed' = Crashed
  BY Zenon, <1>5 DEF Crashed
<1>7. CASE d \in Own
  <2>1. data'[n][Key(d)] = NoIP
    BY Zenon, <1>2, <1>3, <1>7, OwnFacts DEF Key
  <2>2. Answers' = [Answers EXCEPT ![n][d] = data'[n][Key(d)]]
    BY Zenon, <1>1, <1>4, <1>7, OneAnswer
  <2>3. Up' = Up \ {d} /\ d \in Up
    BY Zenon, <1>5, <1>7, OwnFacts DEF Up
  <2>4. stopped' \cap Own = (stopped \cap Own) \cup {d} /\ started' \cap Own = started \cap Own
    BY Zenon, <1>5, <1>7
  <2> QED BY Zenon, <1>6, <1>7, <2>1, <2>2, <2>3, <2>4 DEF Dir!Next, Dir!Stop
<1>8. CASE d \notin Own
  <2>1. Up' = Up
    BY Zenon, <1>5, <1>8, OwnFacts DEF Up
  <2>2. started' \cap Own = started \cap Own /\ stopped' \cap Own = stopped \cap Own
    BY Zenon, <1>5, <1>8
  <2>3. Answers' = Answers
    BY Zenon, <1>4, <1>8, SameAnswers
  <2> QED BY Zenon, <1>6, <2>1, <2>2, <2>3 DEF Dir!vars
<1> QED BY Zenon, <1>7, <1>8

LEMMA CrashDir ==
    ASSUME IInv, NEW n \in Nodes, Crash(n)
    PROVE  [Dir!Next]_Dir!vars
<1>1. \A k \in Hosts : EmptyStore.data[k] = NoIP
  BY Zenon DEF EmptyStore
<1>2. /\ data'[n] = EmptyStore.data /\ tracked'[n] = {}
      /\ \A q \in Nodes \ {n} : data'[q] = data[q] /\ tracked'[q] = tracked[q]
  BY Zenon DEF Crash, IInv, TypeOK
<1>3. crashes'[n] > 0 /\ \A q \in Nodes \ {n} : crashes'[q] = crashes[q]
  BY SMTT(30) DEF Crash, IInv, TypeOK
<1>4. Crashed' = Crashed \cup {n}
  BY SMTT(30), <1>3 DEF Crashed
<1>5. Up' = {c \in Up : On[c] # n}
  BY Zenon, <1>2, OwnFacts DEF Up
<1>6. Answers' = [Answers EXCEPT ![n] = [c \in Own |-> NoIP]]
  <2>1. \A c \in Own : data'[n][Key(c)] = NoIP
    BY Zenon, <1>1, <1>2, OwnFacts
  <2> QED BY ZenonT(60), <1>2, <2>1 DEF Answers
<1>7. UNCHANGED <<started \cap Own, stopped \cap Own>>
  BY Zenon DEF Crash, past
<1> QED BY Zenon, <1>4, <1>5, <1>6, <1>7 DEF Dir!Next, Dir!Crash

(* Every step of the cluster is a step of the directory, or none. *)
LEMMA NextDir ==
    ASSUME IInv, [Next]_vars
    PROVE  [Dir!Next]_Dir!vars
<1>1. \A c \in Own : StepAt(c)
  BY Zenon, EveryStepAt, OwnFacts
<1>2. ASSUME NEW n \in Nodes, Notify(n) PROVE [Dir!Next]_Dir!vars
  <2> DEFINE c == watch[n].c
             added == watch[n].step = "added"
  <2>1. PICK ts \in (clock[n] + 1)..MaxTs :
           Write(n, ApplyMessage(Store(n), Announcement(n, c, added, ts)))
    BY Zenon, <1>2 DEF Notify
  <2>2. ts \in Nat /\ c \in Containers
    BY SMTT(90), <1>2, <2>1, ClusterAssumption, WatchFields DEF IInv, TypeOK, Notify
  <2>3. Announcement(n, c, added, ts) \in Messages
    BY Zenon, <2>2, AnnouncementType
  <2>4. meta' = meta /\ UNCHANGED <<tracked, crashes, past>>
    BY Zenon, <1>2 DEF Notify
  <2> HIDE DEF c, added
  <2> QED BY Zenon, <1>1, <2>1, <2>3, <2>4, MessageDir
<1>3. ASSUME NEW n \in Nodes, ProcessMessage(n) PROVE [Dir!Next]_Dir!vars
  <2>1. Head(chan[n]) \in Messages
    BY SMTT(90), <1>3 DEF ProcessMessage, IInv, TypeOK
  <2>2. /\ Write(n, ApplyMessage(Store(n), Head(chan[n]))) /\ meta' = meta
        /\ UNCHANGED <<tracked, crashes, past>>
    BY Zenon, <1>3 DEF ProcessMessage
  <2> QED BY Zenon, <1>1, <2>1, <2>2, MessageDir
<1>4. ASSUME NEW n \in Nodes, NEW h \in Hosts, MergeRemoteState(n, h) PROVE [Dir!Next]_Dir!vars
  <2> DEFINE p == push[n].to
             msg == EntryMessage(h, push[n].full[h])
  <2>1. p \in Nodes /\ msg \in Messages
    BY Zenon, <1>4, PushFields, EntryType DEF MergeRemoteState, IInv
  <2>2. /\ Write(p, ApplyMessage(Store(p), msg)) /\ meta' = meta
        /\ UNCHANGED <<tracked, crashes, past>>
    BY Zenon, <1>4 DEF MergeRemoteState
  <2> HIDE DEF p, msg
  <2> QED BY Zenon, <1>1, <2>1, <2>2, MessageDir
<1>5. CASE UNCHANGED <<data, tracked, crashes, past>>
  <2>1. UNCHANGED <<Up, Crashed, started \cap Own, stopped \cap Own>>
    BY Zenon, <1>5 DEF Up, Crashed, past
  <2>2. Answers' = Answers
    BY Zenon, <1>5, SameAnswers
  <2> QED BY Zenon, <2>1, <2>2 DEF Dir!vars
<1>6. \/ \E d \in Containers : ContainerStart(d) \/ ContainerStop(d)
      \/ \E n \in Nodes : Notify(n) \/ ProcessMessage(n) \/ Crash(n)
      \/ \E n \in Nodes, h \in Hosts : MergeRemoteState(n, h)
      \/ UNCHANGED <<data, tracked, crashes, past>>
  BY ZenonT(90) DEF Next, vars, StoreMeta, BroadcastRecord, NotifyMsg, LocalStateData,
         LocalStateMeta, ReceiveState, PushFail, MergeDone
<1> QED BY Zenon, <1>2, <1>3, <1>4, <1>5, <1>6, StartDir, StopDir, CrashDir

(* The cluster implements the directory of the containers with hostnames   *)
(* of their own: what any of its nodes answers is what a directory could,  *)
(* whatever is lost, repeated, reordered or crashes on the way.            *)
THEOREM ClusterIsDirectory == Spec => RefinesDirectory
<1>1. Init => Dir!Init
  <2> SUFFICES ASSUME Init PROVE Dir!Init
    BY Zenon
  <2>1. Up = {} /\ started \cap Own = {} /\ stopped \cap Own = {}
    BY Zenon, OwnFacts DEF Init, Up
  <2>2. Crashed = {}
    BY DEF Init, Crashed
  <2>3. \A n \in Nodes, c \in Own : data[n][Key(c)] = NoIP
    BY Zenon, OwnFacts DEF Init, EmptyStore
  <2>4. Answers = [n \in Nodes |-> [c \in Own |-> NoIP]]
    BY <2>3 DEF Answers
  <2> QED BY Zenon, <2>1, <2>2, <2>4 DEF Dir!Init
<1> QED BY <1>1, NextDir, Invariance, PTL DEF Spec, RefinesDirectory, Dir!Spec
============================================================================
