------------------------------ MODULE Cluster ------------------------------
(***************************************************************************)
(* The cluster of record stores (cluster.go, delegate.go, and the way the  *)
(* Docker watcher drives them).  On each node three goroutines write the   *)
(* store: the watcher, which applies a container's hostname with the plain *)
(* operations and then announces it; processMessages, which consumes       *)
(* gossip; and memberlist's push/pull handler, which merges a peer's full  *)
(* state.  A fourth, memberlist's LocalState caller, reads it without a    *)
(* lock.                                                                   *)
(*                                                                         *)
(* A write is two steps: the data map, then the meta map (the Records      *)
(* module shows that nothing else of it is visible); pending[n] is the     *)
(* meta map the holder of n's mutex has yet to store.  A container has one *)
(* hostname here.  Gossip is unreliable: a message once broadcast may be   *)
(* delivered late, again, out of order, or never.                          *)
(***************************************************************************)
EXTENDS RecordStore, Sequences

CONSTANTS
    Nodes,        \* node IDs
    HostIP,       \* the address each node publishes for its containers
    Containers,
    On,           \* the node each container runs on
    Label,        \* the hostname in its label, as spelled there
    ChanSize,     \* msgChanBufferSize
    MaxTs,        \* bound on timestamps: events are handled only below it
    MaxCrashes,   \* bound on crashes of each node
    Idle, NoWrite, NoPush

ASSUME ClusterAssumption ==
    /\ Nodes \subseteq Nat \ {0}
    /\ HostIP \in [Nodes -> IPs]
    /\ On \in [Containers -> Nodes]
    /\ Label \in [Containers -> Names]
    /\ ChanSize \in Nat /\ MaxTs \in Nat /\ MaxCrashes \in [Nodes -> Nat]
    /\ NoWrite \notin MetaMaps
    /\ Idle \notin [step : {"added", "removed"}, c : Containers]

VARIABLES
    data, meta,  \* Records.data and Records.meta of each node
    pending,     \* the meta map its lock holder is about to store, or NoWrite
    tracked,     \* DockerWatcher.containers
    watch,       \* what the watcher has left to do for its last event
    clock,       \* the last timestamp the node's watcher took
    net,         \* messages broadcast so far
    chan,        \* ClusterDelegate.msgChan
    push,        \* the full state the node is sending: loading, or on the wire
    crashes,     \* history: how often each node has crashed
    dropped,     \* history: messages NotifyMsg found no room for
    started,     \* history: the containers that have been started
    stopped      \* history: the containers that have been stopped

past == <<started, stopped>>
vars == <<data, meta, pending, tracked, watch, clock, net, chan, push, crashes, dropped, past>>

Key(c) == Lower[Label[c]]
Store(n) == [data |-> data[n], meta |-> meta[n]]

WatchStates ==
    {Idle} \cup [step : {"added", "removed"}, c : Containers]
           \cup [step : {"send"}, c : Containers, msg : Messages]
PushStates ==
    {NoPush} \cup [at : {"meta"}, to : Nodes, data : DataMaps]
             \cup [at : {"wire", "merge"}, to : Nodes, full : FullStates]

Init ==
    /\ data = [n \in Nodes |-> EmptyStore.data]
    /\ meta = [n \in Nodes |-> EmptyStore.meta]
    /\ pending = [n \in Nodes |-> NoWrite]
    /\ tracked = [n \in Nodes |-> {}]
    /\ watch = [n \in Nodes |-> Idle]
    /\ clock = [n \in Nodes |-> 0]
    /\ net = {}
    /\ chan = [n \in Nodes |-> << >>]
    /\ push = [n \in Nodes |-> NoPush]
    /\ crashes = [n \in Nodes |-> 0]
    /\ dropped = [n \in Nodes |-> {}]
    /\ started = {} /\ stopped = {}
----------------------------------------------------------------------------
(* A call that turns n's store into s, with n's mutex free: it stores the  *)
(* data map and, unless it was rejected or changes no metadata, goes on to *)
(* store the meta map.                                                     *)
Write(n, s) ==
    /\ pending[n] = NoWrite
    /\ data' = [data EXCEPT ![n] = s.data]
    /\ pending' = [pending EXCEPT ![n] = IF s.meta = meta[n] THEN NoWrite ELSE s.meta]

StoreMeta(n) ==
    /\ pending[n] # NoWrite
    /\ meta' = [meta EXCEPT ![n] = pending[n]]
    /\ pending' = [pending EXCEPT ![n] = NoWrite]
    /\ UNCHANGED <<data, tracked, watch, clock, net, chan, push, crashes, dropped, past>>

(* updateContainer for a container that is not tracked yet: the plain Add. *)
ContainerStart(c) ==
    LET n == On[c] IN
    /\ watch[n] = Idle /\ c \notin tracked[n] /\ clock[n] < MaxTs
    /\ tracked' = [tracked EXCEPT ![n] = @ \cup {c}]
    /\ Write(n, Add(Store(n), Label[c], HostIP[n]))
    /\ watch' = [watch EXCEPT ![n] = [step |-> "added", c |-> c]]
    /\ started' = started \cup {c}
    /\ UNCHANGED <<meta, clock, net, chan, push, crashes, dropped, stopped>>

(* handleContainerStop of a tracked container: the plain Remove. *)
ContainerStop(c) ==
    LET n == On[c] IN
    /\ watch[n] = Idle /\ c \in tracked[n] /\ clock[n] < MaxTs
    /\ tracked' = [tracked EXCEPT ![n] = @ \ {c}]
    /\ Write(n, Remove(Store(n), Label[c]))
    /\ watch' = [watch EXCEPT ![n] = [step |-> "removed", c |-> c]]
    /\ stopped' = stopped \cup {c}
    /\ UNCHANGED <<meta, clock, net, chan, push, crashes, dropped, started>>

(* The message NotifyRecordAdd or NotifyRecordRemove builds. *)
Announcement(n, c, added, ts) ==
    [action |-> IF added THEN "add" ELSE "remove",
     host   |-> Label[c],
     ip     |-> IF added THEN HostIP[n] ELSE NoIP,
     meta   |-> [ts |-> ts, node |-> n]]

(* The callback: the watcher reads the clock, and NotifyRecordAdd or       *)
(* NotifyRecordRemove applies the message locally.                         *)
Notify(n) ==
    /\ watch[n] # Idle /\ watch[n].step \in {"added", "removed"}
    /\ \E ts \in (clock[n] + 1)..MaxTs :
          LET c == watch[n].c
              msg == Announcement(n, c, watch[n].step = "added", ts)
          IN  /\ clock' = [clock EXCEPT ![n] = ts]
              /\ Write(n, ApplyMessage(Store(n), msg))
              /\ watch' = [watch EXCEPT ![n] = [step |-> "send", c |-> c, msg |-> msg]]
    /\ UNCHANGED <<meta, tracked, net, chan, push, crashes, dropped, past>>

(* ... and, the local call having returned, queues it for broadcast. *)
BroadcastRecord(n) ==
    /\ watch[n] # Idle /\ watch[n].step = "send" /\ pending[n] = NoWrite
    /\ net' = net \cup {watch[n].msg}
    /\ watch' = [watch EXCEPT ![n] = Idle]
    /\ UNCHANGED <<data, meta, pending, tracked, clock, chan, push, crashes, dropped, past>>
----------------------------------------------------------------------------
(* A datagram arrives at a peer of its sender.  The send to msgChan does   *)
(* not block: with the channel full the message is dropped.                *)
NotifyMsg(n, msg) ==
    /\ msg.meta.node # n
    /\ IF Len(chan[n]) < ChanSize
       THEN /\ chan' = [chan EXCEPT ![n] = Append(@, msg)]
            /\ UNCHANGED dropped
       ELSE /\ dropped' = [dropped EXCEPT ![n] = @ \cup {msg}]
            /\ UNCHANGED chan
    /\ UNCHANGED <<data, meta, pending, tracked, watch, clock, net, push, crashes, past>>

ProcessMessage(n) ==
    /\ chan[n] # << >>
    /\ chan' = [chan EXCEPT ![n] = Tail(@)]
    /\ Write(n, ApplyMessage(Store(n), Head(chan[n])))
    /\ UNCHANGED <<meta, tracked, watch, clock, net, push, crashes, dropped, past>>

(* Push/pull from n to p.  LocalState loads the data map, ... *)
LocalStateData(n, p) ==
    /\ push[n] = NoPush /\ p # n
    /\ push' = [push EXCEPT ![n] = [at |-> "meta", to |-> p, data |-> data[n]]]
    /\ UNCHANGED <<data, meta, pending, tracked, watch, clock, net, chan, crashes, dropped, past>>

(* ... then the meta map, and the full state is on its way. *)
LocalStateMeta(n) ==
    /\ push[n] # NoPush /\ push[n].at = "meta"
    /\ push' = [push EXCEPT ![n] = [at   |-> "wire", to |-> push[n].to,
                                    full |-> Snapshot(push[n].data, meta[n])]]
    /\ UNCHANGED <<data, meta, pending, tracked, watch, clock, net, chan, crashes, dropped, past>>

(* The TCP exchange completes, ... *)
ReceiveState(n) ==
    /\ push[n] # NoPush /\ push[n].at = "wire"
    /\ push' = [push EXCEPT ![n] = [at |-> "merge", to |-> push[n].to, full |-> push[n].full]]
    /\ UNCHANGED <<data, meta, pending, tracked, watch, clock, net, chan, crashes, dropped, past>>

(* ... or fails. *)
PushFail(n) ==
    /\ push[n] # NoPush /\ push[n].at = "wire"
    /\ push' = [push EXCEPT ![n] = NoPush]
    /\ UNCHANGED <<data, meta, pending, tracked, watch, clock, net, chan, crashes, dropped, past>>

(* Mutant: the peer's view of the hostname replaces the local one, also    *)
(* where the peer has no record.                                           *)
MergeReplaces(n, h) ==
    /\ push[n] # NoPush /\ push[n].at = "merge"
    /\ LET p == push[n].to IN
       Write(p, [data |-> [data[p] EXCEPT ![h] = push[n].full[h].ip], meta |-> meta[p]])
    /\ push' = [push EXCEPT ![n] = NoPush]
    /\ UNCHANGED <<meta, tracked, watch, clock, net, chan, crashes, dropped, past>>

(* Mutant: only records that the receiver has already are brought up to    *)
(* date.                                                                   *)
MergeKnownOnly(n, h) ==
    /\ push[n] # NoPush /\ push[n].at = "merge"
    /\ push[n].full[h].ip # NoIP
    /\ LET s == Store(push[n].to) IN
       Write(push[n].to, IF s.data[h] = NoIP THEN s
                         ELSE ApplyMessage(s, EntryMessage(h, push[n].full[h])))
    /\ push' = [push EXCEPT ![n] = [at   |-> "merge", to |-> push[n].to,
                                    full |-> [push[n].full EXCEPT ![h] = NoEntry]]]
    /\ UNCHANGED <<meta, tracked, watch, clock, net, chan, crashes, dropped, past>>

(* The receiver applies the entries one by one, in the order of Go's map   *)
(* iteration, each as an addition; an entry is dropped here once applied.  *)
MergeRemoteState(n, h) ==
    /\ push[n] # NoPush /\ push[n].at = "merge"
    /\ push[n].full[h].ip # NoIP
    /\ Write(push[n].to, ApplyMessage(Store(push[n].to), EntryMessage(h, push[n].full[h])))
    /\ push' = [push EXCEPT ![n] = [at   |-> "merge", to |-> push[n].to,
                                    full |-> [push[n].full EXCEPT ![h] = NoEntry]]]
    /\ UNCHANGED <<meta, tracked, watch, clock, net, chan, crashes, dropped, past>>

MergeDone(n) ==
    /\ push[n] # NoPush /\ push[n].at = "merge"
    /\ \A h \in Hosts : push[n].full[h].ip = NoIP
    /\ push' = [push EXCEPT ![n] = NoPush]
    /\ UNCHANGED <<data, meta, pending, tracked, watch, clock, net, chan, crashes, dropped, past>>

(* Mutant: timestamps count the process's own events and start over with it. *)
CrashResetsClock(n) ==
    /\ crashes[n] < MaxCrashes[n]
    /\ crashes' = [crashes EXCEPT ![n] = @ + 1]
    /\ data' = [data EXCEPT ![n] = EmptyStore.data]
    /\ meta' = [meta EXCEPT ![n] = EmptyStore.meta]
    /\ pending' = [pending EXCEPT ![n] = NoWrite]
    /\ tracked' = [tracked EXCEPT ![n] = {}]
    /\ watch' = [watch EXCEPT ![n] = Idle]
    /\ chan' = [chan EXCEPT ![n] = << >>]
    /\ push' = [m \in Nodes |-> IF push[m] # NoPush
                                  /\ (push[m].to = n \/ (m = n /\ push[m].at = "meta"))
                               THEN NoPush ELSE push[m]]
    /\ clock' = [clock EXCEPT ![n] = 0]
    /\ UNCHANGED <<net, dropped, past>>

(* The process dies and is started again: nothing of it is persistent.  A  *)
(* full state it was receiving is lost, one it has sent is not.            *)
Crash(n) ==
    /\ crashes[n] < MaxCrashes[n]
    /\ crashes' = [crashes EXCEPT ![n] = @ + 1]
    /\ data' = [data EXCEPT ![n] = EmptyStore.data]
    /\ meta' = [meta EXCEPT ![n] = EmptyStore.meta]
    /\ pending' = [pending EXCEPT ![n] = NoWrite]
    /\ tracked' = [tracked EXCEPT ![n] = {}]
    /\ watch' = [watch EXCEPT ![n] = Idle]
    /\ chan' = [chan EXCEPT ![n] = << >>]
    /\ push' = [m \in Nodes |-> IF push[m] # NoPush
                                  /\ (push[m].to = n \/ (m = n /\ push[m].at = "meta"))
                               THEN NoPush ELSE push[m]]
    /\ UNCHANGED <<clock, net, dropped, past>>

Next ==
    \/ \E c \in Containers : ContainerStart(c) \/ ContainerStop(c)
    \/ \E n \in Nodes : StoreMeta(n) \/ Notify(n) \/ BroadcastRecord(n)
    \/ \E n \in Nodes, msg \in net : NotifyMsg(n, msg)
    \/ \E n \in Nodes : ProcessMessage(n)
    \/ \E n, p \in Nodes : LocalStateData(n, p)
    \/ \E n \in Nodes : LocalStateMeta(n) \/ ReceiveState(n) \/ PushFail(n) \/ MergeDone(n)
    \/ \E n \in Nodes, h \in Hosts : MergeRemoteState(n, h)
    \/ \E n \in Nodes : Crash(n)

Spec == Init /\ [][Next]_vars

(* The watcher, a write under way and push/pull keep going: memberlist,    *)
(* which picks the peer of each periodic push/pull at random, completes an *)
(* exchange with every peer again and again, and its handler gets the      *)
(* mutex in the end.  Nothing is assumed of gossip.                        *)
SyncFairness ==
    \A n \in Nodes :
       /\ WF_vars(StoreMeta(n)) /\ WF_vars(Notify(n)) /\ WF_vars(BroadcastRecord(n))
       /\ \A p \in Nodes \ {n} : SF_vars(LocalStateData(n, p))
       /\ WF_vars(LocalStateMeta(n)) /\ SF_vars(ReceiveState(n)) /\ WF_vars(MergeDone(n))
       /\ \A h \in Hosts : SF_vars(MergeRemoteState(n, h))

SyncSpec == Spec /\ SyncFairness

(* In addition, processMessages consumes what has reached msgChan. *)
FairSpec == SyncSpec /\ \A n \in Nodes : SF_vars(ProcessMessage(n))
----------------------------------------------------------------------------
(* Every variable holds values of its type. *)
TypeOK ==
    /\ data \in [Nodes -> DataMaps]
    /\ meta \in [Nodes -> MetaMaps]
    /\ pending \in [Nodes -> MetaMaps \cup {NoWrite}]
    /\ tracked \in [Nodes -> SUBSET Containers]
    /\ watch \in [Nodes -> WatchStates]
    /\ clock \in [Nodes -> Nat]
    /\ net \subseteq Messages
    /\ chan \in [Nodes -> Seq(Messages)]
    /\ push \in [Nodes -> PushStates]
    /\ crashes \in [Nodes -> Nat]
    /\ dropped \in [Nodes -> SUBSET Messages]
    /\ started \subseteq Containers /\ stopped \subseteq Containers

(* No other container of the cluster has c's hostname. *)
Exclusive(c) == \A d \in Containers : Key(d) = Key(c) => d = c

(* n's meta map once the write under way is over. *)
SettledMeta(n) == IF pending[n] = NoWrite THEN meta[n] ELSE pending[n]

(* A node serves its own containers: while a container whose hostname is   *)
(* its own is tracked, its node answers with its own address, whatever     *)
(* gossip, push/pull, stale removals or torn snapshots come back to it.    *)
OwnerServes ==
    \A c \in Containers :
        (Exclusive(c) /\ c \in tracked[On[c]]) => data[On[c]][Key(c)] = HostIP[On[c]]

(* A node that has not crashed never gets a stopped container's hostname   *)
(* back from its peers, although removal leaves no tombstone: the metadata *)
(* that the plain Remove leaves behind rejects every copy of it.           *)
OwnerForgets ==
    \A c \in Containers :
        (Exclusive(c) /\ crashes[On[c]] = 0 /\ c \notin tracked[On[c]])
            => data[On[c]][Key(c)] = NoIP

(* A node's announcement of a hostname of its own is never rejected by its *)
(* own store as stale (cluster.go:256), not even after a crash, when old   *)
(* copies of its records come back.                                        *)
AnnouncementAccepted ==
    [][\A c \in Containers :
          LET n == On[c] IN
          (Exclusive(c) /\ watch[n] = [step |-> "added", c |-> c] /\ watch'[n] # watch[n]
             /\ watch'[n] # Idle)
              => SettledMeta(n)'[Key(c)] = [ts |-> clock'[n], node |-> n]]_vars

(* The cluster, seen through its answers, is a directory of the containers *)
(* whose hostnames are their own: no node ever answers with a wrong        *)
(* address, with a container that never ran, or, having an answer and not  *)
(* crashing, without one before the container has been stopped.            *)
Own == {c \in Containers : Exclusive(c)}
Up == {c \in Own : c \in tracked[On[c]]}
Answers == [n \in Nodes |-> [c \in Own |-> data[n][Key(c)]]]
Crashed == {n \in Nodes : crashes[n] > 0}
Dir == INSTANCE Directory WITH
    Containers <- Own, Address <- [c \in Own |-> HostIP[On[c]]], None <- NoIP,
    up <- Up, answer <- Answers, crashed <- Crashed,
    started <- started \cap Own, stopped <- stopped \cap Own
RefinesDirectory == Dir!Spec

(* "All nodes maintain a merged view of all cluster records" (README.md):  *)
(* a container that stays up is in the end served by every node, although  *)
(* its announcement may be lost or dropped.                                *)
AddsSpread ==
    \A c \in Containers :
        Exclusive(c) => ( <>[](c \in tracked[On[c]])
                            => <>[](\A n \in Nodes : data[n][Key(c)] = HostIP[On[c]]) )

(* "Channel full, drop message (will be recovered via full state sync)"    *)
(* (delegate.go:64): after dropping a removal the node in the end has no   *)
(* such record, or a newer one.                                            *)
DroppedRemovalRecovered ==
    \A n \in Nodes, c \in Containers : \A t \in 1..MaxTs :
        LET m == [ts |-> t, node |-> On[c]] IN
        Announcement(On[c], c, FALSE, t) \in dropped[n]
            ~> (data[n][Key(c)] = NoIP \/ (meta[n][Key(c)] # NoMeta /\ Outranks(meta[n][Key(c)], m)))
============================================================================
