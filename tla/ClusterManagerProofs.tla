------------------------ MODULE ClusterManagerProofs ------------------------
(***************************************************************************)
(* The two models of cluster.go that are not about records.                *)
(*                                                                         *)
(* ClusterLifecycle, for any number of announced records: no announcement  *)
(* is lost, when OnShutdown has returned all is quiet, and the goroutines  *)
(* never wait for each other in a circle.  The invariant places the        *)
(* watcher, the references, the locks and the goroutines relative to where *)
(* the main goroutine is.                                                  *)
(*                                                                         *)
(* Discovery, for any nodes and any number of faults: the state is well    *)
(* formed, which includes that a node always counts itself as a member and *)
(* never as a peer.                                                        *)
(***************************************************************************)
EXTENDS ClusterLifecycle, TLAPS

Starting == {"start", "create", "startRest", "setup", "failed"}

(* The calls of OnShutdown, in the order of the code. *)
StageInv ==
    /\ main \in Starting \cup {"serve", "waitWatcher"} => stage = 1
    /\ main \in {"stopClear", "cancel", "stopDiscovery", "stopDelegate", "leave", "close"} => stage = 2
    /\ main = "done" => stage = 3

(* The watcher is gone before the cluster is stopped. *)
WatcherInv ==
    /\ main \in Starting => watcher = "off"
    /\ stage > 1 => watcher = "exit"
    /\ "delegate" \notin refs => stage > 1
    /\ "watcher" \in readers => watcher \in {"queue", "unlock"}
    /\ ~lost

(* Whoever was waited for has ended, and the write lock is given back. *)
QuietInv ==
    /\ main \in Starting \ {"setup"} => consumer # "run" /\ \A d \in DiscoveryLoops : discovery[d] # "run"
    /\ main \in {"stopDelegate", "leave", "close"} \/ stage = 3
          => \A d \in DiscoveryLoops : discovery[d] # "run"
    /\ main \in {"leave", "close"} \/ stage = 3 => consumer # "run"
    /\ writer # "none" => main \in {"create", "startRest", "stopClear"}

(* The queue holds no more than was announced, and something while gossip  *)
(* is at it.                                                               *)
QueueInv ==
    /\ queued + (IF watcher \in {"notify", "queue"} THEN 1 ELSE 0) <= events
    /\ gossip # "idle" => queued > 0

(* Whom Stop may have to wait for can go on: gossip has the read lock only *)
(* once it has all it needs, and the contexts are done.                    *)
WaitInv ==
    /\ "gossip" \in readers => gossip = "counted"
    /\ main = "waitWatcher" => stopping
    /\ main \in {"stopDiscovery", "stopDelegate"} => cancelled

IInv == TypeOK /\ StageInv /\ WatcherInv /\ QuietInv /\ QueueInv /\ WaitInv

LEMMA Calls == Len(OnShutdown) = 2 /\ OnShutdown[1] = "watcher" /\ OnShutdown[2] = "cluster"
BY DEF OnShutdown

LEMMA FewerFit ==
    ASSUME NEW p \in Nat, NEW q \in Nat, NEW b \in Nat, NEW e \in Nat, p <= q, q + b <= e
    PROVE  p + b <= e
OBVIOUS

LEMMA InitIInv == Init => IInv
<1> SUFFICES ASSUME Init PROVE IInv
  OBVIOUS
<1>1. TypeOK
  <2>1. stage \in 1..(Len(OnShutdown) + 1) /\ queued \in 0..MaxEvents /\ events \in 0..MaxEvents
    BY LifecycleAssumption, Calls DEF Init
  <2> QED BY <2>1, Zenon DEF Init, TypeOK, Refs
<1>2. StageInv /\ QuietInv /\ QueueInv /\ WaitInv
  BY DEF Init, StageInv, QuietInv, QueueInv, WaitInv, Starting
<1>3. WatcherInv
  BY DEF Init, WatcherInv
<1> QED BY <1>1, <1>2, <1>3 DEF IInv

LEMMA MainStep ==
    ASSUME IInv, Main \/ Shutdown
    PROVE  IInv'
<1> USE LifecycleAssumption, Calls DEF IInv, TypeOK, StageInv, WatcherInv, QuietInv, QueueInv, WaitInv, Starting,
        mu, queue, helpers
<1>1. CASE StartLock
  BY <1>1 DEF StartLock
<1>2. CASE Create
  <2>1. CASE /\ ml' = "running" /\ refs' = refs \cup {"memberlist"}
             /\ main' = "startRest" /\ UNCHANGED writer
    BY <1>2, <2>1 DEF Create, Refs
  <2>2. CASE main' = "failed" /\ writer' = "none" /\ UNCHANGED <<ml, refs>>
    BY <1>2, <2>2 DEF Create
  <2> QED BY <1>2, <2>1, <2>2 DEF Create
<1>3. CASE StartRest
  BY <1>3 DEF StartRest, Refs
<1>4. CASE Setup
  BY <1>4 DEF Setup
<1>5. CASE StopWatcher
  BY <1>5 DEF StopWatcher
<1>6. CASE WaitWatcher
  BY <1>6 DEF WaitWatcher
<1>7. CASE StopLock
  BY <1>7 DEF StopLock
<1>8. CASE StopClear
  BY <1>8 DEF StopClear
<1>9. CASE Cancel
  BY <1>9 DEF Cancel
<1>10. CASE StopDiscovery
  BY <1>10 DEF StopDiscovery
<1>11. CASE StopDelegate
  BY <1>11 DEF StopDelegate
<1>12. CASE Leave
  BY <1>12 DEF Leave
<1>13. CASE Close
  BY <1>13 DEF Close
<1>14. CASE Done
  BY <1>14 DEF Done
<1>15. CASE Shutdown
  BY <1>15 DEF Shutdown
<1> QED BY <1>1, <1>2, <1>3, <1>4, <1>5, <1>6, <1>7, <1>8, <1>9, <1>10, <1>11, <1>12, <1>13,
           <1>14, <1>15, Zenon DEF Main

LEMMA WatcherStep ==
    ASSUME IInv, Watcher
    PROVE  IInv'
<1> USE LifecycleAssumption, Calls DEF IInv, TypeOK, StageInv, WatcherInv, QuietInv, QueueInv, WaitInv, Starting,
        mu, queue, helpers
<1>1. CASE WatcherEvent
  BY <1>1 DEF WatcherEvent
<1>2. CASE NotifyRLock
  <2>1. "delegate" \in refs
    BY <1>2 DEF NotifyRLock
  <2>2. readers' = readers \cup {"watcher"} /\ watcher' = "queue" /\ UNCHANGED lost
    BY <1>2, <2>1 DEF NotifyRLock
  <2> QED BY <1>2, <2>1, <2>2 DEF NotifyRLock
<1>3. CASE QueueBroadcast
  BY <1>3 DEF QueueBroadcast
<1>4. CASE NotifyRUnlock
  BY <1>4 DEF NotifyRUnlock
<1>5. CASE WatcherExit
  BY <1>5 DEF WatcherExit
<1> QED BY <1>1, <1>2, <1>3, <1>4, <1>5, Zenon DEF Watcher

LEMMA OtherStep ==
    ASSUME IInv, Gossip \/ Joiner \/ ConsumerExit \/ \E d \in DiscoveryLoops : DiscoveryExit(d)
    PROVE  IInv'
<1> USE LifecycleAssumption, Calls DEF IInv, TypeOK, StageInv, WatcherInv, QuietInv, QueueInv, WaitInv, Starting,
        mu, queue, helpers
<1>1. CASE GetBroadcasts
  BY <1>1 DEF GetBroadcasts
<1>2. CASE NumNodes
  BY <1>2 DEF NumNodes
<1>3. CASE Transmit
  <2>1. queued' \in 0..MaxEvents /\ queued' <= queued
    BY <1>3 DEF Transmit
  <2>2. queueMu' \in BOOLEAN /\ gossip' = "idle" /\ readers' = readers \ {"gossip"}
    BY <1>3, Zenon DEF Transmit
  <2>3. UNCHANGED <<seeds, main, stage, writer, refs, cancelled, stopping, ml, watcher, helpers,
                    events, lost>>
    BY <1>3 DEF Transmit
  <2>4. QueueInv'
    <3>1. queued \in Nat /\ queued' \in Nat /\ events \in Nat
      BY <2>1
    <3>2. watcher' = watcher /\ events' = events
      BY <2>3
    <3> DEFINE b == IF watcher \in {"notify", "queue"} THEN 1 ELSE 0
    <3>3. b \in Nat /\ queued + b <= events
      OBVIOUS
    <3> HIDE DEF b
    <3>4. queued' + b <= events
      BY <2>1, <3>1, <3>3, FewerFit, Zenon
    <3> QED BY <2>2, <3>2, <3>4 DEF b
  <2>5. TypeOK'
    BY <2>1, <2>2, <2>3
  <2>6. StageInv' /\ WatcherInv' /\ QuietInv' /\ WaitInv'
    BY <2>2, <2>3
  <2> HIDE DEF TypeOK, StageInv, WatcherInv, QuietInv, QueueInv, WaitInv
  <2> QED BY <2>4, <2>5, <2>6
<1>4. CASE Joiner
  <2>1. CASE JoinSeeds
    BY <2>1 DEF JoinSeeds
  <2>2. CASE JoinSeedsDone
    BY <2>2 DEF JoinSeedsDone
  <2>3. CASE JoinDiscovered
    BY <2>3 DEF JoinDiscovered
  <2>4. CASE JoinTick
    BY <2>4 DEF JoinTick
  <2>5. CASE JoinTickDone
    BY <2>5 DEF JoinTickDone
  <2>6. CASE JoinLoopExit
    BY <2>6 DEF JoinLoopExit
  <2> QED BY <1>4, <2>1, <2>2, <2>3, <2>4, <2>5, <2>6, Zenon DEF Joiner
<1>5. CASE ConsumerExit
  BY <1>5 DEF ConsumerExit
<1>6. ASSUME NEW d \in DiscoveryLoops, DiscoveryExit(d) PROVE IInv'
  BY <1>6 DEF DiscoveryExit
<1> QED BY <1>1, <1>2, <1>3, <1>4, <1>5, <1>6, Zenon DEF Gossip

LEMMA Invariance == Spec => []IInv
<1>1. IInv /\ [Next]_vars => IInv'
  <2> SUFFICES ASSUME IInv, [Next]_vars PROVE IInv'
    OBVIOUS
  <2>1. CASE UNCHANGED vars
    BY <2>1 DEF vars, IInv, TypeOK, StageInv, WatcherInv, QuietInv, QueueInv, WaitInv
  <2>2. Next \/ UNCHANGED vars
    OBVIOUS
  <2> QED BY <2>1, <2>2, MainStep, WatcherStep, OtherStep, Zenon DEF Next
<1> QED BY <1>1, InitIInv, PTL DEF Spec

(* The state of the manager and its goroutines is well formed; in          *)
(* particular the broadcast queue never holds more than was announced.     *)
THEOREM TypeCorrect == Spec => []TypeOK
BY Invariance, PTL DEF IInv

(* No NotifyRecordAdd or NotifyRecordRemove finds the delegate cleared:    *)
(* OnShutdown stops the watcher, and waits for it, before the cluster.     *)
THEOREM NoneLost == Spec => []NothingLost
<1>1. IInv => NothingLost
  BY DEF IInv, WatcherInv, NothingLost
<1> QED BY <1>1, Invariance, PTL

(* When OnShutdown has returned, nothing of the plugin runs on or waits.   *)
THEOREM Quiet == Spec => []StoppedIsQuiet
<1>1. IInv => StoppedIsQuiet
  BY DEF IInv, TypeOK, StageInv, WatcherInv, QuietInv, StoppedIsQuiet
<1> QED BY <1>1, Invariance, PTL

(* Whoever waits, waits for main, or for gossip.                           *)
LEMMA WaitForMain ==
    ASSUME NEW p \in Goroutines \ {"main"}, NEW q, Waits(p, q)
    PROVE  q = "main" \/ (p = "watcher" /\ watcher = "queue" /\ q = "gossip")
BY DEF Waits, Goroutines, DiscoveryLoops

(* Gossip waits only while main asks for the write lock or has it, ...     *)
LEMMA GossipWaits ==
    ASSUME NEW q, Waits("gossip", q)
    PROVE  gossip = "numNodes" /\ ~CanRead /\ q = "main"
BY DEF Waits, DiscoveryLoops

(* ... and main then waits for nobody that waits.                          *)
LEMMA ReadersGo ==
    ASSUME IInv, main \in {"start", "stopClear"}, NEW q \in readers, NEW r
    PROVE  ~Waits(q, r)
<1>1. "watcher" \notin readers
  BY Calls DEF IInv, TypeOK, StageInv, WatcherInv, Starting
<1>2. q = "gossip" /\ gossip = "counted"
  BY <1>1 DEF IInv, TypeOK, WaitInv
<1> QED BY <1>2, GossipWaits

LEMMA WriterIs == ASSUME IInv, ~CanRead PROVE main \in {"create", "startRest", "stopClear"}
BY DEF IInv, QuietInv, CanRead

(* The watcher, once Stop waits for it, waits for gossip at most, which    *)
(* then goes on; the other goroutines find their context done.             *)
LEMMA AwaitedGo ==
    ASSUME IInv, main \notin {"start", "stopClear"}, NEW q, Waits("main", q)
    PROVE  /\ \A r : Waits(q, r) => q = "watcher" /\ r = "gossip"
           /\ \A r : ~Waits("gossip", r)
<1>1. main \in {"waitWatcher", "stopDiscovery", "stopDelegate"}
  BY DEF Waits, DiscoveryLoops
<1>2. CanRead
  BY <1>1, WriterIs
<1>3. stopping \/ main # "waitWatcher"
  BY DEF IInv, WaitInv
<1>4. cancelled \/ main = "waitWatcher"
  BY <1>1 DEF IInv, WaitInv
<1>5. q \in {"watcher", "consumer"} \cup DiscoveryLoops /\ (q # "watcher" => main # "waitWatcher")
  BY <1>1 DEF Waits, DiscoveryLoops
<1>6. ASSUME NEW r, Waits(q, r) PROVE q = "watcher" /\ r = "gossip"
  BY <1>2, <1>3, <1>4, <1>5, <1>6 DEF Waits, DiscoveryLoops
<1>7. ASSUME NEW r, Waits("gossip", r) PROVE FALSE
  BY <1>2, <1>7, GossipWaits
<1> QED BY <1>6, <1>7

(* For any number of announcements no goroutines of a node ever wait for   *)
(* one another in a circle: not for the locks of the manager and of the    *)
(* broadcast queue, which are taken in both orders, and not in the Stop    *)
(* methods, because OnShutdown stops the watcher first.                    *)
THEOREM NobodyLocked == Spec => []NoCircularWait
<1>1. IInv => NoCircularWait
  <2> SUFFICES ASSUME IInv, NEW S \in SUBSET Goroutines, S # {},
                      \A p \in S : \E q \in S : Waits(p, q)
               PROVE  FALSE
    BY Zenon DEF NoCircularWait
  <2>1. "main" \in S
    <3>1. PICK p \in S : TRUE
      OBVIOUS
    <3>2. PICK q \in S : Waits(p, q)
      OBVIOUS
    <3>3. CASE q = "gossip"
      <4>1. PICK r \in S : Waits("gossip", r)
        BY <3>3
      <4> QED BY <4>1, GossipWaits
    <3> QED BY <3>2, <3>3, WaitForMain
  <2>2. PICK q \in S : Waits("main", q)
    BY <2>1
  <2>3. PICK r \in S : Waits(q, r)
    OBVIOUS
  <2>4. CASE main \in {"start", "stopClear"}
    <3>1. q \in readers
      BY <2>2, <2>4 DEF Waits, DiscoveryLoops
    <3> QED BY <2>3, <2>4, <3>1, ReadersGo
  <2>5. CASE main \notin {"start", "stopClear"}
    <3>1. r = "gossip" /\ \A t : ~Waits("gossip", t)
      BY <2>2, <2>3, <2>5, AwaitedGo
    <3> QED BY <3>1
  <2> QED BY <2>4, <2>5
<1> QED BY <1>1, Invariance, PTL
----------------------------------------------------------------------------
(* The state of Discovery, which shares none with ClusterLifecycle. *)
CONSTANTS Nodes, MaxFaults
VARIABLES up, deaf, moves, peers, members, cut, faults
D == INSTANCE Discovery

(* Discovery's type invariant says nothing of the domains of peers and     *)
(* members, which a step that changes one node's entry needs.              *)
DiscoveryInv ==
    /\ D!TypeOK
    /\ peers = [n \in Nodes |-> peers[n]]
    /\ members \in [Nodes -> SUBSET D!Addresses]

LEMMA DiscoveryInit ==
    ASSUME MaxFaults \in Nat, D!Init
    PROVE  DiscoveryInv
BY DEF D!Init, DiscoveryInv, D!TypeOK, D!Addresses, D!NoPeers, D!Address

(* Who joins, gossips or declares a member dead, at whatever address and   *)
(* on whatever side of a partition, leaves every running node in its own   *)
(* list: only an address that cannot be reached is dropped, and a node     *)
(* reaches itself.                                                         *)
LEMMA DiscoveryStep ==
    ASSUME MaxFaults \in Nat, DiscoveryInv, [D!Next]_(D!vars)
    PROVE  DiscoveryInv'
<1> USE DEF DiscoveryInv, D!TypeOK, D!Address
<1>1. CASE UNCHANGED D!vars
  BY <1>1 DEF D!vars, D!Addresses
<1>2. CASE D!Part
  BY <1>2 DEF D!Part, D!Fault, D!Addresses
<1>3. CASE D!Heal
  BY <1>3 DEF D!Heal, D!Addresses
<1>4. ASSUME NEW n \in Nodes, D!Start(n)
      PROVE  DiscoveryInv'
  <2>1. moves' \in [Nodes -> 0 .. MaxFaults] /\ \A m \in Nodes \ {n} : moves'[m] = moves[m]
    BY <1>4 DEF D!Start
  <2>2. <<n, moves'[n]>> \in D!Addresses
    BY <2>1 DEF D!Addresses
  <2>3. up' \subseteq Nodes /\ deaf' \subseteq up' /\ cut' \subseteq Nodes /\ faults' \in 0 .. MaxFaults
    BY <1>4 DEF D!Start, D!Fault
  <2>4. members' \in [Nodes -> SUBSET D!Addresses]
    BY <1>4, <2>2 DEF D!Start
  <2>5. \A m \in up' : <<m, moves'[m]>> \in members'[m]
    BY <1>4, <2>1 DEF D!Start
  <2>6. peers' = peers /\ D!Addresses' = D!Addresses
    BY <1>4 DEF D!Start, D!Addresses
  <2> HIDE DEF D!Addresses
  <2> QED BY Zenon, <2>1, <2>3, <2>4, <2>5, <2>6
<1>5. ASSUME NEW n \in Nodes, D!Crash(n)
      PROVE  DiscoveryInv'
  <2>1. /\ up' \subseteq up /\ deaf' \subseteq up' /\ faults' \in 0 .. MaxFaults
        /\ UNCHANGED <<moves, members, cut, D!Addresses>>
    BY <1>5 DEF D!Crash, D!Fault, D!Addresses
  <2>2. /\ peers' = [k \in Nodes |-> peers'[k]]
        /\ peers'[n] = D!NoPeers /\ \A k \in Nodes \ {n} : peers'[k] = peers[k]
    BY <1>5 DEF D!Crash
  <2>3. DOMAIN D!NoPeers = {}
    BY DEF D!NoPeers
  <2> QED BY <2>1, <2>2, <2>3
<1>6. ASSUME NEW n \in Nodes, NEW m \in Nodes, D!Broadcast(n, m)
      PROVE  DiscoveryInv'
  <2>1. <<m, moves[m]>> \in D!Addresses
    BY DEF D!Addresses
  <2>2. /\ peers' = [k \in Nodes |-> peers'[k]]
        /\ \A k \in Nodes \ {n} : peers'[k] = peers[k]
        /\ peers'[n] = [k \in DOMAIN peers[n] \cup {m} |-> IF k = m THEN <<m, moves[m]>> ELSE peers[n][k]]
        /\ n # m
    BY Zenon, <1>6 DEF D!Broadcast, D!handlePacket
  <2>3. /\ DOMAIN peers'[n] = DOMAIN peers[n] \cup {m}
        /\ peers'[n][m] = <<m, moves[m]>>
        /\ \A j \in DOMAIN peers[n] \ {m} : peers'[n][j] = peers[n][j]
    BY <2>2
  <2>4. /\ DOMAIN peers'[n] \subseteq Nodes \ {n}
        /\ \A j \in DOMAIN peers'[n] : peers'[n][j] \in D!Addresses /\ peers'[n][j][1] = j
    <3>1. DOMAIN peers'[n] \subseteq Nodes \ {n}
      BY Zenon, <2>2, <2>3
    <3>2. ASSUME NEW j \in DOMAIN peers'[n]
          PROVE  peers'[n][j] \in D!Addresses /\ peers'[n][j][1] = j
      <4>1. CASE j = m
        BY <2>1, <2>3, <4>1
      <4>2. CASE j # m
        <5>1. j \in DOMAIN peers[n] /\ peers'[n][j] = peers[n][j]
          BY <2>3, <4>2
        <5>2. peers[n][j] \in D!Addresses /\ peers[n][j][1] = j
          BY Zenon, <5>1
        <5> HIDE DEF DiscoveryInv, D!TypeOK
        <5> QED BY <5>1, <5>2
      <4> QED BY <4>1, <4>2
    <3> QED BY <3>1, <3>2
  <2>5. \A k \in Nodes : /\ DOMAIN peers'[k] \subseteq Nodes \ {k}
                         /\ \A j \in DOMAIN peers'[k] : peers'[k][j] \in D!Addresses /\ peers'[k][j][1] = j
    <3> SUFFICES ASSUME NEW k \in Nodes
                 PROVE  /\ DOMAIN peers'[k] \subseteq Nodes \ {k}
                        /\ \A j \in DOMAIN peers'[k] :
                              peers'[k][j] \in D!Addresses /\ peers'[k][j][1] = j
      OBVIOUS
    <3>1. CASE k = n
      BY Zenon, <2>4, <3>1
    <3>2. CASE k # n
      <4>1. peers'[k] = peers[k]
        BY <2>2, <3>2
      <4> QED BY Zenon, <4>1
    <3> QED BY <3>1, <3>2
  <2> QED BY <1>6, <2>2, <2>5 DEF D!Broadcast, D!Addresses
<1>7. ASSUME NEW n \in Nodes, D!discoveryJoinLoop(n)
      PROVE  DiscoveryInv'
  <2> DEFINE A == {a \in D!GetPeers(n) : D!Reachable(n, a)}
             lists == members[n] \cup UNION {members[a[1]] : a \in A}
  <2>1. \A a \in A : a[1] \in Nodes
    <3> SUFFICES ASSUME NEW a \in A PROVE a[1] \in Nodes
      OBVIOUS
    <3>1. PICK m \in DOMAIN peers[n] : a = peers[n][m]
      BY Zenon DEF D!GetPeers
    <3>2. m \in Nodes /\ peers[n][m][1] = m
      BY Zenon
    <3> QED BY <3>1, <3>2
  <2>2. lists \subseteq D!Addresses
    BY <2>1
  <2>3. members' = [k \in Nodes |-> IF k = n THEN lists
                                    ELSE IF <<k, moves[k]>> \in A THEN members[k] \cup members[n]
                                    ELSE members[k]]
    BY <1>7 DEF D!discoveryJoinLoop, D!Join
  <2>4. \A k \in Nodes : members[k] \subseteq members'[k] /\ members'[k] \subseteq D!Addresses
    BY <2>2, <2>3
  <2>5. members' \in [Nodes -> SUBSET D!Addresses]
    BY <2>3, <2>4
  <2> QED BY <1>7, <2>4, <2>5 DEF D!discoveryJoinLoop, D!Addresses
<1>8. ASSUME NEW n \in Nodes, NEW a \in D!Addresses, D!Gossip(n, a)
      PROVE  DiscoveryInv'
  <2>1. a[1] \in Nodes
    BY DEF D!Addresses
  <2>2. \A k \in Nodes : members[k] \subseteq members'[k] /\ members'[k] \subseteq D!Addresses
    BY <1>8, <2>1 DEF D!Gossip
  <2>3. members' \in [Nodes -> SUBSET D!Addresses]
    BY Zenon, <1>8, <2>2 DEF D!Gossip
  <2> QED BY <1>8, <2>2, <2>3 DEF D!Gossip, D!Addresses
<1>9. ASSUME NEW n \in Nodes, NEW a \in D!Addresses, D!Detect(n, a)
      PROVE  DiscoveryInv'
  <2>1. a # <<n, moves[n]>>
    BY <1>9 DEF D!Detect, D!Reachable, D!Connected
  <2>2. \A k \in Nodes : members'[k] \subseteq D!Addresses /\ (k \in up => <<k, moves[k]>> \in members'[k])
    BY <1>9, <2>1 DEF D!Detect
  <2>3. members' \in [Nodes -> SUBSET D!Addresses]
    BY <1>9, <2>2 DEF D!Detect
  <2> QED BY <1>9, <2>2, <2>3 DEF D!Detect, D!Addresses
<1> HIDE DEF DiscoveryInv, D!TypeOK
<1> QED BY <1>1, <1>2, <1>3, <1>4, <1>5, <1>6, <1>7, <1>8, <1>9 DEF D!Next

(* PeerDiscovery and discoveryJoinLoop, with any number of nodes, crashes, *)
(* moves and partitions: a node is always among its own members, so that   *)
(* NumMembers() <= 1 means that it is alone, is never its own peer, and    *)
(* knows a peer only under an address of that peer's.                      *)
THEOREM DiscoveryTypeCorrect ==
    ASSUME MaxFaults \in Nat
    PROVE  D!Spec => []D!TypeOK
<1>1. DiscoveryInv => D!TypeOK
  BY DEF DiscoveryInv
<1> QED BY <1>1, DiscoveryInit, DiscoveryStep, PTL DEF D!Spec
============================================================================
