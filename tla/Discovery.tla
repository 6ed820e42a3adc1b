------------------------------ MODULE Discovery ------------------------------
(***************************************************************************)
(* How nodes without static seeds find each other: PeerDiscovery           *)
(* (discovery.go) on every node, its packets, and discoveryJoinLoop        *)
(* (cluster.go), over a network that loses packets and is parted at times, *)
(* while nodes crash and come back, at their old address or a new one.     *)
(*                                                                         *)
(* The membership protocol is memberlist's.  It is modelled by what the    *)
(* loop uses of it: Join exchanges the member lists with the peers it      *)
(* reaches, gossip spreads a list to its members, and a member that cannot *)
(* be reached is removed in the end.  A member is an address: <<node, i>>  *)
(* is node's address after its i-th change.                                *)
(***************************************************************************)
EXTENDS Naturals, FiniteSets

CONSTANTS
  Nodes,
  MaxFaults     \* bound: crashes, failures to start the discovery, and partitions

ASSUME DiscoveryAssumption == IsFiniteSet(Nodes) /\ MaxFaults \in Nat

VARIABLES
  up,           \* the nodes that run
  deaf,         \* those whose discovery could not bind its port
  moves,        \* how often a node's address has changed
  peers,        \* PeerDiscovery.peers: node ID -> address
  members,      \* memberlist's live members, the node itself included
  cut,          \* the nodes on one side of a partition, {} without one
  faults

vars == <<up, deaf, moves, peers, members, cut, faults>>

Addresses == Nodes \X (0 .. MaxFaults)

Address(n) == <<n, moves[n]>>

Connected(n, m) == n \in up /\ m \in up /\ (n \in cut <=> m \in cut)

(* Address a answers node n.                                               *)
Reachable(n, a) == Connected(n, a[1]) /\ a = Address(a[1])

Alone(n) == members[n] = {Address(n)}

NoPeers == [m \in {} |-> <<m, 0>>]

Init ==
  /\ up = {} /\ deaf = {} /\ cut = {} /\ faults = 0
  /\ moves = [n \in Nodes |-> 0]
  /\ peers = [n \in Nodes |-> NoPeers]
  /\ members = [n \in Nodes |-> {<<n, 0>>}]

Fault == faults < MaxFaults /\ faults' = faults + 1

(* The process starts: NewPeerDiscovery and Start, memberlist.Create.  A   *)
(* discovery that cannot bind its port is only logged.  A node that comes  *)
(* back may have been given another address.                               *)
Start(n) ==
  /\ n \notin up
  /\ up' = up \cup {n}
  /\ \/ UNCHANGED <<deaf, faults>>
     \/ Fault /\ deaf' = deaf \cup {n}
  /\ \/ UNCHANGED moves
     \/ moves[n] < faults /\ moves' = [moves EXCEPT ![n] = @ + 1]
  /\ members' = [members EXCEPT ![n] = {<<n, moves'[n]>>}]
  /\ UNCHANGED <<peers, cut>>

Crash(n) ==
  /\ n \in up /\ Fault
  /\ up' = up \ {n} /\ deaf' = deaf \ {n}
  /\ peers' = [peers EXCEPT ![n] = NoPeers]
  /\ UNCHANGED <<moves, members, cut>>

Part == \E S \in SUBSET Nodes \ {{}, Nodes} :
  /\ cut = {} /\ Fault
  /\ cut' = S
  /\ UNCHANGED <<up, deaf, moves, peers, members>>

Heal ==
  /\ cut # {}
  /\ cut' = {}
  /\ UNCHANGED <<up, deaf, moves, peers, members, faults>>

(* For comparison: the first address of a peer is kept.                    *)
handlePacketKeepsFirst(n, m) ==
  /\ n # m /\ m \notin DOMAIN peers[n]
  /\ peers' = [peers EXCEPT ![n] = [k \in DOMAIN @ \cup {m} |-> IF k = m THEN Address(m) ELSE @[k]]]

(* For comparison: a node takes its own packets for a peer's.              *)
handlePacketOwn(n, m) ==
  peers' = [peers EXCEPT ![n] = [k \in DOMAIN @ \cup {m} |-> IF k = m THEN Address(m) ELSE @[k]]]

(* A packet of m at n: its own is ignored, a later one replaces an earlier.*)
handlePacket(n, m) ==
  /\ n # m
  /\ peers' = [peers EXCEPT ![n] = [k \in DOMAIN @ \cup {m} |-> IF k = m THEN Address(m) ELSE @[k]]]

(* A broadcast of m that reaches n.  The ones that do not change nothing.  *)
Broadcast(n, m) ==
  /\ Connected(n, m) /\ n \notin deaf /\ m \notin deaf
  /\ handlePacket(n, m)
  /\ UNCHANGED <<up, deaf, moves, members, cut, faults>>

GetPeers(n) == {peers[n][m] : m \in DOMAIN peers[n]}

(* ml.Join(peers): the lists are exchanged with every peer that answers.   *)
Join(n, answering) ==
  LET lists == members[n] \cup UNION {members[a[1]] : a \in answering}
  IN  members' = [k \in Nodes |->
                    IF k = n THEN lists
                    ELSE IF Address(k) \in answering THEN members[k] \cup members[n] ELSE members[k]]

(* For comparison: a node does not count itself as a member.               *)
discoveryJoinLoopOffByOne(n) ==
  /\ n \in up
  /\ DOMAIN peers[n] # {}
  /\ Cardinality(members[n]) < 1
  /\ Join(n, {a \in GetPeers(n) : Reachable(n, a)})
  /\ UNCHANGED <<up, deaf, moves, peers, cut, faults>>

(* For comparison: the loop waits for a second peer.                       *)
discoveryJoinLoopTwoPeers(n) ==
  /\ n \in up
  /\ Cardinality(DOMAIN peers[n]) > 1
  /\ Cardinality(members[n]) <= 1
  /\ Join(n, {a \in GetPeers(n) : Reachable(n, a)})
  /\ UNCHANGED <<up, deaf, moves, peers, cut, faults>>

(* A tick of the loop: only a node with peers, and alone, joins.           *)
discoveryJoinLoop(n) ==
  /\ n \in up
  /\ DOMAIN peers[n] # {}
  /\ Cardinality(members[n]) <= 1
  /\ Join(n, {a \in GetPeers(n) : Reachable(n, a)})
  /\ UNCHANGED <<up, deaf, moves, peers, cut, faults>>

(* A member learns what another member that reaches it knows.              *)
Gossip(n, a) ==
  /\ n \in up
  /\ a \in members[n] \ {Address(n)} /\ Reachable(n, a)
  /\ members' = [members EXCEPT ![a[1]] = @ \cup {b \in members[n] : Reachable(n, b)}]
  /\ UNCHANGED <<up, deaf, moves, peers, cut, faults>>

(* A member that cannot be reached is declared dead.                       *)
Detect(n, a) ==
  /\ n \in up
  /\ a \in members[n] /\ ~Reachable(n, a)
  /\ members' = [members EXCEPT ![n] = @ \ {a}]
  /\ UNCHANGED <<up, deaf, moves, peers, cut, faults>>

Next ==
  \/ Part \/ Heal
  \/ \E n \in Nodes :
       \/ Start(n) \/ Crash(n) \/ discoveryJoinLoop(n)
       \/ \E m \in Nodes : Broadcast(n, m)
       \/ \E a \in Addresses : Gossip(n, a) \/ Detect(n, a)

Spec == Init /\ [][Next]_vars

(* Every node broadcasts every five seconds and tries to join as often, so *)
(* a packet gets through in the end; memberlist gossips and probes all the *)
(* time.  Nothing is assumed of crashes, starts, partitions and repairs.   *)
Fairness ==
  \A n \in Nodes :
    /\ WF_vars(discoveryJoinLoop(n))
    /\ \A m \in Nodes : WF_vars(Broadcast(n, m))
    /\ \A a \in Addresses : WF_vars(Gossip(n, a)) /\ WF_vars(Detect(n, a))

FairSpec == Spec /\ Fairness

-----------------------------------------------------------------------------

(* The state is well formed; a node knows itself as a member, and no node  *)
(* is its own peer.                                                        *)
TypeOK ==
  /\ up \subseteq Nodes /\ deaf \subseteq up /\ cut \subseteq Nodes
  /\ moves \in [Nodes -> 0 .. MaxFaults] /\ faults \in 0 .. MaxFaults
  /\ \A n \in Nodes :
       /\ DOMAIN peers[n] \subseteq Nodes \ {n}
       /\ \A m \in DOMAIN peers[n] : peers[n][m] \in Addresses /\ peers[n][m][1] = m
       /\ members[n] \subseteq Addresses
       /\ n \in up => Address(n) \in members[n]

(* From some time on the nodes that run are those of G, their discovery    *)
(* works and the network is whole.                                         *)
Settled(G) == up = G /\ deaf = {} /\ cut = {}

(* PeerDiscovery: in the end every node knows every other at its present   *)
(* address, also one that crashed, moved and came back.                    *)
PeersCurrent ==
  \A G \in SUBSET Nodes :
    <>[]Settled(G) => <>[](\A n \in G : \A m \in G \ {n} : m \in DOMAIN peers[n] /\ peers[n][m] = Address(m))

(* discoveryJoinLoop: no node stays alone among others, whatever crashed,  *)
(* moved or was parted before.                                             *)
NobodyAlone ==
  \A G \in SUBSET Nodes :
    <>[](Settled(G) /\ Cardinality(G) > 1) => <>[](\A n \in G : ~Alone(n))

(* Up to three nodes always end up in one cluster: of any two groups one   *)
(* is a single node, which joins.                                          *)
OneCluster ==
  \A G \in SUBSET Nodes :
    <>[](Settled(G) /\ Cardinality(G) <= 3) => <>[](\A n \in G : members[n] = {Address(m) : m \in G})

=============================================================================
