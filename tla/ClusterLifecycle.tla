-------------------------- MODULE ClusterLifecycle --------------------------
(***************************************************************************)
(* Start and shutdown of one node's cluster manager: the goroutines that   *)
(* share ClusterManager.mu and memberlist's broadcast queue, and the order *)
(* in which setup.go starts and stops them.                                *)
(*                                                                         *)
(* ClusterManager.mu is a Go RWMutex: once a writer waits, no new reader   *)
(* gets in.  The watcher announces a record under the read lock and takes  *)
(* the queue's lock inside it; memberlist's gossip takes the queue's lock  *)
(* and, in the numNodes callback, the read lock inside that.  Which        *)
(* records are announced is the business of the Cluster module.            *)
(***************************************************************************)
EXTENDS Naturals, Sequences, FiniteSets

CONSTANT MaxEvents   \* bound on the record changes the watcher announces

ASSUME LifecycleAssumption == MaxEvents \in Nat

VARIABLES
    seeds,      \* whether static seeds are configured
    main,       \* the goroutine of setup and OnShutdown
    stage,      \* which of the OnShutdown calls it has come to
    readers,    \* goroutines that hold mu.RLock
    writer,     \* mu.Lock: nobody, waiting for the readers, or held
    queueMu,    \* whether gossip holds the lock of the broadcast queue
    queued,     \* messages in the broadcast queue
    refs,       \* which of cm.delegate, cm.memberlist, cm.discovery are set
    cancelled,  \* cm.ctx is done
    stopping,   \* the watcher's context is done
    ml,         \* the memberlist instance
    watcher, gossip, join, joinLoop, consumer, discovery,  \* goroutines
    events,     \* counter for the bound
    lost        \* history: an announcement found no delegate

mu == <<readers, writer>>
queue == <<queueMu, queued>>
helpers == <<join, joinLoop, consumer, discovery>>
vars == <<seeds, main, stage, readers, writer, queueMu, queued, refs, cancelled, stopping, ml,
          watcher, gossip, join, joinLoop, consumer, discovery, events, lost>>

Refs == {"delegate", "memberlist", "discovery"}
DiscoveryLoops == {"broadcast", "listen"}

(* NewClusterManager has made the delegate. *)
Init ==
    /\ seeds \in BOOLEAN
    /\ main = "start" /\ stage = 1
    /\ readers = {} /\ writer = "none" /\ queueMu = FALSE /\ queued = 0
    /\ refs = {"delegate"} /\ cancelled = FALSE /\ stopping = FALSE /\ ml = "none"
    /\ watcher = "off" /\ gossip = "idle" /\ join = "off" /\ joinLoop = "off"
    /\ consumer = "off" /\ discovery = [d \in DiscoveryLoops |-> "off"]
    /\ events = 0 /\ lost = FALSE

CanRead == writer = "none"
----------------------------------------------------------------------------
(* ClusterManager.Start, under the write lock. *)
StartLock ==
    /\ main = "start" /\ readers = {}
    /\ writer' = "held"
    /\ main' = "create"
    /\ UNCHANGED <<seeds, stage, readers, queue, refs, cancelled, stopping, ml, watcher, gossip,
                   helpers, events, lost>>

Create ==
    /\ main = "create"
    /\ \/ /\ ml' = "running" /\ refs' = refs \cup {"memberlist"}
          /\ main' = "startRest"
          /\ UNCHANGED writer
       \/ /\ main' = "failed" /\ writer' = "none"    \* setup returns the error
          /\ UNCHANGED <<ml, refs>>
    /\ UNCHANGED <<seeds, stage, readers, queue, cancelled, stopping, watcher, gossip, helpers,
                   events, lost>>

(* delegate.Start, and without seeds discovery.Start, whose failure to     *)
(* bind its port is only logged.                                           *)
StartRest ==
    /\ main = "startRest"
    /\ consumer' = "run"
    /\ refs' = IF seeds THEN refs ELSE refs \cup {"discovery"}
    /\ \/ ~seeds /\ discovery' = [d \in DiscoveryLoops |-> "run"]
       \/ UNCHANGED discovery
    /\ writer' = "none"
    /\ main' = "setup"
    /\ UNCHANGED <<seeds, stage, readers, queue, cancelled, stopping, ml, watcher, gossip, join,
                   joinLoop, events, lost>>

(* The rest of setup: the Join goroutine and the Docker watcher. *)
Setup ==
    /\ main = "setup"
    /\ join' = "begin" /\ watcher' = "idle"
    /\ main' = "serve"
    /\ UNCHANGED <<seeds, stage, mu, queue, refs, cancelled, stopping, ml, gossip, joinLoop,
                   consumer, discovery, events, lost>>
----------------------------------------------------------------------------
(* Mutant: the cluster is stopped before the watcher. *)
ClusterFirst == <<"cluster", "watcher">>

(* The calls of the OnShutdown handler. *)
OnShutdown == <<"watcher", "cluster">>

Shutdown ==
    /\ main = "serve"
    /\ main' = "shutdown"
    /\ UNCHANGED <<seeds, stage, mu, queue, refs, cancelled, stopping, ml, watcher, gossip,
                   helpers, events, lost>>

(* DockerWatcher.Stop: cancel, then wait for the loop. *)
StopWatcher ==
    /\ main = "shutdown" /\ stage <= Len(OnShutdown) /\ OnShutdown[stage] = "watcher"
    /\ stopping' = TRUE
    /\ main' = "waitWatcher"
    /\ UNCHANGED <<seeds, stage, mu, queue, refs, cancelled, ml, watcher, gossip, helpers, events,
                   lost>>

WaitWatcher ==
    /\ main = "waitWatcher" /\ watcher = "exit"
    /\ main' = "shutdown" /\ stage' = stage + 1
    /\ UNCHANGED <<seeds, mu, queue, refs, cancelled, stopping, ml, watcher, gossip, helpers,
                   events, lost>>

(* ClusterManager.Stop: mu.Lock() first keeps new readers out, ... *)
StopLock ==
    /\ main = "shutdown" /\ stage <= Len(OnShutdown) /\ OnShutdown[stage] = "cluster"
    /\ writer' = "waiting"
    /\ main' = "stopClear"
    /\ UNCHANGED <<seeds, stage, readers, queue, refs, cancelled, stopping, ml, watcher, gossip,
                   helpers, events, lost>>

(* ... and gets the lock when the readers are gone.  The references are    *)
(* cleared and the lock is released.                                       *)
StopClear ==
    /\ main = "stopClear" /\ readers = {}
    /\ refs' = {}
    /\ writer' = "none"
    /\ main' = "cancel"
    /\ UNCHANGED <<seeds, stage, readers, queue, cancelled, stopping, ml, watcher, gossip, helpers,
                   events, lost>>

Cancel ==
    /\ main = "cancel"
    /\ cancelled' = TRUE
    /\ main' = "stopDiscovery"
    /\ UNCHANGED <<seeds, stage, mu, queue, refs, stopping, ml, watcher, gossip, helpers, events,
                   lost>>

(* discovery.Stop and delegate.Stop wait for their goroutines. *)
StopDiscovery ==
    /\ main = "stopDiscovery" /\ \A d \in DiscoveryLoops : discovery[d] # "run"
    /\ main' = "stopDelegate"
    /\ UNCHANGED <<seeds, stage, mu, queue, refs, cancelled, stopping, ml, watcher, gossip,
                   helpers, events, lost>>

(* Mutant: delegate.Stop does not wait for processMessages. *)
StopDelegateNoWait ==
    /\ main = "stopDelegate"
    /\ main' = "leave"
    /\ UNCHANGED <<seeds, stage, mu, queue, refs, cancelled, stopping, ml, watcher, gossip,
                   helpers, events, lost>>

StopDelegate ==
    /\ main = "stopDelegate" /\ consumer # "run"
    /\ main' = "leave"
    /\ UNCHANGED <<seeds, stage, mu, queue, refs, cancelled, stopping, ml, watcher, gossip,
                   helpers, events, lost>>

(* Leave has a timeout and Shutdown waits for nobody. *)
Leave ==
    /\ main = "leave"
    /\ ml' = "left"
    /\ main' = "close"
    /\ UNCHANGED <<seeds, stage, mu, queue, refs, cancelled, stopping, watcher, gossip, helpers,
                   events, lost>>

Close ==
    /\ main = "close"
    /\ ml' = "shutdown"
    /\ main' = "shutdown" /\ stage' = stage + 1
    /\ UNCHANGED <<seeds, mu, queue, refs, cancelled, stopping, watcher, gossip, helpers, events,
                   lost>>

(* What is left of the handler, the version server's shutdown, has a       *)
(* timeout.                                                                *)
Done ==
    /\ main = "shutdown" /\ stage > Len(OnShutdown)
    /\ main' = "done"
    /\ UNCHANGED <<seeds, stage, mu, queue, refs, cancelled, stopping, ml, watcher, gossip,
                   helpers, events, lost>>
----------------------------------------------------------------------------
(* The watcher has an event to announce. *)
WatcherEvent ==
    /\ watcher = "idle" /\ events < MaxEvents
    /\ events' = events + 1
    /\ watcher' = "notify"
    /\ UNCHANGED <<seeds, main, stage, mu, queue, refs, cancelled, stopping, ml, gossip, helpers,
                   lost>>

(* NotifyRecordAdd and NotifyRecordRemove: without a delegate they return, *)
(* else the record is applied, ...                                         *)
NotifyRLock ==
    /\ watcher = "notify" /\ CanRead
    /\ \/ /\ "delegate" \in refs
          /\ readers' = readers \cup {"watcher"}
          /\ watcher' = "queue"
          /\ UNCHANGED lost
       \/ /\ "delegate" \notin refs
          /\ watcher' = "idle"
          /\ lost' = TRUE
          /\ UNCHANGED readers
    /\ UNCHANGED <<seeds, main, stage, writer, queue, refs, cancelled, stopping, ml, gossip,
                   helpers, events>>

(* ... BroadcastRecord queues it under the queue's lock, ... *)
QueueBroadcast ==
    /\ watcher = "queue" /\ ~queueMu
    /\ queued' = queued + 1
    /\ watcher' = "unlock"
    /\ UNCHANGED <<seeds, main, stage, mu, queueMu, refs, cancelled, stopping, ml, gossip, helpers,
                   events, lost>>

(* ... and mu is released. *)
NotifyRUnlock ==
    /\ watcher = "unlock"
    /\ readers' = readers \ {"watcher"}
    /\ watcher' = "idle"
    /\ UNCHANGED <<seeds, main, stage, writer, queue, refs, cancelled, stopping, ml, gossip,
                   helpers, events, lost>>

WatcherExit ==
    /\ watcher = "idle" /\ stopping
    /\ watcher' = "exit"
    /\ UNCHANGED <<seeds, main, stage, mu, queue, refs, cancelled, stopping, ml, gossip, helpers,
                   events, lost>>
----------------------------------------------------------------------------
(* Mutant: the queue is not tested for emptiness. *)
GetBroadcastsBlindly ==
    /\ gossip = "idle" /\ ml \in {"running", "left"} /\ ~queueMu
    /\ queueMu' = TRUE
    /\ gossip' = "numNodes"
    /\ UNCHANGED <<seeds, main, stage, mu, queued, refs, cancelled, stopping, ml, watcher, helpers,
                   events, lost>>

(* memberlist's gossip calls GetBroadcasts: with messages in it, the queue *)
(* asks for the number of nodes under its own lock, ...                    *)
GetBroadcasts ==
    /\ gossip = "idle" /\ ml \in {"running", "left"} /\ ~queueMu /\ queued > 0
    /\ queueMu' = TRUE
    /\ gossip' = "numNodes"
    /\ UNCHANGED <<seeds, main, stage, mu, queued, refs, cancelled, stopping, ml, watcher, helpers,
                   events, lost>>

(* ... which the callback reads under mu.RLock. *)
NumNodes ==
    /\ gossip = "numNodes" /\ CanRead
    /\ readers' = readers \cup {"gossip"}
    /\ gossip' = "counted"
    /\ UNCHANGED <<seeds, main, stage, writer, queue, refs, cancelled, stopping, ml, watcher,
                   helpers, events, lost>>

(* A message sent often enough leaves the queue. *)
Transmit ==
    /\ gossip = "counted"
    /\ readers' = readers \ {"gossip"}
    /\ queueMu' = FALSE
    /\ \/ queued' = queued - 1
       \/ UNCHANGED queued
    /\ gossip' = "idle"
    /\ UNCHANGED <<seeds, main, stage, writer, refs, cancelled, stopping, ml, watcher, helpers,
                   events, lost>>
----------------------------------------------------------------------------
(* Join reads the references, and with seeds calls memberlist's Join on    *)
(* what it read: a nil one panics.                                         *)
JoinSeeds ==
    /\ join = "begin" /\ seeds /\ CanRead
    /\ join' = IF "memberlist" \in refs THEN "joining" ELSE "panic"
    /\ UNCHANGED <<seeds, main, stage, mu, queue, refs, cancelled, stopping, ml, watcher, gossip,
                   joinLoop, consumer, discovery, events, lost>>

JoinSeedsDone ==
    /\ join = "joining"
    /\ join' = "done"
    /\ UNCHANGED <<seeds, main, stage, mu, queue, refs, cancelled, stopping, ml, watcher, gossip,
                   joinLoop, consumer, discovery, events, lost>>

(* Without seeds it leaves the rest to discoveryJoinLoop. *)
JoinDiscovered ==
    /\ join = "begin" /\ ~seeds /\ CanRead
    /\ join' = "done"
    /\ joinLoop' = IF "discovery" \in refs THEN "wait" ELSE joinLoop
    /\ UNCHANGED <<seeds, main, stage, mu, queue, refs, cancelled, stopping, ml, watcher, gossip,
                   consumer, discovery, events, lost>>

(* A tick of discoveryJoinLoop that finds peers, and the node alone, joins *)
(* them; one that finds no manager ends the loop; any other does nothing.  *)
JoinTick ==
    /\ joinLoop = "wait" /\ CanRead
    /\ joinLoop' = IF {"discovery", "memberlist"} \subseteq refs THEN "joining" ELSE "exit"
    /\ UNCHANGED <<seeds, main, stage, mu, queue, refs, cancelled, stopping, ml, watcher, gossip,
                   join, consumer, discovery, events, lost>>

JoinTickDone ==
    /\ joinLoop = "joining"
    /\ joinLoop' = "wait"
    /\ UNCHANGED <<seeds, main, stage, mu, queue, refs, cancelled, stopping, ml, watcher, gossip,
                   join, consumer, discovery, events, lost>>

JoinLoopExit ==
    /\ joinLoop = "wait" /\ cancelled
    /\ joinLoop' = "exit"
    /\ UNCHANGED <<seeds, main, stage, mu, queue, refs, cancelled, stopping, ml, watcher, gossip,
                   join, consumer, discovery, events, lost>>

(* processMessages and the two loops of discovery end with the context. *)
ConsumerExit ==
    /\ consumer = "run" /\ cancelled
    /\ consumer' = "exit"
    /\ UNCHANGED <<seeds, main, stage, mu, queue, refs, cancelled, stopping, ml, watcher, gossip,
                   join, joinLoop, discovery, events, lost>>

DiscoveryExit(d) ==
    /\ discovery[d] = "run" /\ cancelled
    /\ discovery' = [discovery EXCEPT ![d] = "exit"]
    /\ UNCHANGED <<seeds, main, stage, mu, queue, refs, cancelled, stopping, ml, watcher, gossip,
                   join, joinLoop, consumer, events, lost>>
----------------------------------------------------------------------------
Main ==
    \/ StartLock \/ Create \/ StartRest \/ Setup
    \/ StopWatcher \/ WaitWatcher \/ StopLock \/ StopClear \/ Cancel
    \/ StopDiscovery \/ StopDelegate \/ Leave \/ Close \/ Done

Watcher == WatcherEvent \/ NotifyRLock \/ QueueBroadcast \/ NotifyRUnlock \/ WatcherExit
Gossip == GetBroadcasts \/ NumNodes \/ Transmit
Joiner == JoinSeeds \/ JoinSeedsDone \/ JoinDiscovered \/ JoinTick \/ JoinTickDone \/ JoinLoopExit

(* A panic ends the process. *)
Alive == join # "panic"

Next ==
    /\ Alive
    /\ \/ Main \/ Shutdown \/ Watcher \/ Gossip \/ Joiner \/ ConsumerExit
       \/ \E d \in DiscoveryLoops : DiscoveryExit(d)

Spec == Init /\ [][Next]_vars

(* Every goroutine that can go on does.  A lock's waiters get it in turn,  *)
(* so a watcher that waits for the queue's lock is served.  When, and      *)
(* whether, the node is shut down is up to its operator.                   *)
Fairness ==
    /\ WF_vars(Alive /\ Main) /\ WF_vars(Alive /\ Gossip) /\ WF_vars(Alive /\ ConsumerExit)
    /\ WF_vars(Alive /\ (NotifyRLock \/ NotifyRUnlock \/ WatcherExit))
    /\ SF_vars(Alive /\ QueueBroadcast)
    /\ \A d \in DiscoveryLoops : WF_vars(Alive /\ DiscoveryExit(d))

FairSpec == Spec /\ Fairness
----------------------------------------------------------------------------
(* Every variable holds values of its type. *)
TypeOK ==
    /\ seeds \in BOOLEAN /\ cancelled \in BOOLEAN /\ stopping \in BOOLEAN /\ lost \in BOOLEAN
    /\ main \in {"start", "create", "startRest", "setup", "serve", "shutdown", "waitWatcher",
                 "stopClear", "cancel", "stopDiscovery", "stopDelegate", "leave", "close",
                 "done", "failed"}
    /\ stage \in 1..(Len(OnShutdown) + 1)
    /\ readers \subseteq {"watcher", "gossip"} /\ writer \in {"none", "waiting", "held"}
    /\ queueMu \in BOOLEAN /\ queued \in 0..MaxEvents /\ events \in 0..MaxEvents
    /\ refs \subseteq Refs
    /\ ml \in {"none", "running", "left", "shutdown"}
    /\ watcher \in {"off", "idle", "notify", "queue", "unlock", "exit"}
    /\ gossip \in {"idle", "numNodes", "counted"}
    /\ join \in {"off", "begin", "joining", "done", "panic"}
    /\ joinLoop \in {"off", "wait", "joining", "exit"}
    /\ consumer \in {"off", "run", "exit"}
    /\ discovery \in [DiscoveryLoops -> {"off", "run", "exit"}]

(* NotifyRecordAdd and NotifyRecordRemove return silently when the manager *)
(* has no delegate (cluster.go:243, 268).  In a running node that never    *)
(* happens: the watcher is gone before the references are cleared.         *)
NothingLost == ~lost

(* When OnShutdown has returned, the watcher, processMessages and the      *)
(* loops of discovery have ended and nobody waits for a lock: nothing of   *)
(* the plugin writes the store any more.                                   *)
StoppedIsQuiet ==
    main = "done" =>
        /\ watcher = "exit" /\ consumer # "run"
        /\ \A d \in DiscoveryLoops : discovery[d] # "run"
        /\ "watcher" \notin readers /\ writer = "none"

(* Shutdown ends: the write lock of Stop, the read lock around the queue   *)
(* and the queue's lock around numNodes never wait for one another in a    *)
(* circle.  (Only the panic of JoinOnlyWarns, below, comes between.)       *)
ShutdownCompletes == (main = "shutdown") ~> (main = "done" \/ join = "panic")

Goroutines == {"main", "watcher", "gossip", "consumer"} \cup DiscoveryLoops

(* Goroutine p goes on only after a step of q: q has a lock that p asks    *)
(* for, p is in a Stop that waits for q to end, or q is to cancel the      *)
(* context with which p ends.                                              *)
Waits(p, q) ==
    \/ p = "main" /\ main \in {"start", "stopClear"} /\ q \in readers
    \/ p = "main" /\ main = "waitWatcher" /\ q = "watcher" /\ watcher # "exit"
    \/ p = "main" /\ main = "stopDiscovery" /\ q \in DiscoveryLoops /\ discovery[q] = "run"
    \/ p = "main" /\ main = "stopDelegate" /\ q = "consumer" /\ consumer = "run"
    \/ p = "watcher" /\ watcher = "idle" /\ main = "waitWatcher" /\ ~stopping /\ q = "main"
    \/ p = "watcher" /\ watcher = "notify" /\ ~CanRead /\ q = "main"
    \/ p = "watcher" /\ watcher = "queue" /\ queueMu /\ q = "gossip"
    \/ p = "gossip" /\ gossip = "numNodes" /\ ~CanRead /\ q = "main"
    \/ p \in {"consumer"} \cup DiscoveryLoops /\ ~cancelled /\ q = "main"

(* The write lock that Stop waits for, the read lock around the queue and  *)
(* the queue's lock around numNodes, the waits of the Stop methods and the *)
(* contexts they cancel never close a circle: among any goroutines there   *)
(* is one that waits for none of them.                                     *)
NoCircularWait ==
    \A S \in SUBSET Goroutines : S # {} => \E p \in S : \A q \in S : ~Waits(p, q)

(* "Join cluster (non-blocking, logs warnings on failure)" (setup.go:59):  *)
(* a join that cannot be made does no harm.                                *)
JoinOnlyWarns == join # "panic"

============================================================================
