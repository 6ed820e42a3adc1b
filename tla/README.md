# Joyride: TLA+ models, checks and proofs

Joyride is a DNS server built from CoreDNS and two plugins. `docker-cluster`
watches the local Docker daemon, serves an A record for every hostname found in
a container's labels, and shares its records with other nodes by gossip.
`traefik-externals` serves the hostnames found in Traefik configuration files.
This directory models both plugins, from the goroutines and the gossip to the
configuration and the answer to a query, checks the models with TLC and proves
their main safety properties with TLAPS.

Source paths below are relative to `src/plugins/docker-cluster/` unless they say
otherwise.

## 1. The system

| Component | State | Operations | What makes it hard |
|---|---|---|---|
| Records (`records.go`) | `data` (host to IP) and `meta` (host to timestamp and node), two atomic values; `mu` | `Add`, `Remove`, `AddWithMeta`, `RemoveWithMeta`, `ApplyMessage`, `Lookup`, `GetAll`, `GetAllWithMeta` | three writers; readers without a lock; two stores per write; no tombstones |
| ClusterDelegate (`delegate.go`, `message.go`) | `msgChan` (bounded), the broadcast queue | `NotifyMsg`, `processMessages`, `GetBroadcasts`, `LocalState`, `MergeRemoteState`, `BroadcastRecord` | lost, late, repeated and reordered messages; a full channel; torn and partly merged full states |
| ClusterManager (`cluster.go`) | `mu`, references to memberlist, delegate, discovery, context | `Start`, `Stop`, `Join`, `discoveryJoinLoop`, `NotifyRecordAdd`, `NotifyRecordRemove`, the numNodes callback | two locks taken in both orders; goroutines that outlive `Stop` |
| DockerWatcher (`docker_watcher.go`) | `containers`, `client`, backoff, context | `Start`, `Stop`, `connect`, `syncContainers`, `watchEvents`, the event handlers | failures of every call; changes between list and subscription; shared hostnames |
| PeerDiscovery (`discovery.go`) | `peers` | `Start`, `Stop`, `broadcastLoop`, `listenLoop`, `handlePacket`, `GetPeers` | lost packets; peers that crash, move and are never forgotten; partitions; islands |
| setup (`setup.go`, `cluster_config.go`) | configuration | `setup`, `parseConfig`, `Validate`, the `OnShutdown` handler | order of start and shutdown; a Corefile, legacy and new variables that disagree |
| DNS handler (`docker_cluster.go`) | none | `ServeDNS`, `handleUnknown` | records that change during a query; what is left to the next plugin |
| FileWatcher (`../traefik-externals/file_watcher.go`, `records.go`) | `debounceTimer`, the record map | `Start`, `Stop`, `handleEvent`, `loadAllConfigs`, `ReplaceAll` | overlapping loads; files that change while they are read; a timer that fires after `Stop` |
| Parser (`../traefik-externals/parser.go`) | environment variables | `ParseFile`, `ParseContent`, `stripComments`, `resolveEnvTemplate` | comments, quotes and templates; half-written files |
| Handler and setup of traefik-externals (`../traefik-externals/traefik_externals.go`, `setup.go`) | configuration | `setup`, `parseConfig`, `isDisabled`, `ServeDNS` | ways of being left out of the chain |
| The rest (version endpoint, metrics) | none that matters | | |

How they interact: the watcher applies a container's hostname to Records with
the plain `Add` or `Remove` and then calls back into ClusterManager, which reads
the clock's timestamp, applies the same change again as a timestamped message
and queues it for broadcast. A peer's memberlist hands the message to
`NotifyMsg`, from where `processMessages` applies it. Periodically two nodes
exchange full states (`LocalState`, `MergeRemoteState`). Without static seeds,
nodes find each other by PeerDiscovery's broadcasts, and a node that is alone
joins the peers it has heard of. The FileWatcher of `traefik-externals` parses the
files of its directory and replaces its own record map as a whole. A DNS query
passes the plugins `hosts`, `docker-cluster`, `traefik-externals`, `forward` in this
order, and each plugin reads its records without a lock.

`PROJECT.json` lists the hazards of this code, each at its line, with the
properties that cover it.

## 2. Modules

| Module | Models | Notes |
|---|---|---|
| `RecordStore` | the values of a store and the pure effect of each operation | no variables; a Go map is a total function with a sentinel for a missing key; node IDs are naturals in the order of the Go strings |
| `AtomicRecords` | what Records promises: calls happen one at a time, whole | the abstract specification |
| `Directory` | what the cluster promises of a container whose hostname is its own: its node's answer follows it, every other answer is hearsay | the abstract specification of `Cluster` |
| `Records` | the store under concurrent callers | one step for lock and loads, one per atomic store, one per lock-free load |
| `Cluster` | any number of nodes, each with store, watcher, gossip consumer and push/pull | uses `RecordStore`; a write is two steps, as `Records` justifies |
| `ClusterLifecycle` | start, join and shutdown of one node's goroutines and the two locks they share | records abstracted to "an announcement" |
| `DockerWatcher` | the watch loop of one node, its `Stop`, and the daemon | the record map is the set of its keys, since all addresses are the host's |
| `Discovery` | several nodes that look for each other: the peers maps, the packets, `discoveryJoinLoop`, and memberlist as far as the loop uses it | a member is an address, so that a node that moves is a new member |
| `FileWatcher` | the event loop, the debounce timer, loads on several goroutines, `Stop`, and a directory that changes | the record map is the set of its keys |
| `Parser` | the parser as pure operators, and a file that is read while it grows | a text is a sequence of tokens |
| `Config` | the configuration of both plugins as pure operators | no variables |
| `Dns` | setup of both plugins from a Corefile and an environment, and a query in the plugin chain | extends `Config`; composes the two handlers, the hosts and forward plugins and both record maps |
| `MC*` | values for the constants | |
| `*Proofs` | theorems and lemmas | |

**Records.** `Lock(w, op)` is `mu.Lock`, the loads and the early returns of one
call; `StoreData` and `StoreMeta` are the two `Store` calls, after which the
deferred unlock runs (`Return`). `LoadData` and `LoadMeta` are the two loads of
`GetAllWithMeta`. `Lookup`, `GetAll`, `Count` and `GetMeta` are single loads: what
they return is the value of `data` or `meta` in the state they run in.

**Cluster.** For every node: `data`, `meta`, `pending` (the meta map that the
holder of the mutex has yet to store), `tracked`, `watch` (what the watcher has
left to do for its last event), `clock`, `chan` (`msgChan`) and `push` (the full
state it is sending). `net` is the set of all messages ever broadcast: one may be
delivered late, twice, out of order or never. `ContainerStart` and
`ContainerStop` are the plain writes, `Notify` and `BroadcastRecord` the callback.
`NotifyMsg` drops at a full channel. `LocalStateData` and `LocalStateMeta` are the
two loads behind a full state; `ReceiveState` or `PushFail` ends the TCP exchange;
`MergeRemoteState` applies one entry, so that other writers come between
entries. `Crash` loses the whole memory of a node and restarts it. JSON is left
out except for its one visible effect: a record without metadata travels with the
zero `RecordMeta`. memberlist does not hand a node its own broadcasts.
`started` and `stopped` are history variables for the refinement mapping to `Directory`,
which reads `tracked` as what is up and a node's data as its answers, for the containers
whose hostname no other container has (`Own`).

**ClusterLifecycle.** `main` is the goroutine of `setup` and `OnShutdown`, the
only writer of `ClusterManager.mu`. `writer = "waiting"` is Go's rule that a
waiting writer keeps new readers out. `queueMu` is the lock of memberlist's
broadcast queue, held by gossip while it calls numNodes. `OnShutdown` is the order
of the handler's calls. `Waits` says which goroutine waits for which: for a lock, or, like
`Stop`, for the other's end.

**DockerWatcher.** `pc` is the place in `watchLoop`. Each external call is a step
with a success and a failure. `DaemonStart` and `DaemonExit` change the running
containers at any time; the subscription, once made, reports changes in order.
A handler runs on the loop's goroutine and is one step.

**Discovery.** `Start` and `Crash` take a node up and down; it may come back at
another address, or with a discovery that could not bind its port (`deaf`).
`Broadcast` is a packet that arrives, `handlePacket` what `listenLoop` does with it; a
packet that is lost changes nothing. `discoveryJoinLoop` is one tick. memberlist is
external: `Join` exchanges member lists with the peers that answer, `Gossip` spreads a
list among its members, `Detect` removes a member that cannot be reached.

**FileWatcher.** `main` is the goroutine of `setup` and `OnShutdown`, `loop` is
`watchLoop`, and each goroutine of `load` is in one call of `loadAllConfigs`: `ReadDir`, one
`ParseFile` per name in the order of the directory, `ReplaceAll`. Each of them is a step, so
files change between the reads of one load, some reads fail (`failed`), and loads overlap. `timer` is "fired" once
its function runs: from then on `Stop` and the next event do not hold it back. `begun`,
`installed` and `lost` are history variables for the properties.

**Parser.** `stripComments`, the regular expressions (`hostPattern`, `backtickPattern`)
and `resolveEnvTemplate` are folds over the tokens in the way the code or the regular
expression scans. `Declared` says what a file declares by positions, without
scanning: it is the reference the parser is compared with. `stripToken`, `hostToken`,
`quoteToken` and `envToken` are what the scanners do with one token.

**Config and Dns.** A block of the Corefile is a sequence of directives, an
environment a function. `SetupCluster` and `SetupExternals` run `parseCluster` and
`parseExternals` and may refuse the start. After that `ContainerUp`, `ContainerDown`,
`PeerAdds`, `PeerRemoves` and `Load` change the records at any time, also while a query
is between two plugins; the query notes what its name stood for meanwhile
(`Observe`). A handler is one step, because it loads its map once.

## 3. Runs

Passing runs:

| Run | Shows | Size |
|---|---|---|
| `records` | `HighestTimestampWins`, `MapsInStep`, `MetaOnlyAdvances`, and that `Records` implements `AtomicRecords` (`RefinesAtomic`) | 2 writers, 1 reader, 7 calls on 2 hosts with a tie and two spellings; 49 thousand states, symmetric in the writers |
| `cluster` | `OwnerServes`, `OwnerForgets`, `AnnouncementAccepted`, that `Cluster` implements `Directory` (`RefinesDirectory`), and `AddsSpread`: full-state sync alone spreads a container that stays up | 2 nodes, 1 container, 2 timestamps, a crash of its owner, channel of 1; 120 thousand states |
| `lifecycle` | `NothingLost`, `StoppedIsQuiet`, `NoCircularWait`, `ShutdownCompletes` | 3 announcements, with and without seeds; 6 thousand states |
| `watcher` | `TrackedFollowsDaemon`, `RecordsFollowTracked`, `NoClientLeak`, `StopReturns`, `ResyncHeals` | 3 containers (one hostname; the same and another; none), 4 changes, 1 failed inspection, a backoff cap that is not a power of two; 79 thousand states |
| `discovery` | `PeersCurrent`, `NobodyAlone`, `OneCluster` | 3 nodes, 1 fault: a crash, a port that cannot be bound or a partition; 73 thousand states |
| `externals` | `QuietIsCurrent`, `CatchesUp`, `StopHalts` | 2 files that count and 1 that does not, 2 changes, 1 failed read, 2 loads besides the first, an event queue of 1; 154 thousand states |
| `parser` | `ParsesRules`, `PartialReadIsSafe` | texts of up to 5 of 9 pieces (openers, closer, backticks, comment, newline, quoted names with a set and an unset variable), 9 tokens at most accepted; 68 thousand states |
| `dns` | `KnownAnswered`, `UnknownAsAsked`, `AddressAsAsked`, `PassedOnAnswered` | 218 combinations of Corefile and environment, 1 container, 2 records of peers, 2 names in the files, 3 questions of 3 types; 71 thousand states |

Each passing run checks `TypeOK` too. The bounds are the smallest with which the
interesting cases occur: two nodes and two timestamps give an addition and a removal
against a copy delivered late, and an announcement after a crash against the
node's own old record; a channel of one message is full after one; two writers
suffice for a lost update; a change during a load and one while the timer fires
are two changes; with three nodes a crash, a move or a partition leaves a single node
and a pair. Five pieces give two rules with a comment between them. Larger
numbers, and full states of several entries merged partly, are the business of
the proofs, which hold for any number.

`OneCluster` is stated for at most three nodes, because it is not true of four: two
pairs that formed apart never merge, since `discoveryJoinLoop` acts only on a node that
is alone. `QuietIsCurrent` and `CatchesUp` say "provided that" of what the code leaves
open: a lost event that no other stands in for, and overlapping loads that finish in
the opposite order (section 5). A file that could not be read is no such exception: the
records are exactly those of all other files. `RecordsFollowTracked` speaks of any
containers; only that a tracked container's hostname is served is stated for the
hostnames that no other container has (`Sole`), since the code removes a shared one with
the first of them, which `watcher_recreated` shows.

Runs that find a statement of the documentation or of a comment violated (the
quoted lines are in `PROJECT.json` under findings):

| Run | Statement | What happens |
|---|---|---|
| `cluster_dropped_removal` | "will be recovered via full state sync" | full states only add; a dropped removal stays dropped |
| `lifecycle_join` | Join "logs warnings on failure" | Join after `Stop` calls a nil memberlist |
| `watcher_recreated` | labelled containers are served | resynchronisation adds, then prunes the name it has just added |
| `dns_externals` | traefik-externals creates A records for the hostnames of the files | with the Corefile as shipped, docker-cluster drops the query first |

### Fairness

- `Cluster!SyncFairness`: the watcher finishes an event it has begun; a started
  write is finished; memberlist, which picks the partner of each periodic
  push/pull at random, completes an exchange with every peer again and again
  (strong fairness, since a partner may be busy or an attempt fail); the handler
  gets the store's mutex in the end (Go mutexes do not starve a waiter).
  Nothing is assumed of gossip. `FairSpec` adds that `processMessages` consumes
  its channel; it is used for the run about dropped removals, so that the
  counterexample does not rest on an idle consumer.
- `ClusterLifecycle!Fairness`: goroutines that can run do, and a waiter for the
  queue's lock gets it. Whether the node is ever shut down is left open, and no
  goroutine of Join is assumed to finish.
- `DockerWatcher!Fairness`: the loop's goroutine runs; a daemon that is asked
  again and again answers in the end (strong fairness of `Connect` and `List`).
  The stream need never break, which is why `ResyncHeals` is conditional on the
  watcher synchronising again and again.

- `FileWatcher!Fairness`: goroutines that can run do, an armed timer fires, a read
  returns. Whether the directory changes, a read fails or `Stop` is called is left
  open. `CatchesUp` assumes that the watcher keeps running; it does not assume that
  the directory rests, but the bound on changes makes it rest.
- `Discovery!Fairness`: every node broadcasts every five seconds and ticks as often,
  so between two connected nodes a packet gets through in the end (a broadcast that
  reaches a node is weakly fair; one that is lost is a step that changes nothing);
  memberlist goes on gossiping and probing. Nothing is assumed of starts, crashes,
  partitions and repairs: the properties speak of what holds once these have settled.

Deadlock checking is off where the system may stop: the watcher, the file watcher and
the life cycle end after `Stop` (there `StopReturns`, `StopHalts` and
`ShutdownCompletes` are what a circle of waiting goroutines would violate), a refused
setup ends `Dns`, and nodes that have settled have nothing left to change in
`Discovery`.

## 4. Proofs

The theorems hold for every value of the constants: any sets of nodes,
containers, hostnames, files, writers and readers, any channel and queue size, any
number of timestamps, crashes, changes and failures. They assume the named
assumptions only: `StoreAssumption` (lowercasing is idempotent, sentinels are not
values), `RecordsAssumption`, `ClusterAssumption`, `LifecycleAssumption`,
`WatcherAssumption`, `FileWatcherAssumption`, `ParserAssumption`, `ConfigAssumption` and
`DnsAssumption` (types of the constants, sentinels, lowercasing; a block is a finite
sequence of directives); the theorem about `Discovery` has the one fact of
`DiscoveryAssumption` it needs, that the bound on faults is a number, as its hypothesis. TLC
evaluates all the assumptions in the runs.

`RecordStoreProofs` holds the lemmas about the pure operators: their types, that
an operation touches one key, that `Outranks` is a strict order, what an
accepted and a rejected update leave.

`RecordsProofs`: `TypeCorrect`, `LastWriteWins` (`HighestTimestampWins`),
`InStepAlways` (`MapsInStep`), `Advances` (`MetaOnlyAdvances`), `Refinement`
(`RefinesAtomic`). The properties
are not inductive: they say nothing of the maps a writer has built and not yet
stored. The invariant `IInv` adds `LockInv` (only the lock holder is in a
write, and its maps are what its call makes of the shared ones) and `WinInv` (the
winner among the calls that have returned, and the two maps in step, whether or
not another call is under way). For the refinement a write takes effect at its data store, and the mapping
reads the meta map as already stored from then on (`CommittedMeta`).

`ClusterProofs`: `TypeCorrect`, then what each action does to one hostname, then
`ServesOwn` (`OwnerServes`), `ForgetsOwn` (`OwnerForgets`), `AcceptsOwn`
(`AnnouncementAccepted`), from one invariant about a container whose hostname is its own. Whatever is in circulation for that
hostname (in stores, channels, full states, on the network) carries the owner's
address, and metadata that is zero or was taken from the owner's clock. Unless
the owner has crashed or is just starting the container, it does not outrank the
metadata in the owner's own store. That is why copies that come back are
rejected, why torn snapshots do no harm, and why the plain `Remove`, which leaves
the metadata behind, protects the owner where a tombstone is missing. The proof
classifies each action by what it does to the hostname at its owner and
elsewhere, and shows that the bounds on metadata only grow.
`ClusterIsDirectory` (`RefinesDirectory`) says the same of the cluster as a whole: a
start, a stop and a crash are those of the directory, and every other step changes at
most one answer, or none, as `Learn` or `Forget` allow. For this the invariant also
says that nothing is in circulation for a hostname before its container was started,
and no removal before it was stopped. `Forget` asks for a container that was stopped
at some time, not for one that is down: a removal that is late may meet the container
running again, and the peer then has no answer until it hears of it.

`ClusterManagerProofs`, about `ClusterLifecycle`: `TypeCorrect`, `NoneLost` (`NothingLost`), `Quiet`
(`StoppedIsQuiet`), `NobodyLocked` (`NoCircularWait`). The invariant places everything relative to the main goroutine: in
which call of `OnShutdown` it is (`StageInv`), that the watcher has ended before the
references are cleared (`WatcherInv`), which of the goroutines it has already waited for
(`QuietInv`), and that the queue holds no more than was announced (`QueueInv`). `WaitInv`
adds who holds a lock when. A circle of waiting goroutines would have to contain the
main goroutine, since every other one waits only for it, or for gossip, which waits only
for it; but while it waits for the readers the watcher has ended, and while it waits for
a goroutine it holds no lock. The goroutines of Join wait for locks, but nobody waits for
them.

`ClusterManagerProofs`, about `Discovery`: `DiscoveryTypeCorrect` (`TypeOK`), for any nodes and
faults. It includes that a running node is among its own members, so that `NumMembers() <= 1`
means that it is alone, and never its own peer.

`DockerWatcherProofs`: `TypeCorrect`, `RecordsExact` (`RecordsFollowTracked`),
`ClientsClosed` (`NoClientLeak`), `FollowsDaemon` (`TrackedFollowsDaemon`). `RecordsExact` assumes
nothing about whose hostnames are whose: what one container's start or stop does to the
records cannot touch the hostnames that only another one has (`SoleKeys`). `NewsInv`
carries what is known of a container from the list over the subscription to the
stream: the last event about it in the stream, or if there is none what is tracked,
says whether it runs. `ClientInv` adds where in the loop a client may be held, so
that `connect` overwrites none.

`FileWatcherProofs`: `TypeCorrect`, `UpToDate` (`QuietIsCurrent`). `Informed` is the heart
of the argument: unless something is on its way that will cause another load (an
event, an armed timer, a load that has not listed the directory yet), the load that
began last has found exactly what the files stand for, but for those it could not read.
It has to speak of loads in progress (`Found`: what a load has is what the files it is
done with stand for now), since a file may change before or after it is read. `Numbered`
tells overlapping loads apart.

`ParserProofs`: `TypeCorrect`, `PartialReadsAreSafe` (`PartialReadIsSafe`),
`ParsesWhatIsDeclared` (`ParsesRules`), for texts of any length. The scanners are folds,
and the library's induction theorems take an operator, which the provers cannot
instantiate. `Induction` and `SequenceInduction` are therefore stated about a set
(the numbers or texts for which a claim holds) and proved from a least counterexample;
`Scan` describes a fold by its value after each token, so that one more token is one
more step (`ScanAppend`). Each scanner then has an invariant about the first `k` tokens that
says by positions what its state means: `StripIs` (what is kept are the live tokens, and
the two flags say how many backticks and comments the line has), `HostIs` (the rule that is
open, its text so far, and the rules that ended) and `QuoteNext` (the same for the quotes
of a rule, found among the live backticks by parity). `Declared` lists tokens by their
rank in a set of positions; the lemmas about `Rank` and `Tokens` say that one more position adds one token.
`PartialReadsAreSafe` needs no positions: one more token never takes back what a
scanner has found (`HostGrows`, `ParseGrowsByOne`).

`DnsProofs`: `TypeCorrect`, `AnswersKnown` (`KnownAnswered`), `AnswersPassedOn`
(`PassedOnAnswered`), `HandlesUnknown` (`UnknownAsAsked`), `AnswersAsAsked` (`AddressAsAsked`), for
blocks of any length and any environment. The first half is about `parseConfig`. Reading
the directives and reading the variables are folds, which `FoldRuns` turns into one step per
element; `ReadTo` says what the first `k` directives have made of the properties that the
operator can ask for in several places (the last one counts, or the default), and
`Overridden` the same for the first `k` variables, each of which has its place in the order
(`Places`). Together with the legacy variables this gives `ClusterConfigured` and
`ExternalsConfigured`: what `parseConfig` returns is what the operator asked for, said of
the whole input at once. The second half is about a query. Its history includes the
present for as long as it is under way (`Current`), so a name that was known throughout is
known when its handler looks, and the query does not get past that handler (`KnownInv`,
`PassedOnInv`). `AskedInv` carries the configuration to the reply: both handlers have what
their setup returned (`ConfigInv`), every record has docker-cluster's address or, with
clustering on, a peer's (`RecordsInv`), and so has every reply (`ReplyInv`), even if the
record is gone by now; a name without a record is passed on or handled as configured
(`UnknownInv`).

Model-checked only: liveness under fairness (`AddsSpread`, `ShutdownCompletes`, `StopReturns`,
`ResyncHeals`, `CatchesUp`, `StopHalts`, `PeersCurrent`, `NobodyAlone`, `OneCluster`), which is out of
the prover's reach. Every other property of a passing run is a theorem.

## 5. Limits

Abstractions:

- A container has one hostname in `Cluster` (several in `DockerWatcher` and `Dns`), and
  its labels never change.
- A node's clock only advances, clocks of different nodes are unrelated, and a
  timestamp is not used twice by one node. In the code, the hostnames of one event
  share a timestamp; they are different keys.
- memberlist is modelled from its use: what it delivers, when it calls the
  delegate, that its broadcast queue asks for numNodes under its own lock, and in
  `Discovery` that it gossips, probes and removes. Encryption is not modelled.
- `Discovery` looks at nodes without static seeds only.
- A directory that cannot be watched, or a Docker watcher that cannot start, ends
  the setup; what CoreDNS does then is outside the models.
- Token texts: a rule name inside a longer word, escapes, and YAML structure are not
  told apart by the parser and not modelled.

What the code does that no run states as a property, found while modelling:

- A full state may pair an address with another write's metadata, because
  `GetAllWithMeta` loads the two maps one after the other (`records.go:232`). `OwnerServes`
  and `OwnerForgets` hold in spite of it.
- Two nodes with a container of the same hostname: the removal announced by one is
  applied by the other to its own running container's record.
- A container that starts between `ContainerList` and the subscription to the events is
  not served until the stream breaks or the container changes
  (`docker_watcher.go:141`); `TrackedFollowsDaemon` names this gap and `ResyncHeals` says
  how it closes.
- Of two overlapping loads of the file watcher the older may be installed last; the
  records then stay out of date until the next event.
- Static seeds are contacted once, at start; a member whose only seed starts later,
  or restarts, is alone.
- A label's hostname with a final dot is accepted and stored with the dot, while
  queries are looked up without it.
- With `unknown_action nxdomain`, a query of a type other than A and AAAA for a known name
  gets NXDOMAIN.
- `traefik-externals` drops a query for a known name whose address is not IPv4, with
  fallthrough too, and parses its block even when it is disabled.
- `JOYRIDE_NXDOMAIN_ENABLED=false` does not undo `unknown_action nxdomain` of the Corefile.
- `StoppedIsQuiet` does not speak of the join loop: it may call memberlist's `Join` after
  `Stop` has shut memberlist down. What that does is outside `src/`.

Not modelled:

- The version endpoint: a constant string over HTTP that touches no other state.
- Metrics: counters that nothing in the program reads.
- `Add` and `Remove` of the traefik records, called by tests only; `GetAll`, `Count`,
  `GetMeta`, `Members`, `IsHealthy`, `GetEnvVar`, `GetDirectory`, which only read.
- The JSON encodings, apart from their visible effects, and log messages.

## 6. Plan

1. Composition of `DockerWatcher` with the store of `Cluster`, so that the watcher's
   part of `Cluster` is shown to be implemented by the watch loop.
2. `Discovery` with static seeds, and four nodes with a fault in a run of its own.
