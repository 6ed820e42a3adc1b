--------------------------- MODULE DockerWatcher ---------------------------
(***************************************************************************)
(* The Docker watcher of one node (docker_watcher.go): the loop that       *)
(* connects to the daemon, lists the running containers, subscribes to     *)
(* events and follows them, and its Stop.  The daemon, the containers and  *)
(* the failures of each call are the environment.                          *)
(*                                                                         *)
(* The host's address is the same in all of the watcher's records, so the  *)
(* record map is the set of its keys.  A handler runs on the loop's own    *)
(* goroutine and is one step.                                              *)
(***************************************************************************)
EXTENDS Naturals, Sequences, FiniteSets

CONSTANTS
    Names, Lower,   \* hostnames as spelled in labels, and strings.ToLower
    Containers,
    Hostnames,      \* what extractHostnames returns for each container
    Overlap,        \* whether containers that share a hostname run together
    MaxBackoff,     \* maxBackoff, in seconds
    MaxChanges,     \* bound on the containers' starts and exits
    MaxBadInspects  \* bound on failed ContainerInspect calls

ASSUME WatcherAssumption ==
    /\ Lower \in [Names -> Names]
    /\ Hostnames \in [Containers -> SUBSET Names]
    /\ Overlap \in BOOLEAN
    /\ MaxBackoff \in Nat \ {0}
    /\ MaxChanges \in Nat /\ MaxBadInspects \in Nat

VARIABLES
    running,    \* the daemon's running containers
    stream,     \* events on the subscription, oldest first
    pc,         \* where watchLoop is
    client,     \* whether dw.client is set
    open,       \* Docker clients created and not closed
    backoff,    \* watchLoop's backoff
    listed,     \* the result of ContainerList
    tracked,    \* dw.containers; {} for a container that is no key
    records,    \* the hostnames with a record
    told,       \* the hostnames the callback last announced as added
    stop,       \* Stop: not called, waiting for the loop, returned
    changes, badInspects,   \* counters for the two bounds
    missed      \* history: containers whose last change the watcher was not told

daemon == <<running, changes>>
handled == <<tracked, records, told>>
vars == <<running, stream, pc, client, open, backoff, listed, tracked, records, told,
          stop, changes, badInspects, missed>>

Keys(names) == {Lower[n] : n \in names}
Labelled(c) == Hostnames[c] # {}
IsTracked(c) == tracked[c] # {}
Cancelled == stop # "no"

(* Start: the loop begins with nothing known of the daemon. *)
Init ==
    /\ running \in SUBSET Containers
    /\ Overlap \/ \A c, d \in running : c # d => Keys(Hostnames[c]) \cap Keys(Hostnames[d]) = {}
    /\ stream = << >> /\ listed = {}
    /\ pc = "top" /\ client = FALSE /\ open = 0 /\ backoff = 1
    /\ tracked = [c \in Containers |-> {}] /\ records = {} /\ told = {}
    /\ stop = "no"
    /\ changes = 0 /\ badInspects = 0 /\ missed = {}
----------------------------------------------------------------------------
(* The daemon: a container starts or exits.  The subscription, once made,  *)
(* reports it: a start, a die, or for "docker stop" a die and a stop.      *)
Change(c, evts) ==
    /\ changes < MaxChanges
    /\ changes' = changes + 1
    /\ stream' = IF pc = "events" THEN stream \o evts ELSE stream
    /\ missed' = CASE pc \in {"apply", "subscribe"} -> missed \cup {c}
                   [] pc = "events"                 -> missed \ {c}
                   [] OTHER                         -> missed
    /\ UNCHANGED <<pc, client, open, backoff, listed, handled, stop, badInspects>>

Event(act, c) == [action |-> act, id |-> c]

DaemonStart(c) ==
    /\ c \notin running
    /\ Overlap \/ \A d \in running : Keys(Hostnames[c]) \cap Keys(Hostnames[d]) = {}
    /\ running' = running \cup {c}
    /\ Change(c, <<Event("start", c)>>)

DaemonExit(c) ==
    /\ c \in running
    /\ running' = running \ {c}
    /\ \/ Change(c, <<Event("die", c)>>)
       \/ Change(c, <<Event("die", c), Event("stop", c)>>)
----------------------------------------------------------------------------
(* watchLoop: the check of the context at the top of an iteration. *)
Exit ==
    /\ pc = "top" /\ Cancelled
    /\ pc' = "exit"
    /\ UNCHANGED <<daemon, stream, client, open, backoff, listed, handled, stop,
                   badInspects, missed>>

(* Mutant: the backoff doubles without a cap. *)
nextBackoffUncapped(b) == b * 2

nextBackoff(b) == IF b * 2 > MaxBackoff THEN MaxBackoff ELSE b * 2

(* An iteration ends in dw.sleep(backoff). *)
Sleep == pc' = "sleep"

Wake ==
    /\ pc = "sleep"
    /\ backoff' = nextBackoff(backoff)
    /\ pc' = "top"
    /\ UNCHANGED <<daemon, stream, client, open, listed, handled, stop, badInspects, missed>>

(* connect: a client is made, the daemon answers the ping, and the backoff *)
(* is reset.                                                               *)
Connect ==
    /\ pc = "top" /\ ~Cancelled
    /\ client' = TRUE /\ open' = open + 1
    /\ backoff' = 1
    /\ pc' = "list"
    /\ UNCHANGED <<daemon, stream, listed, handled, stop, badInspects, missed>>

(* connect fails; a client that got no answer is closed. *)
ConnectFail ==
    /\ pc = "top" /\ ~Cancelled
    /\ Sleep
    /\ UNCHANGED <<daemon, stream, client, open, backoff, listed, handled, stop,
                   badInspects, missed>>

closeClient ==
    /\ client' = FALSE
    /\ open' = IF client THEN open - 1 ELSE open

(* syncContainers: ContainerList answers. *)
List ==
    /\ pc = "list"
    /\ listed' = running
    /\ missed' = {}
    /\ pc' = "apply"
    /\ UNCHANGED <<daemon, stream, client, open, backoff, handled, stop, badInspects>>

ListFail ==
    /\ pc = "list"
    /\ closeClient
    /\ Sleep
    /\ UNCHANGED <<daemon, stream, backoff, listed, handled, stop, badInspects, missed>>

(* updateContainer for every container of cs: names that were not there    *)
(* before are added and announced.  A container's labels never change.     *)
AddedNames(cs) == UNION {Hostnames[c] \ tracked[c] : c \in cs}

(* Mutant: containers that are gone are dropped without the callback. *)
PruneSilently ==
    LET gone == UNION {tracked[c] : c \in Containers \ listed}
        added == AddedNames(listed)
    IN  /\ tracked' = [c \in Containers |-> IF c \in listed THEN Hostnames[c] ELSE {}]
        /\ records' = (records \cup Keys(added)) \ Keys(gone)
        /\ told' = told \cup Keys(added)

(* Mutant: the list only adds; nothing is removed. *)
PruneNothing ==
    LET added == AddedNames(listed)
    IN  /\ tracked' = [c \in Containers |-> IF c \in listed THEN Hostnames[c] ELSE tracked[c]]
        /\ records' = records \cup Keys(added)
        /\ told' = told \cup Keys(added)

(* The rest of syncContainers: every listed container is added, then the   *)
(* ones that are tracked and not listed are removed, and the callback is   *)
(* made for both in this order.                                            *)
SyncList ==
    LET gone == UNION {tracked[c] : c \in Containers \ listed}
        added == AddedNames(listed)
    IN  /\ tracked' = [c \in Containers |-> IF c \in listed THEN Hostnames[c] ELSE {}]
        /\ records' = (records \cup Keys(added)) \ Keys(gone)
        /\ told' = (told \cup Keys(added)) \ Keys(gone)

ApplyList ==
    /\ pc = "apply"
    /\ SyncList
    /\ listed' = {}
    /\ pc' = "subscribe"
    /\ UNCHANGED <<daemon, stream, client, open, backoff, stop, badInspects, missed>>

(* watchEvents: events from now on. *)
Subscribe ==
    /\ pc = "subscribe"
    /\ stream' = << >>
    /\ pc' = "events"
    /\ UNCHANGED <<daemon, client, open, backoff, listed, handled, stop, badInspects, missed>>

(* Mutant: only "docker stop" is understood, not a container's own exit. *)
handleStopIgnoresDie(e) ==
    \/ e.action = "die" /\ UNCHANGED handled
    \/ /\ e.action = "stop"
       /\ tracked' = [tracked EXCEPT ![e.id] = {}]
       /\ records' = records \ Keys(tracked[e.id])
       /\ told' = told \ Keys(tracked[e.id])

(* handleContainerStop: stop and die alike. *)
handleContainerStop(e) ==
    /\ e.action \in {"stop", "die"}
    /\ tracked' = [tracked EXCEPT ![e.id] = {}]
    /\ records' = records \ Keys(tracked[e.id])
    /\ told' = told \ Keys(tracked[e.id])

(* handleContainerStart, the container inspected. *)
handleContainerStart(e) ==
    /\ e.action = "start"
    /\ tracked' = [tracked EXCEPT ![e.id] = Hostnames[e.id]]
    /\ records' = records \cup Keys(AddedNames({e.id}))
    /\ told' = told \cup Keys(AddedNames({e.id}))

(* consumeEvents hands the next event to handleEvent. *)
HandleEvent ==
    /\ pc = "events" /\ stream # << >>
    /\ stream' = Tail(stream)
    /\ handleContainerStart(Head(stream)) \/ handleContainerStop(Head(stream))
    /\ UNCHANGED <<daemon, pc, client, open, backoff, listed, stop, badInspects, missed>>

(* ContainerInspect fails and the start event is given up. *)
InspectFail ==
    /\ pc = "events" /\ stream # << >> /\ Head(stream).action = "start"
    /\ badInspects < MaxBadInspects
    /\ badInspects' = badInspects + 1
    /\ stream' = Tail(stream)
    /\ missed' = IF \E i \in 2..Len(stream) : stream[i].id = Head(stream).id
                 THEN missed ELSE missed \cup {Head(stream).id}
    /\ UNCHANGED <<daemon, pc, client, open, backoff, listed, handled, stop>>

(* Mutant: the client of a broken stream is not closed. *)
StreamErrorKeepsClient ==
    /\ pc = "events"
    /\ stream' = << >>
    /\ client' = FALSE
    /\ Sleep
    /\ UNCHANGED <<daemon, open, backoff, listed, handled, stop, badInspects, missed>>

(* The event stream breaks; events not consumed yet are lost. *)
StreamError ==
    /\ pc = "events"
    /\ stream' = << >>
    /\ closeClient
    /\ Sleep
    /\ UNCHANGED <<daemon, backoff, listed, handled, stop, badInspects, missed>>

(* Mutant: cancellation is noticed only when an event arrives. *)
ConsumeDoneOnEvent ==
    /\ pc = "events" /\ Cancelled /\ stream # << >>
    /\ stream' = << >>
    /\ pc' = "top"
    /\ UNCHANGED <<daemon, client, open, backoff, listed, handled, stop, badInspects, missed>>

(* consumeEvents returns nil on cancellation, and the loop goes round. *)
ConsumeDone ==
    /\ pc = "events" /\ Cancelled
    /\ stream' = << >>
    /\ pc' = "top"
    /\ UNCHANGED <<daemon, client, open, backoff, listed, handled, stop, badInspects, missed>>

(* Stop cancels the context, ... *)
StopCall ==
    /\ stop = "no"
    /\ stop' = "waiting"
    /\ UNCHANGED <<daemon, stream, pc, client, open, backoff, listed, handled, badInspects, missed>>

(* ... waits for the loop to end and closes the client it left. *)
StopReturn ==
    /\ stop = "waiting" /\ pc = "exit"
    /\ stop' = "done"
    /\ closeClient
    /\ UNCHANGED <<daemon, stream, pc, backoff, listed, handled, badInspects, missed>>

Loop ==
    \/ Exit \/ Wake \/ Connect \/ ConnectFail \/ List \/ ListFail \/ ApplyList
    \/ Subscribe \/ HandleEvent \/ InspectFail \/ StreamError \/ ConsumeDone

Next ==
    \/ \E c \in Containers : DaemonStart(c) \/ DaemonExit(c)
    \/ Loop
    \/ StopCall \/ StopReturn

Spec == Init /\ [][Next]_vars

(* The loop's goroutine is scheduled; a daemon that is asked again and     *)
(* again answers in the end.  The stream need not ever break.              *)
Fairness ==
    /\ WF_vars(Exit \/ Wake \/ ApplyList \/ Subscribe \/ HandleEvent \/ ConsumeDone)
    /\ SF_vars(Connect) /\ SF_vars(List)
    /\ WF_vars(StopReturn)

FairSpec == Spec /\ Fairness
----------------------------------------------------------------------------
(* Every variable holds values of its type; the backoff stays between one  *)
(* second and its cap.                                                     *)
TypeOK ==
    /\ running \subseteq Containers /\ listed \subseteq Containers
    /\ stream \in Seq([action : {"start", "stop", "die"}, id : Containers])
    /\ pc \in {"top", "list", "apply", "subscribe", "events", "sleep", "exit"}
    /\ client \in BOOLEAN /\ open \in Nat
    /\ backoff \in 1..MaxBackoff
    /\ \A c \in Containers : tracked[c] \in {{}, Hostnames[c]}
    /\ DOMAIN tracked = Containers
    /\ records \subseteq Keys(Names) /\ told \subseteq Keys(Names)
    /\ stop \in {"no", "waiting", "done"}
    /\ changes \in 0..MaxChanges /\ badInspects \in 0..MaxBadInspects
    /\ missed \subseteq Containers

(* What the watcher will make of container c once it has handled all       *)
(* events of the stream.                                                   *)
WillTrack(c) ==
    LET about == {i \in 1..Len(stream) : stream[i].id = c}
        last == CHOOSE i \in about : \A j \in about : j <= i
    IN  IF about = {} THEN IsTracked(c) ELSE stream[last].action = "start"

(* The watcher misses a change in two ways only: the change falls between  *)
(* ContainerList and the subscription, or the inspection of a started      *)
(* container fails.  Of any other container, while the stream is up, the   *)
(* watcher knows, or is about to learn, whether it runs.                   *)
TrackedFollowsDaemon ==
    pc = "events" => \A c \in Containers \ missed : Labelled(c) => (WillTrack(c) <=> c \in running)

(* The hostnames of c that no other container has. *)
Sole(c) == {k \in Keys(Hostnames[c]) : \A d \in Containers \ {c} : k \notin Keys(Hostnames[d])}

(* What is served is what the cluster has been told of, and comes from     *)
(* tracked containers only; and a tracked container is served under every  *)
(* hostname that no other container has.  This holds in every state of the *)
(* loop: connection losses and resynchronisations leave no record behind   *)
(* and lose no callback.                                                   *)
RecordsFollowTracked ==
    /\ told = records
    /\ \A k \in records : \E c \in Containers : k \in Keys(tracked[c])
    /\ \A c \in Containers : Keys(tracked[c]) \cap Sole(c) \subseteq records

(* Every Docker client is closed but the one dw.client holds, on every     *)
(* error path, and after Stop has returned there is none and no loop.      *)
NoClientLeak ==
    /\ open = IF client THEN 1 ELSE 0
    /\ stop = "done" => open = 0 /\ pc = "exit"

(* Stop returns, wherever the loop is when it is called. *)
StopReturns == (stop = "waiting") ~> (stop = "done")

(* What the watcher missed is repaired by its next synchronisation: if it  *)
(* synchronises again and again, a container that stays up is in the end   *)
(* served for good under the hostnames only it has, and one that stays     *)
(* down is not.                                                            *)
ResyncHeals ==
    \A c \in Containers :
        []<>(pc = "apply") =>
            /\ <>[](c \in running) => <>[](Sole(c) \subseteq records)
            /\ <>[](c \notin running) => <>[](Sole(c) \cap records = {})

(* "Serves A records for labeled containers" (README.md:27): the hostnames *)
(* of a running container that the watcher tracks have records.            *)
TrackedIsServed ==
    \A c \in running : Keys(tracked[c]) \subseteq records

============================================================================
