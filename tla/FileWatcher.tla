---------------------------- MODULE FileWatcher ----------------------------
(***************************************************************************)
(* The FileWatcher of traefik-externals (file_watcher.go) and the records  *)
(* it fills.  A directory of configuration files changes at any time; a    *)
(* change is reported as an event; an event arms a debounce timer, in      *)
(* place of the one armed before; the timer's function loads the whole     *)
(* directory on a goroutine of its own and replaces all records.  A timer  *)
(* that has fired can no longer be stopped, so that loads overlap.         *)
(*                                                                         *)
(* All records have the same address, hence records is the set of their    *)
(* keys.                                                                   *)
(***************************************************************************)
EXTENDS Naturals, Sequences

CONSTANTS
    Files,       \* names in the directory: numbers, in the order of ReadDir
    Relevant,    \* those ending in .yml or .yaml that are not middleware-only
    Docs,        \* what a name may stand for
    Unusable,    \* ... subdirectories, links, files that are too large
    Parsed,      \* the hostnames of the rules in each of the others, as spelled
    Names, Lower,
    Dirs,        \* what the directory may be before Start
    Starter,     \* the goroutine of setup, which does the initial load
    Timers,      \* the goroutines of fired timers: a bound on overlapping loads
    QueueSize,   \* room for events that are not handled yet
    MaxChanges,  \* bound on changes of the directory
    MaxFaults,   \* bound on reads that fail
    NoFile, Idle

Hosts == {Lower[n] : n \in Names}
LoadStates ==
    [at : {"dir", "read"}, n : Nat, todo : SUBSET Relevant, hosts : SUBSET Hosts,
     failed : SUBSET Relevant]

ASSUME FileWatcherAssumption ==
    /\ Files \subseteq Nat /\ Relevant \subseteq Files
    /\ Unusable \subseteq Docs /\ NoFile \notin Docs
    /\ Lower \in [Names -> Names] /\ \A n \in Names : Lower[Lower[n]] = Lower[n]
    /\ Dirs \subseteq [Files -> Docs \cup {NoFile}]
    /\ Parsed \in [Docs -> SUBSET Names]
    /\ Starter \notin Timers
    /\ QueueSize \in Nat \ {0} /\ MaxChanges \in Nat /\ MaxFaults \in Nat
    /\ Idle \notin LoadStates

VARIABLES
    dir,        \* what each name of the directory stands for
    watching,   \* the fsnotify watcher is open
    queue,      \* events that watchLoop has not received yet
    main,       \* the goroutine of setup and OnShutdown
    loop,       \* watchLoop
    timer,      \* debounceTimer
    load,       \* for each goroutine, the loadAllConfigs it is in
    cancelled,  \* ctx is done
    records,    \* Records.data
    changes, faults,
    begun,      \* history: how many loads have begun
    installed,  \* history: which of them the records come from, and what it could not read
    lost        \* history: an event was lost that no other event stands in for

vars == <<dir, watching, queue, main, loop, timer, load, cancelled, records,
          changes, faults, begun, installed, lost>>

Goroutines == {Starter} \cup Timers

(* A load that has just been called. *)
NewLoad == [at |-> "dir", n |-> 0, todo |-> {}, hosts |-> {}, failed |-> {}]

Init ==
    /\ dir \in Dirs
    /\ watching = FALSE /\ queue = << >>
    /\ main = "new" /\ loop = "none" /\ timer = "none"
    /\ load = [g \in Goroutines |-> Idle]
    /\ cancelled = FALSE /\ records = {}
    /\ changes = 0 /\ faults = 0
    /\ begun = 0 /\ installed = [n |-> 0, failed |-> {}]
    /\ lost = FALSE

(* What loadAllConfigs takes from one entry of the directory. *)
HostsIn(d) == IF d = NoFile \/ d \in Unusable THEN {} ELSE {Lower[h] : h \in Parsed[d]}

(* The hostnames in the files fs of the directory as it is now. *)
HostsOf(fs) == UNION {HostsIn(dir[f]) : f \in fs}
----------------------------------------------------------------------------
(* inotify reports a change of f to an open watcher.  With its queue full  *)
(* the event is lost; watchLoop only logs the error that says so.          *)
Report(f) ==
    IF ~watching THEN UNCHANGED <<queue, lost>>
    ELSE IF Len(queue) < QueueSize
    THEN queue' = Append(queue, f) /\ UNCHANGED lost
    ELSE /\ lost' = (lost \/ (f \in Relevant /\ \A i \in 1..Len(queue) : queue[i] \notin Relevant))
         /\ UNCHANGED queue

(* Somebody creates, writes, replaces or deletes a file.  A file written   *)
(* in several pieces is several changes.                                   *)
Change(f, d) ==
    /\ changes < MaxChanges /\ dir[f] # d
    /\ dir' = [dir EXCEPT ![f] = d]
    /\ changes' = changes + 1
    /\ Report(f)
    /\ UNCHANGED <<watching, main, loop, timer, load, cancelled, records, faults, begun, installed>>
----------------------------------------------------------------------------
(* Start: the watcher is created, then the first load is called.  (When    *)
(* the watcher cannot be created setup fails and there is no FileWatcher.) *)
Start ==
    /\ main = "new"
    /\ main' = "loading"
    /\ watching' = TRUE
    /\ load' = [load EXCEPT ![Starter] = NewLoad]
    /\ UNCHANGED <<dir, queue, loop, timer, cancelled, records, changes, faults, begun,
                   installed, lost>>

(* Mutant: events are received only from the end of the first load on. *)
StartLoopFresh ==
    /\ main = "loading" /\ load[Starter] = Idle
    /\ main' = "running" /\ loop' = "running" /\ queue' = << >>
    /\ UNCHANGED <<dir, watching, timer, load, cancelled, records, changes, faults, begun,
                   installed, lost>>

(* ... and, once it has returned, watchLoop is started. *)
StartLoop ==
    /\ main = "loading" /\ load[Starter] = Idle
    /\ main' = "running" /\ loop' = "running"
    /\ UNCHANGED <<dir, watching, queue, timer, load, cancelled, records, changes, faults, begun,
                   installed, lost>>
----------------------------------------------------------------------------
(* Mutant: an event is ignored while there is a timer, fired or not. *)
HandleEventOnce ==
    /\ loop = "running" /\ watching /\ queue # << >>
    /\ queue' = Tail(queue)
    /\ timer' = IF Head(queue) \in Relevant /\ timer = "none" THEN "armed" ELSE timer
    /\ UNCHANGED <<dir, watching, main, loop, load, cancelled, records, changes, faults, begun,
                   installed, lost>>

(* watchLoop receives an event and calls handleEvent.  With the context    *)
(* cancelled it may still pick the event.                                  *)
HandleEvent ==
    /\ loop = "running" /\ watching /\ queue # << >>
    /\ queue' = Tail(queue)
    /\ timer' = IF Head(queue) \in Relevant THEN "armed" ELSE timer
    /\ UNCHANGED <<dir, watching, main, loop, load, cancelled, records, changes, faults, begun,
                   installed, lost>>

(* Mutant: the context is looked at only when there is an event. *)
LoopExitOnEvent ==
    /\ loop = "running" /\ cancelled /\ queue # << >>
    /\ loop' = "done"
    /\ UNCHANGED <<dir, watching, queue, main, timer, load, cancelled, records, changes, faults,
                   begun, installed, lost>>

LoopExit ==
    /\ loop = "running" /\ (cancelled \/ ~watching)
    /\ loop' = "done"
    /\ UNCHANGED <<dir, watching, queue, main, timer, load, cancelled, records, changes, faults,
                   begun, installed, lost>>

(* The timer fires: its function calls loadAllConfigs on a new goroutine.  *)
TimerFires(g) ==
    /\ timer = "armed" /\ load[g] = Idle
    /\ timer' = "fired"
    /\ load' = [load EXCEPT ![g] = NewLoad]
    /\ UNCHANGED <<dir, watching, queue, main, loop, cancelled, records, changes, faults, begun,
                   installed, lost>>
----------------------------------------------------------------------------
(* Mutant: the names are not filtered. *)
ReadDirAll(g) ==
    /\ load[g] # Idle /\ load[g].at = "dir"
    /\ begun' = begun + 1
    /\ load' = [load EXCEPT ![g] = [at    |-> "read", n |-> begun + 1,
                                    todo  |-> {f \in Files : dir[f] # NoFile},
                                    hosts |-> {}, failed |-> {}]]
    /\ UNCHANGED <<dir, watching, queue, main, loop, timer, cancelled, records, changes, faults,
                   installed, lost>>

(* loadAllConfigs lists the directory, ... *)
ReadDir(g) ==
    /\ load[g] # Idle /\ load[g].at = "dir"
    /\ begun' = begun + 1
    /\ load' = [load EXCEPT ![g] = [at    |-> "read", n |-> begun + 1,
                                    todo  |-> {f \in Relevant : dir[f] # NoFile},
                                    hosts |-> {}, failed |-> {}]]
    /\ UNCHANGED <<dir, watching, queue, main, loop, timer, cancelled, records, changes, faults,
                   installed, lost>>

(* ... or cannot, and leaves the records as they are. *)
ReadDirFail(g) ==
    /\ load[g] # Idle /\ load[g].at = "dir" /\ faults < MaxFaults
    /\ faults' = faults + 1
    /\ begun' = begun + 1
    /\ load' = [load EXCEPT ![g] = Idle]
    /\ UNCHANGED <<dir, watching, queue, main, loop, timer, cancelled, records, changes, installed,
                   lost>>

(* The next file is opened and parsed: one that is gone or unusable by now *)
(* contributes nothing, ...                                                *)
ParseFile(g) ==
    /\ load[g] # Idle /\ load[g].at = "read"
    /\ \E f \in load[g].todo :
          /\ \A e \in load[g].todo : f <= e
          /\ load' = [load EXCEPT ![g] = [load[g] EXCEPT !.todo = load[g].todo \ {f},
                                                         !.hosts = load[g].hosts \cup HostsIn(dir[f])]]
    /\ UNCHANGED <<dir, watching, queue, main, loop, timer, cancelled, records, changes, faults,
                   begun, installed, lost>>

(* ... nor does one that cannot be read. *)
ParseFileFail(g) ==
    /\ load[g] # Idle /\ load[g].at = "read" /\ faults < MaxFaults
    /\ faults' = faults + 1
    /\ \E f \in load[g].todo :
          /\ \A e \in load[g].todo : f <= e
          /\ load' = [load EXCEPT ![g] = [load[g] EXCEPT !.todo = load[g].todo \ {f},
                                                         !.failed = load[g].failed \cup {f}]]
    /\ UNCHANGED <<dir, watching, queue, main, loop, timer, cancelled, records, changes, begun,
                   installed, lost>>

(* Records.ReplaceAll, and the load is over. *)
ReplaceAll(g) ==
    /\ load[g] # Idle /\ load[g].at = "read" /\ load[g].todo = {}
    /\ records' = {Lower[h] : h \in load[g].hosts}
    /\ installed' = [n |-> load[g].n, failed |-> load[g].failed]
    /\ load' = [load EXCEPT ![g] = Idle]
    /\ UNCHANGED <<dir, watching, queue, main, loop, timer, cancelled, changes, faults, begun, lost>>
----------------------------------------------------------------------------
(* Stop, called by OnShutdown: it stops the timer, unless that has fired,  *)
(* ...                                                                     *)
StopTimer ==
    /\ main = "running"
    /\ main' = "cancel" /\ timer' = "none"
    /\ UNCHANGED <<dir, watching, queue, loop, load, cancelled, records, changes, faults, begun,
                   installed, lost>>

(* ... cancels the context, ... *)
Cancel ==
    /\ main = "cancel"
    /\ main' = "close" /\ cancelled' = TRUE
    /\ UNCHANGED <<dir, watching, queue, loop, timer, load, records, changes, faults, begun,
                   installed, lost>>

(* ... closes the watcher, with the events it holds, ... *)
Close ==
    /\ main = "close"
    /\ main' = "wait" /\ watching' = FALSE /\ queue' = << >>
    /\ UNCHANGED <<dir, loop, timer, load, cancelled, records, changes, faults, begun, installed,
                   lost>>

(* ... and waits for watchLoop, but not for loads. *)
StopReturn ==
    /\ main = "wait" /\ loop = "done"
    /\ main' = "stopped"
    /\ UNCHANGED <<dir, watching, queue, loop, timer, load, cancelled, records, changes, faults,
                   begun, installed, lost>>

Loading(g) == ReadDir(g) \/ ReadDirFail(g) \/ ParseFile(g) \/ ParseFileFail(g) \/ ReplaceAll(g)
Stop == StopTimer \/ Cancel \/ Close \/ StopReturn

Next ==
    \/ \E f \in Files, d \in Docs \cup {NoFile} : Change(f, d)
    \/ Start \/ StartLoop \/ HandleEvent \/ LoopExit
    \/ \E g \in Timers : TimerFires(g)
    \/ \E g \in Goroutines : Loading(g)
    \/ Stop

Spec == Init /\ [][Next]_vars

(* Goroutines that can run do, a timer fires, and a read returns.  Whether *)
(* the directory changes, a read fails or Stop is called is left open.     *)
Fairness ==
    /\ WF_vars(StartLoop) /\ WF_vars(HandleEvent) /\ WF_vars(LoopExit)
    /\ WF_vars(\E g \in Timers : TimerFires(g))
    /\ \A g \in Goroutines : WF_vars(Loading(g))
    /\ WF_vars(Cancel) /\ WF_vars(Close) /\ WF_vars(StopReturn)

FairSpec == Spec /\ Fairness
----------------------------------------------------------------------------
(* Every variable holds values of its type. *)
TypeOK ==
    /\ dir \in [Files -> Docs \cup {NoFile}]
    /\ watching \in BOOLEAN /\ queue \in Seq(Files)
    /\ main \in {"new", "loading", "running", "cancel", "close", "wait", "stopped"}
    /\ loop \in {"none", "running", "done"}
    /\ timer \in {"none", "armed", "fired"}
    /\ load \in [Goroutines -> LoadStates \cup {Idle}]
    /\ cancelled \in BOOLEAN /\ records \subseteq Hosts
    /\ changes \in Nat /\ faults \in Nat /\ begun \in Nat
    /\ installed \in [n : Nat, failed : SUBSET Relevant]
    /\ lost \in BOOLEAN

NoLoads == timer # "armed" /\ \A g \in Goroutines : load[g] = Idle

(* The watcher is running and has nothing left to do. *)
Quiet ==
    /\ main = "running" /\ NoLoads
    /\ \A i \in 1..Len(queue) : queue[i] \notin Relevant

(* The records come from the load that began last, and no event was lost. *)
LatestInstalled == ~lost /\ installed.n = begun

(* What the directory now stands for, but for the files that the load the  *)
(* records come from could not read.                                       *)
Current == HostsOf(Relevant \ installed.failed)

(* Files that change during the first load, between two reads of a load,   *)
(* or while a timer is firing are not forgotten, and a file that cannot be *)
(* read costs its own hostnames and no other file's: once the watcher has  *)
(* nothing left to do, the records are exactly those of the directory but  *)
(* for such files, provided that loads that overlapped were installed in   *)
(* the order they began.                                                   *)
QuietIsCurrent == (Quiet /\ LatestInstalled) => records = Current

(* The same in the long run, without waiting for a quiet moment: a watcher *)
(* that keeps running brings the records up to date.                       *)
CatchesUp == <>[](main = "running" /\ LatestInstalled) => <>[](records = Current)

(* "Stop halts the file watcher" (file_watcher.go:83): Stop returns, and   *)
(* although it does not wait for a load, and an event handled during Stop  *)
(* arms the timer again, the loads come to an end.                         *)
StopHalts == main = "cancel" ~> [](main = "stopped" /\ NoLoads)

============================================================================
