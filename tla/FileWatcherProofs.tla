------------------------- MODULE FileWatcherProofs -------------------------
(***************************************************************************)
(* For any directory, any contents and any number of overlapping loads:    *)
(* type correctness, and that a watcher with nothing left to do has        *)
(* brought the records up to date.                                         *)
(***************************************************************************)
EXTENDS FileWatcher, TLAPS

Reading(g) == load[g] # Idle /\ load[g].at = "read"
Called(g) == load[g] # Idle /\ load[g].at = "dir"

(* What will make the directory be loaded again: an event, a timer, a load *)
(* that has not begun to read.                                             *)
Trigger ==
    \/ lost \/ timer = "armed"
    \/ \E i \in 1..Len(queue) : queue[i] \in Relevant
    \/ \E g \in Goroutines : Called(g)

Live == main \in {"loading", "running"}

(* What a load has found so far is what the files it is done with stand    *)
(* for now, but for those it could not read.                               *)
Found(g) ==
    /\ load[g].todo \cap load[g].failed = {}
    /\ load[g].hosts = HostsOf(Relevant \ (load[g].todo \cup load[g].failed))

(* Loads are numbered in the order in which they begin. *)
Numbered ==
    /\ installed.n <= begun
    /\ \A g \in Goroutines : Reading(g) =>
          /\ load[g].n <= begun /\ load[g].n # installed.n
          /\ \A h \in Goroutines : (Reading(h) /\ load[h].n = load[g].n) => h = g

(* Unless there will be another load, the one that began last knows of     *)
(* every change.                                                           *)
Informed ==
    (Live /\ ~Trigger) =>
       /\ begun > 0
       /\ installed.n = begun => records = Current
       /\ \A g \in Goroutines : (Reading(g) /\ load[g].n = begun) => Found(g)

IInv == TypeOK /\ (Live => watching) /\ Numbered /\ Informed
----------------------------------------------------------------------------
(* A file contributes lowercase hostnames only, which ReplaceAll leaves as *)
(* they are.                                                               *)
LEMMA HostsType ==
    ASSUME NEW d \in Docs \cup {NoFile}
    PROVE  HostsIn(d) \subseteq Hosts
BY FileWatcherAssumption DEF HostsIn, Hosts

LEMMA LowerHosts ==
    ASSUME NEW S \in SUBSET Hosts
    PROVE  {Lower[h] : h \in S} = S
<1>1. ASSUME NEW h \in S PROVE Lower[h] = h
  <2>1. PICK m \in Names : h = Lower[m]
    BY DEF Hosts
  <2> QED BY <2>1, FileWatcherAssumption
<1> QED BY <1>1

(* The fields of a load. *)
LEMMA LoadFields ==
    ASSUME TypeOK, NEW g \in Goroutines, load[g] # Idle
    PROVE  /\ load[g] \in LoadStates
           /\ load[g].at \in {"dir", "read"} /\ load[g].n \in Nat
           /\ load[g].todo \subseteq Relevant /\ load[g].hosts \subseteq Hosts
           /\ load[g].failed \subseteq Relevant
<1>1. load[g] \in LoadStates
  BY DEF TypeOK
<1> QED BY <1>1 DEF LoadStates

(* The step of one goroutine leaves the loads of the others alone. *)
LEMMA LoadStep ==
    ASSUME TypeOK, NEW g \in Goroutines, NEW l \in LoadStates \cup {Idle},
           load' = [load EXCEPT ![g] = l]
    PROVE  /\ load' \in [Goroutines -> LoadStates \cup {Idle}]
           /\ load'[g] = l
           /\ \A h \in Goroutines : h # g => load'[h] = load[h]
BY DEF TypeOK

(* What each step of a load makes of it. *)
LEMMA NewLoadType == NewLoad \in LoadStates /\ NewLoad # Idle /\ NewLoad.at = "dir"
<1>1. NewLoad \in LoadStates /\ NewLoad.at = "dir"
  BY DEF NewLoad, LoadStates
<1> QED BY <1>1, FileWatcherAssumption

LEMMA ReadDirType ==
    ASSUME TypeOK,
           NEW l, l = [at |-> "read", n |-> begun + 1, todo |-> {f \in Relevant : dir[f] # NoFile},
                       hosts |-> {}, failed |-> {}]
    PROVE  l \in LoadStates /\ l # Idle
<1>1. l \in LoadStates
  BY DEF TypeOK, LoadStates
<1> QED BY ZenonT(90), <1>1, FileWatcherAssumption

(* A file has been parsed, or could not be. *)
Parse(l, k, f) ==
    /\ l \in LoadStates /\ l # Idle
    /\ l.at = "read" /\ l.n = k.n /\ l.todo = k.todo \ {f}
    /\ \/ l.hosts = k.hosts \cup HostsIn(dir[f]) /\ l.failed = k.failed
       \/ l.hosts = k.hosts /\ l.failed = k.failed \cup {f}

LEMMA ParseType ==
    ASSUME TypeOK, NEW g \in Goroutines, Reading(g), NEW f \in load[g].todo, NEW l,
           \/ l = [load[g] EXCEPT !.todo = load[g].todo \ {f},
                                  !.hosts = load[g].hosts \cup HostsIn(dir[f])]
           \/ l = [load[g] EXCEPT !.todo = load[g].todo \ {f}, !.failed = load[g].failed \cup {f}]
    PROVE  Parse(l, load[g], f)
<1>1. load[g] \in LoadStates /\ load[g].at = "read" /\ f \in Relevant
  BY LoadFields DEF Reading
<1>2. HostsIn(dir[f]) \subseteq Hosts
  <2>1. dir[f] \in Docs \cup {NoFile}
    BY <1>1, FileWatcherAssumption DEF TypeOK
  <2> QED BY <2>1, HostsType
<1> DEFINE H == HostsIn(dir[f])
<1> HIDE DEF H
<1>3. /\ l \in LoadStates
      /\ l.at = "read" /\ l.n = load[g].n /\ l.todo = load[g].todo \ {f}
      /\ \/ l.hosts = load[g].hosts \cup H /\ l.failed = load[g].failed
         \/ l.hosts = load[g].hosts /\ l.failed = load[g].failed \cup {f}
  <2>1. CASE l = [load[g] EXCEPT !.todo = load[g].todo \ {f}, !.hosts = load[g].hosts \cup H]
    <3>1. H \subseteq Hosts
      BY <1>2 DEF H
    <3>2. /\ load[g].hosts \cup H \in SUBSET Hosts
          /\ load[g].todo \ {f} \in SUBSET Relevant
      BY <1>1, <3>1 DEF LoadStates
    <3> QED BY <1>1, <2>1, <3>2, ZenonT(90) DEF LoadStates
  <2>2. CASE l = [load[g] EXCEPT !.todo = load[g].todo \ {f}, !.failed = load[g].failed \cup {f}]
    <3>1. /\ load[g].failed \cup {f} \in SUBSET Relevant
          /\ load[g].todo \ {f} \in SUBSET Relevant
      BY <1>1 DEF LoadStates
    <3> QED BY <1>1, <2>2, <3>1, ZenonT(90) DEF LoadStates
  <2> QED BY <2>1, <2>2, ZenonT(90) DEF H
<1> QED BY <1>3, FileWatcherAssumption DEF H, Parse

LEMMA TypeInit == Init => TypeOK
<1> SUFFICES ASSUME Init PROVE TypeOK
  OBVIOUS
<1>1. dir \in [Files -> Docs \cup {NoFile}]
  BY FileWatcherAssumption DEF Init
<1>2. watching \in BOOLEAN /\ cancelled \in BOOLEAN /\ lost \in BOOLEAN
  BY Zenon DEF Init
<1>3. queue \in Seq(Files) /\ load \in [Goroutines -> LoadStates \cup {Idle}]
  BY DEF Init
<1>4. installed \in [n : Nat, failed : SUBSET Relevant]
  BY DEF Init
<1> QED BY <1>1, <1>2, <1>3, <1>4 DEF Init, TypeOK

LEMMA TypeStep ==
    ASSUME TypeOK, [Next]_vars
    PROVE  TypeOK'
<1>1. CASE UNCHANGED vars
  BY <1>1 DEF TypeOK, vars
<1>2. ASSUME NEW f \in Files, NEW d \in Docs \cup {NoFile}, Change(f, d)
      PROVE  TypeOK'
  <2>1. dir' \in [Files -> Docs \cup {NoFile}] /\ changes' \in Nat
    BY <1>2 DEF TypeOK, Change
  <2>2. queue' \in Seq(Files)
    <3>1. queue' = queue \/ queue' = Append(queue, f)
      BY <1>2, Zenon DEF Change, Report
    <3> QED BY SMTT(90), <3>1 DEF TypeOK
  <2>3. lost' \in BOOLEAN
    BY <1>2, Zenon DEF TypeOK, Change, Report
  <2> QED BY <1>2, <2>1, <2>2, <2>3 DEF TypeOK, Change
<1>3. CASE Start
  BY <1>3, NewLoadType, LoadStep DEF TypeOK, Start, Goroutines
<1>4. CASE StartLoop
  BY <1>4 DEF TypeOK, StartLoop
<1>5. CASE HandleEvent
  BY <1>5 DEF TypeOK, HandleEvent
<1>6. CASE LoopExit
  BY <1>6 DEF TypeOK, LoopExit
<1>7. ASSUME NEW g \in Timers, TimerFires(g)
      PROVE  TypeOK'
  BY <1>7, NewLoadType, LoadStep DEF TypeOK, TimerFires, Goroutines
<1>8. ASSUME NEW g \in Goroutines, ReadDir(g)
      PROVE  TypeOK'
  <2>1. load' \in [Goroutines -> LoadStates \cup {Idle}]
    BY <1>8, ReadDirType, LoadStep DEF ReadDir
  <2> QED BY <1>8, <2>1 DEF TypeOK, ReadDir
<1>9. ASSUME NEW g \in Goroutines, ReadDirFail(g)
      PROVE  TypeOK'
  BY <1>9, LoadStep DEF TypeOK, ReadDirFail
<1>10. ASSUME NEW g \in Goroutines, ParseFile(g)
       PROVE  TypeOK'
  <2>1. load' \in [Goroutines -> LoadStates \cup {Idle}]
    <3>1. PICK f \in load[g].todo :
            load' = [load EXCEPT ![g] = [load[g] EXCEPT !.todo = load[g].todo \ {f},
                                                        !.hosts = load[g].hosts \cup HostsIn(dir[f])]]
      BY Zenon, <1>10 DEF ParseFile
    <3> DEFINE l == [load[g] EXCEPT !.todo = load[g].todo \ {f},
                                    !.hosts = load[g].hosts \cup HostsIn(dir[f])]
    <3>2. l \in LoadStates
      BY Zenon, <1>10, ParseType DEF ParseFile, Reading, Parse
    <3> HIDE DEF l
    <3>3. load' = [load EXCEPT ![g] = l]
      BY <3>1 DEF l
    <3> QED BY ZenonT(30), <3>2, <3>3, LoadStep
  <2> QED BY SMTT(90), <1>10, <2>1 DEF TypeOK, ParseFile
<1>11. ASSUME NEW g \in Goroutines, ParseFileFail(g)
       PROVE  TypeOK'
  <2>1. load' \in [Goroutines -> LoadStates \cup {Idle}]
    <3>1. PICK f \in load[g].todo :
            load' = [load EXCEPT ![g] = [load[g] EXCEPT !.todo = load[g].todo \ {f},
                                                        !.failed = load[g].failed \cup {f}]]
      BY Zenon, <1>11 DEF ParseFileFail
    <3> DEFINE l == [load[g] EXCEPT !.todo = load[g].todo \ {f},
                                    !.failed = load[g].failed \cup {f}]
    <3>2. l \in LoadStates
      BY Zenon, <1>11, ParseType DEF ParseFileFail, Reading, Parse
    <3> HIDE DEF l
    <3>3. load' = [load EXCEPT ![g] = l]
      BY <3>1 DEF l
    <3> QED BY ZenonT(30), <3>2, <3>3, LoadStep
  <2> QED BY <1>11, <2>1 DEF TypeOK, ParseFileFail
<1>12. ASSUME NEW g \in Goroutines, ReplaceAll(g)
       PROVE  TypeOK'
  <2>1. load' \in [Goroutines -> LoadStates \cup {Idle}]
    BY ZenonT(90), <1>12, LoadStep DEF ReplaceAll
  <2>2. records' \subseteq Hosts /\ installed' \in [n : Nat, failed : SUBSET Relevant]
    BY <1>12, LoadFields, LowerHosts DEF ReplaceAll
  <2> QED BY <1>12, <2>1, <2>2 DEF TypeOK, ReplaceAll
<1>13. CASE Stop
  <2>1. watching' \in BOOLEAN /\ cancelled' \in BOOLEAN
    BY <1>13, Zenon DEF TypeOK, Stop, StopTimer, Cancel, Close, StopReturn
  <2>2. CASE Close
    <3>1. queue' \in Seq(Files)
      BY <2>2 DEF Close
    <3> QED BY <2>1, <2>2, <3>1 DEF TypeOK, Close
  <2>3. CASE StopTimer \/ Cancel \/ StopReturn
    BY <2>1, <2>3 DEF TypeOK, StopTimer, Cancel, StopReturn
  <2> QED BY <1>13, <2>2, <2>3 DEF Stop
<1> QED BY <1>1, <1>2, <1>3, <1>4, <1>5, <1>6, <1>7, <1>8, <1>9, <1>10, <1>11, <1>12, <1>13
        DEF Next, Loading

(* The watcher is type-correct whatever the directory, the events and the  *)
(* reads do.                                                               *)
THEOREM TypeCorrect == Spec => []TypeOK
BY TypeInit, TypeStep, PTL DEF Spec
----------------------------------------------------------------------------
(* The steps that touch neither the directory nor a load: the loop, and    *)
(* the goroutine of setup and OnShutdown.                                  *)
LEMMA OtherStep ==
    ASSUME IInv, UNCHANGED <<dir, load, begun, installed, records>>,
           Live' => Live /\ watching' /\ (Trigger => Trigger')
    PROVE  (Live => watching)' /\ Numbered' /\ Informed'
<1>1. Numbered'
  BY DEF IInv, Numbered, Reading
<1>2. Current' = Current /\ \A g \in Goroutines : Found(g)' = Found(g)
  BY DEF Current, Found, HostsOf
<1> HIDE DEF Current, Found
<1>3. Informed'
  BY <1>2 DEF IInv, Informed, Reading
<1> QED BY <1>1, <1>3

LEMMA HandleEventStep ==
    ASSUME IInv, HandleEvent
    PROVE  (Live => watching)' /\ Numbered' /\ Informed'
<1>1. queue # << >> /\ queue \in Seq(Files) /\ queue' = Tail(queue)
  BY DEF HandleEvent, IInv, TypeOK
<1>2. ASSUME NEW i \in 1..Len(queue), queue[i] \in Relevant
      PROVE  Trigger'
  <2>1. CASE i = 1
    BY <1>1, <1>2, <2>1 DEF HandleEvent, Trigger
  <2>2. CASE i # 1
    <3>1. i - 1 \in 1..Len(queue') /\ queue'[i - 1] = queue[i]
      BY <1>1, <2>2
    <3> QED BY <1>2, <3>1 DEF Trigger
  <2> QED BY <2>1, <2>2
<1>3. lost => Trigger'
  BY Zenon DEF HandleEvent, Trigger
<1>4. timer = "armed" => Trigger'
  BY Zenon DEF HandleEvent, Trigger
<1>5. (\E g \in Goroutines : Called(g)) => Trigger'
  BY Zenon DEF HandleEvent, Trigger, Called
<1>6. Trigger => Trigger'
  BY <1>2, <1>3, <1>4, <1>5, Zenon DEF Trigger
<1>7. Live' => Live /\ watching'
  BY Zenon DEF HandleEvent, Live
<1> QED BY <1>6, <1>7, OtherStep DEF HandleEvent

(* A change of a file that counts leaves something that will make it be    *)
(* loaded; the rest of the directory is not looked at.                     *)
LEMMA ChangeStep ==
    ASSUME IInv, NEW f \in Files, NEW d \in Docs \cup {NoFile}, Change(f, d)
    PROVE  (Live => watching)' /\ Numbered' /\ Informed'
<1>1. TypeOK /\ queue \in Seq(Files) /\ UNCHANGED <<load, begun, installed, records>>
      /\ (Live' <=> Live) /\ watching' = watching
  BY DEF IInv, TypeOK, Change, Live
<1>2. (Live => watching)'
  BY <1>1 DEF IInv
<1>3. Numbered'
  BY <1>1 DEF IInv, Numbered, Reading
<1>4. /\ (lost => lost') /\ timer' = timer
      /\ queue' = queue \/ queue' = Append(queue, f)
  BY Zenon DEF Change, Report
<1>5. \A i \in 1..Len(queue) : i \in 1..Len(queue') /\ queue'[i] = queue[i]
  BY <1>1, <1>4
<1>6. ASSUME Trigger PROVE Trigger'
  <2>1. CASE lost \/ timer = "armed"
    BY <2>1, <1>4, Zenon DEF Trigger
  <2>2. CASE \E i \in 1..Len(queue) : queue[i] \in Relevant
    BY <2>2, <1>5, Zenon DEF Trigger
  <2>3. CASE \E g \in Goroutines : Called(g)
    BY <2>3, <1>1, Zenon DEF Trigger, Called
  <2> QED BY <1>6, <2>1, <2>2, <2>3, Zenon DEF Trigger
<1>7. CASE f \in Relevant
  <2>1. ASSUME Live PROVE Trigger'
    <3>1. watching
      BY <2>1 DEF IInv
    <3>2. CASE queue' = Append(queue, f)
      <4>1. Len(queue) + 1 \in 1..Len(queue') /\ queue'[Len(queue) + 1] = f
        BY <3>2, <1>1
      <4> QED BY <4>1, <1>7, Zenon DEF Trigger
    <3>3. CASE \E i \in 1..Len(queue) : queue[i] \in Relevant
      BY <3>3, <1>6 DEF Trigger
    <3>4. CASE lost'
      BY <3>4, Zenon DEF Trigger
    <3> QED BY <1>7, <3>1, <3>2, <3>3, <3>4, Zenon DEF Change, Report
  <2> QED BY <1>1, <1>2, <1>3, <2>1, Zenon DEF Informed
<1>8. CASE f \notin Relevant
  <2>1. \A e \in Relevant : dir'[e] = dir[e]
    BY <1>1, <1>8, FileWatcherAssumption DEF TypeOK, Change
  <2>2. Current' = Current
    BY <1>1, <2>1 DEF Current, HostsOf
  <2>3. ASSUME NEW g \in Goroutines PROVE Found(g)' = Found(g)
    BY <1>1, <2>1 DEF Found, HostsOf
  <2> HIDE DEF Current, Found
  <2>4. Informed'
    BY <1>1, <1>6, <2>2, <2>3 DEF IInv, Informed, Reading
  <2> QED BY <1>2, <1>3, <2>4
<1> QED BY <1>7, <1>8

(* A load is called: by Start, or by a timer. *)
LEMMA CallStep ==
    ASSUME IInv, NEW g \in Goroutines, load' = [load EXCEPT ![g] = NewLoad],
           UNCHANGED <<begun, installed>>, Live' => watching'
    PROVE  (Live => watching)' /\ Numbered' /\ Informed'
<1>1. load'[g] = NewLoad /\ \A h \in Goroutines : h # g => load'[h] = load[h]
  BY ZenonT(90), NewLoadType, LoadStep DEF IInv
<1>2. Called(g)'
  BY <1>1, NewLoadType DEF Called
<1>3. Informed'
  BY <1>2, Zenon DEF Informed, Trigger
<1>4. ~Reading(g)' /\ \A h \in Goroutines : h # g => (Reading(h)' <=> Reading(h))
  BY <1>1, NewLoadType DEF Reading
<1>5. Numbered'
  BY <1>1, <1>4 DEF IInv, Numbered
<1> QED BY <1>3, <1>5

(* The load that begins now is the latest, and will find what there is. *)
LEMMA ReadDirStep ==
    ASSUME IInv, NEW g \in Goroutines, ReadDir(g)
    PROVE  (Live => watching)' /\ Numbered' /\ Informed'
<1> DEFINE l == [at |-> "read", n |-> begun + 1, todo |-> {f \in Relevant : dir[f] # NoFile},
                 hosts |-> {}, failed |-> {}]
<1>1. /\ TypeOK /\ Numbered /\ begun \in Nat /\ installed.n \in Nat
      /\ begun' = begun + 1 /\ UNCHANGED <<dir, installed, main, watching>>
  BY DEF IInv, TypeOK, ReadDir
<1>2. load'[g] = l /\ l # Idle /\ \A h \in Goroutines : h # g => load'[h] = load[h]
  <2>1. l \in LoadStates /\ l # Idle
    BY <1>1, ReadDirType
  <2>2. load' = [load EXCEPT ![g] = l]
    BY DEF ReadDir
  <2> HIDE DEF l
  <2> QED BY ZenonT(90), <1>1, <2>1, <2>2, LoadStep
<1>3. ASSUME NEW h \in Goroutines, h # g, Reading(h)' 
      PROVE  Reading(h) /\ load'[h].n = load[h].n /\ load[h].n \in Nat /\ load[h].n <= begun
             /\ load[h].n # installed.n
  BY <1>1, <1>2, <1>3, LoadFields DEF Reading, Numbered
<1>4. load'[g].n = begun + 1
  BY <1>2
<1>5. Numbered'
  <2> HIDE DEF l
  <2>1. installed'.n <= begun'
    BY <1>1 DEF Numbered
  <2>2. ASSUME NEW h \in Goroutines, Reading(h)'
        PROVE  load'[h].n <= begun' /\ load'[h].n # installed'.n
    BY <1>1, <1>3, <1>4, <2>2 DEF Numbered
  <2>3. ASSUME NEW h \in Goroutines, NEW k \in Goroutines, Reading(h)', Reading(k)',
               load'[h].n = load'[k].n
        PROVE  h = k
    BY <1>1, <1>3, <1>4, <2>3 DEF Numbered
  <2> QED BY <2>1, <2>2, <2>3 DEF Numbered
<1>6. Found(g)'
  <2>1. HostsIn(NoFile) = {}
    BY DEF HostsIn
  <2>2. HostsOf(Relevant \ {f \in Relevant : dir[f] # NoFile}) = {}
    BY <2>1 DEF HostsOf
  <2>3. /\ load'[g].todo = {f \in Relevant : dir[f] # NoFile}
        /\ load'[g].hosts = {} /\ load'[g].failed = {}
    BY <1>2
  <2> QED BY <1>1, <2>2, <2>3 DEF Found, HostsOf
<1>7. Informed'
  <2> HIDE DEF l, Found, Current
  <2>1. begun' > 0 /\ installed'.n # begun'
    BY <1>1 DEF Numbered
  <2>2. ASSUME NEW h \in Goroutines, Reading(h)', load'[h].n = begun'
        PROVE  h = g
    BY <1>1, <1>3, <2>2
  <2> QED BY <1>6, <2>1, <2>2 DEF Informed
<1>8. (Live => watching)'
  BY <1>1 DEF IInv, Live
<1> QED BY <1>5, <1>7, <1>8

LEMMA ReadDirFailStep ==
    ASSUME IInv, NEW g \in Goroutines, ReadDirFail(g)
    PROVE  (Live => watching)' /\ Numbered' /\ Informed'
<1>1. /\ TypeOK /\ Numbered /\ begun \in Nat /\ installed.n \in Nat
      /\ begun' = begun + 1 /\ UNCHANGED <<dir, installed, main, watching>>
  BY DEF IInv, TypeOK, ReadDirFail
<1>2. load'[g] = Idle /\ \A h \in Goroutines : h # g => load'[h] = load[h]
  BY ZenonT(90), LoadStep DEF IInv, ReadDirFail
<1>3. ASSUME NEW h \in Goroutines, Reading(h)'
      PROVE  Reading(h) /\ load'[h].n = load[h].n /\ load[h].n \in Nat /\ load[h].n <= begun
             /\ load[h].n # installed.n
  BY <1>1, <1>2, <1>3, LoadFields DEF Reading, Numbered
<1>4. Numbered'
  BY <1>1, <1>3 DEF Numbered
<1>5. begun' > 0 /\ installed'.n # begun' /\ \A h \in Goroutines : Reading(h)' => load'[h].n # begun'
  BY <1>1, <1>3 DEF Numbered
<1>6. Informed'
  BY <1>5, Zenon DEF Informed
<1>7. (Live => watching)'
  BY <1>1 DEF IInv, Live
<1> QED BY <1>4, <1>6, <1>7

(* What a load has read of a file stays true, or another load follows. *)
LEMMA ParseStep ==
    ASSUME IInv, NEW g \in Goroutines, Reading(g), NEW f \in load[g].todo, NEW l,
           load' = [load EXCEPT ![g] = l], Parse(l, load[g], f),
           UNCHANGED <<dir, watching, queue, main, timer, records, begun, installed, lost>>
    PROVE  (Live => watching)' /\ Numbered' /\ Informed'
<1>1. TypeOK /\ Numbered
  BY DEF IInv
<1>2. load'[g] = l /\ \A h \in Goroutines : h # g => load'[h] = load[h]
  BY ZenonT(90), <1>1, LoadStep DEF Parse
<1>3. /\ \A h \in Goroutines : Reading(h)' <=> Reading(h)
      /\ \A h \in Goroutines : Called(h)' <=> Called(h)
      /\ \A h \in Goroutines : Reading(h) => load'[h].n = load[h].n
  BY <1>2 DEF Reading, Called, Parse
<1>4. Numbered'
  BY <1>1, <1>3 DEF Numbered
<1>5. (Live' <=> Live) /\ (Trigger' <=> Trigger)
  BY <1>3, Zenon DEF Live, Trigger
<1>6. Current' = Current
  BY DEF Current, HostsOf
<1>7. ASSUME NEW h \in Goroutines, Reading(h), Found(h)
      PROVE  Found(h)'
  <2>1. CASE h # g
    BY <1>2, <1>7, <2>1 DEF Found, HostsOf
  <2>2. CASE h = g
    <3>1. f \in Relevant /\ f \notin load[g].failed
      BY <1>1, <1>7, <2>2, LoadFields DEF Found, Reading
    <3>2. Found(g)' <=> /\ l.todo \cap l.failed = {}
                        /\ l.hosts = HostsOf(Relevant \ (l.todo \cup l.failed))
      BY <1>2 DEF Found, HostsOf
    <3>3. CASE l.hosts = load[g].hosts \cup HostsIn(dir[f]) /\ l.failed = load[g].failed
      <4> DEFINE Done == Relevant \ (load[g].todo \cup load[g].failed)
      <4>1. HostsOf(Done \cup {f}) = HostsOf(Done) \cup HostsIn(dir[f])
        BY DEF HostsOf
      <4>2. Relevant \ (l.todo \cup l.failed) = Done \cup {f} /\ l.todo \cap l.failed = {}
        BY <1>7, <2>2, <3>1, <3>3 DEF Parse, Found
      <4>3. load[g].hosts = HostsOf(Done)
        BY <1>7, <2>2 DEF Found
      <4> HIDE DEF Done
      <4> QED BY <2>2, <3>2, <3>3, <4>1, <4>2, <4>3
    <3>4. CASE l.hosts = load[g].hosts /\ l.failed = load[g].failed \cup {f}
      <4>1. l.todo \cup l.failed = load[g].todo \cup load[g].failed /\ l.todo \cap l.failed = {}
        BY <1>7, <2>2, <3>4 DEF Parse, Found
      <4> QED BY <1>7, <2>2, <3>2, <3>4, <4>1 DEF Found
    <3> QED BY <3>3, <3>4 DEF Parse
  <2> QED BY <2>1, <2>2
<1> HIDE DEF Current, Found
<1>8. Informed'
  BY <1>3, <1>5, <1>6, <1>7, Zenon DEF IInv, Informed
<1>9. (Live => watching)'
  BY <1>5, Zenon DEF IInv
<1> QED BY <1>4, <1>8, <1>9

LEMMA ReplaceAllStep ==
    ASSUME IInv, NEW g \in Goroutines, ReplaceAll(g)
    PROVE  (Live => watching)' /\ Numbered' /\ Informed'
<1>1. TypeOK /\ Numbered /\ Reading(g) /\ load[g].todo = {}
  BY DEF IInv, ReplaceAll, Reading
<1>2. load'[g] = Idle /\ \A h \in Goroutines : h # g => load'[h] = load[h]
  BY ZenonT(90), <1>1, LoadStep DEF ReplaceAll
<1>3. records' = load[g].hosts /\ installed'.n = load[g].n /\ installed'.failed = load[g].failed
  BY <1>1, LoadFields, LowerHosts DEF ReplaceAll, Reading
<1>4. \A h \in Goroutines : Reading(h)' => h # g /\ Reading(h) /\ load'[h] = load[h]
  BY <1>2 DEF Reading
<1>5. \A h \in Goroutines : Called(h) => h # g /\ Called(h)'
  BY <1>1, <1>2 DEF Reading, Called
<1>6. Numbered'
  BY <1>1, <1>3, <1>4, LoadFields DEF Numbered, Reading, ReplaceAll
<1>7. (Live' <=> Live) /\ (Trigger => Trigger') /\ begun' = begun
  <2>1. Trigger => Trigger'
    BY <1>5, Zenon DEF ReplaceAll, Trigger
  <2> QED BY <2>1 DEF ReplaceAll, Live
<1>8. Found(g) => records' = Current'
  <2>1. Found(g) => load[g].hosts = HostsOf(Relevant \ load[g].failed)
    BY <1>1 DEF Found
  <2> QED BY <1>3, <2>1 DEF ReplaceAll, Current, HostsOf
<1>9. \A h \in Goroutines : Reading(h)' => (Found(h)' <=> Found(h))
  BY <1>4 DEF ReplaceAll, Found, HostsOf
<1> HIDE DEF Current, Found
<1>10. Informed'
  <2> SUFFICES ASSUME Live', ~Trigger'
               PROVE  /\ begun' > 0
                      /\ installed'.n = begun' => records' = Current'
                      /\ \A h \in Goroutines : (Reading(h)' /\ load'[h].n = begun') => Found(h)'
    BY DEF Informed
  <2>1. begun > 0 /\ \A h \in Goroutines : (Reading(h) /\ load[h].n = begun) => Found(h)
    BY <1>7, Zenon DEF IInv, Informed
  <2> QED BY <1>1, <1>3, <1>4, <1>7, <1>8, <1>9, <2>1
<1>11. (Live => watching)'
  BY <1>7 DEF IInv, ReplaceAll
<1> QED BY <1>6, <1>10, <1>11

LEMMA InvStep ==
    ASSUME IInv, [Next]_vars
    PROVE  IInv'
<1>1. TypeOK'
  BY TypeStep DEF IInv
<1> DEFINE Rest == (Live => watching) /\ Numbered /\ Informed
<1> SUFFICES Rest'
  BY <1>1 DEF IInv
<1>2. CASE UNCHANGED vars
  <2>1. Live' = Live /\ Trigger' = Trigger /\ watching' = watching
    BY <1>2 DEF vars, Live, Trigger, Called
  <2> QED BY <1>2, <2>1, OtherStep DEF vars, IInv
<1>3. ASSUME NEW f \in Files, NEW d \in Docs \cup {NoFile}, Change(f, d)
      PROVE  Rest'
  BY <1>3, ChangeStep
<1>4. CASE Start
  BY ZenonT(90), <1>4, CallStep DEF Start, Goroutines
<1>5. CASE StartLoop
  <2>1. (Live' <=> Live) /\ Live /\ (Trigger' <=> Trigger) /\ watching' = watching
    BY <1>5 DEF StartLoop, Live, Trigger, Called
  <2> QED BY <1>5, <2>1, OtherStep DEF StartLoop, IInv
<1>6. CASE HandleEvent
  BY <1>6, HandleEventStep
<1>7. CASE LoopExit
  <2>1. (Live' <=> Live) /\ (Trigger' <=> Trigger) /\ watching' = watching
    BY <1>7 DEF LoopExit, Live, Trigger, Called
  <2> QED BY <1>7, <2>1, OtherStep DEF LoopExit, IInv
<1>8. ASSUME NEW g \in Timers, TimerFires(g)
      PROVE  Rest'
  <2>1. (Live => watching)'
    BY <1>8 DEF TimerFires, IInv, Live
  <2> QED BY ZenonT(90), <1>8, <2>1, CallStep DEF TimerFires, Goroutines
<1>9. ASSUME NEW g \in Goroutines, ReadDir(g)
      PROVE  Rest'
  BY <1>9, ReadDirStep
<1>10. ASSUME NEW g \in Goroutines, ReadDirFail(g)
       PROVE  Rest'
  BY <1>10, ReadDirFailStep
<1>11. ASSUME NEW g \in Goroutines, ParseFile(g)
       PROVE  Rest'
  <2>1. Reading(g) /\ TypeOK
    BY <1>11 DEF ParseFile, Reading, IInv
  <2> QED BY ZenonT(90), <1>11, <2>1, ParseType, ParseStep DEF ParseFile
<1>12. ASSUME NEW g \in Goroutines, ParseFileFail(g)
       PROVE  Rest'
  <2>1. Reading(g) /\ TypeOK
    BY <1>12 DEF ParseFileFail, Reading, IInv
  <2> QED BY ZenonT(90), <1>12, <2>1, ParseType, ParseStep DEF ParseFileFail
<1>13. ASSUME NEW g \in Goroutines, ReplaceAll(g)
       PROVE  Rest'
  BY <1>13, ReplaceAllStep
<1>14. CASE Stop
  <2>1. ~Live'
    BY <1>14 DEF Stop, StopTimer, Cancel, Close, StopReturn, Live
  <2>2. UNCHANGED <<dir, load, begun, installed, records>>
    BY <1>14 DEF Stop, StopTimer, Cancel, Close, StopReturn
  <2> QED BY <2>1, <2>2, OtherStep
<1> HIDE DEF Rest
<1>15. Next \/ UNCHANGED vars
  OBVIOUS
<1> QED BY <1>2, <1>3, <1>4, <1>5, <1>6, <1>7, <1>8, <1>9, <1>10, <1>11, <1>12, <1>13, <1>14,
           <1>15, Zenon DEF Next, Loading

LEMMA InvInit == Init => IInv
<1> SUFFICES ASSUME Init PROVE IInv
  OBVIOUS
<1>1. TypeOK
  BY TypeInit
<1>2. ~Live /\ \A g \in Goroutines : ~Reading(g)
  BY DEF Init, Live, Reading
<1>3. installed.n <= begun
  BY DEF Init
<1> QED BY <1>1, <1>2, <1>3 DEF IInv, Numbered, Informed

(* Whatever changes while loads, timers and events overlap, a watcher with *)
(* nothing left to do whose latest load is the one installed serves the    *)
(* directory as it is, but for the files that this load could not read.    *)
THEOREM UpToDate == Spec => []QuietIsCurrent
<1>1. IInv => QuietIsCurrent
  <2> SUFFICES ASSUME IInv, Quiet, LatestInstalled PROVE records = Current
    BY DEF QuietIsCurrent
  <2>1. Live /\ ~Trigger
    BY Zenon DEF Quiet, NoLoads, LatestInstalled, Live, Trigger, Called
  <2> QED BY <2>1, Zenon DEF IInv, Informed, LatestInstalled
<1> QED BY <1>1, InvInit, InvStep, PTL DEF Spec
============================================================================
