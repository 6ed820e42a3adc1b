------------------------ MODULE DockerWatcherProofs ------------------------
(***************************************************************************)
(* For any number of containers, hostnames and spellings: what the watcher *)
(* tracks follows the daemon, its records are those of the containers it   *)
(* tracks, and its Docker clients are closed.                              *)
(***************************************************************************)
EXTENDS DockerWatcher, TLAPS, WellFoundedInduction

Events == [action : {"start", "stop", "die"}, id : Containers]

(* The client and the loop: not cancelled, a client is held only between   *)
(* connect and the end of the iteration, so connect overwrites none.       *)
ClientInv ==
    /\ NoClientLeak
    /\ client /\ stop = "no" => pc \in {"list", "apply", "subscribe", "events"}

(* What is served, name by name. *)
Served(k) == \E c \in Containers : k \in Keys(tracked[c])

RecordsInv ==
    /\ told = records
    /\ \A k \in records : Served(k)
    /\ \A c \in Containers : \A k \in Sole(c) : k \in Keys(tracked[c]) => k \in records

----------------------------------------------------------------------------
LEMMA TypeInit == Init => TypeOK
<1> SUFFICES ASSUME Init PROVE TypeOK
  BY Zenon
<1>1. stream \in Seq(Events) /\ backoff \in 1..MaxBackoff /\ open \in Nat
  BY WatcherAssumption DEF Init
<1>2. changes \in 0..MaxChanges /\ badInspects \in 0..MaxBadInspects
  BY WatcherAssumption DEF Init
<1> QED BY Zenon, <1>1, <1>2 DEF Init, TypeOK, Events

(* The hostnames of a container are names, tracked or not, and in lower    *)
(* case they are keys.                                                     *)
LEMMA NamesOf ==
    ASSUME TypeOK, NEW c \in Containers
    PROVE  /\ Hostnames[c] \subseteq Names /\ tracked[c] \subseteq Hostnames[c]
           /\ Keys(Hostnames[c]) \subseteq Keys(Names)
BY Zenon, WatcherAssumption DEF TypeOK, Keys

LEMMA AddedKeys ==
    ASSUME NEW S
    PROVE  \A k : k \in Keys(AddedNames(S)) <=> \E c \in S : k \in Keys(Hostnames[c] \ tracked[c])
BY Zenon DEF Keys, AddedNames

LEMMA SoleKeys ==
    ASSUME TypeOK, NEW c \in Containers, NEW k \in Sole(c), NEW d \in Containers, d # c
    PROVE  k \notin Keys(Hostnames[d]) /\ k \notin Keys(tracked[d])
<1>1. k \notin Keys(Hostnames[d])
  BY Zenon DEF Sole
<1> QED BY Zenon, <1>1, NamesOf DEF Keys

LEMMA HeadType ==
    ASSUME TypeOK, stream # << >>
    PROVE  /\ Head(stream) \in Events /\ Tail(stream) \in Seq(Events)
           /\ Head(stream).id \in Containers /\ Head(stream).action \in {"start", "stop", "die"}
<1>1. stream \in Seq(Events)
  BY Zenon DEF TypeOK, Events
<1>2. Head(stream) \in Events /\ Tail(stream) \in Seq(Events)
  BY <1>1
<1> QED BY Zenon, <1>2 DEF Events

LEMMA AddedType ==
    ASSUME TypeOK, NEW S \in SUBSET Containers
    PROVE  Keys(AddedNames(S)) \subseteq Keys(Names)
<1>1. AddedNames(S) \subseteq Names
  BY Zenon, NamesOf DEF AddedNames
<1> QED BY Zenon, <1>1 DEF Keys

LEMMA SyncType ==
    ASSUME TypeOK, SyncList
    PROVE  /\ \A c \in Containers : tracked'[c] \in {{}, Hostnames[c]}
           /\ DOMAIN tracked' = Containers
           /\ records' \subseteq Keys(Names) /\ told' \subseteq Keys(Names)
<1>1. Keys(AddedNames(listed)) \subseteq Keys(Names)
  BY Zenon, AddedType DEF TypeOK
<1> QED BY Zenon, <1>1 DEF SyncList, TypeOK

LEMMA HandledType ==
    ASSUME TypeOK, NEW e \in Events, handleContainerStart(e) \/ handleContainerStop(e)
    PROVE  /\ \A c \in Containers : tracked'[c] \in {{}, Hostnames[c]}
           /\ DOMAIN tracked' = Containers
           /\ records' \subseteq Keys(Names) /\ told' \subseteq Keys(Names)
<1>1. e.id \in Containers
  BY Zenon DEF Events
<1>2. Keys(AddedNames({e.id})) \subseteq Keys(Names)
  BY Zenon, <1>1, AddedType
<1>3. CASE handleContainerStart(e)
  BY Zenon, <1>1, <1>2, <1>3 DEF handleContainerStart, TypeOK
<1>4. CASE handleContainerStop(e)
  BY Zenon, <1>1, <1>4 DEF handleContainerStop, TypeOK
<1> QED BY Zenon, <1>3, <1>4

LEMMA ChangeType ==
    ASSUME TypeOK, NEW c \in Containers, NEW evts \in Seq(Events), running' \subseteq Containers,
           Change(c, evts)
    PROVE  TypeOK'
<1>1. stream' \in Seq(Events) /\ missed' \subseteq Containers
  <2>1. stream \in Seq(Events)
    BY Zenon DEF TypeOK, Events
  <2>2. stream' \in Seq(Events)
    BY <2>1 DEF Change
  <2>3. missed' \subseteq Containers
    BY Zenon DEF Change, TypeOK
  <2> QED BY Zenon, <2>2, <2>3
<1>2. changes' \in 0..MaxChanges
  BY WatcherAssumption DEF Change, TypeOK
<1> QED BY Zenon, <1>1, <1>2 DEF Change, TypeOK, Events, handled

LEMMA CloseType ==
    ASSUME TypeOK, ClientInv, closeClient
    PROVE  ~client' /\ client' \in BOOLEAN /\ open' = 0
<1>1. ~client' /\ client' \in BOOLEAN
  BY Zenon DEF closeClient
<1>2. open' = 0
  BY DEF TypeOK, ClientInv, NoClientLeak, closeClient
<1> QED BY Zenon, <1>1, <1>2

LEMMA LoopType == ASSUME TypeOK, ClientInv, Loop PROVE TypeOK'
<1>1. CASE Exit
  BY Zenon, <1>1 DEF Exit, TypeOK, daemon, handled
<1>2. CASE Wake
  <2>1. backoff' \in 1..MaxBackoff
    BY <1>2, WatcherAssumption DEF Wake, TypeOK, nextBackoff
  <2> QED BY Zenon, <1>2, <2>1 DEF Wake, TypeOK, daemon, handled
<1>3. CASE Connect
  BY <1>3, WatcherAssumption DEF Connect, TypeOK, daemon, handled
<1>4. CASE ConnectFail
  BY Zenon, <1>4 DEF ConnectFail, Sleep, TypeOK, daemon, handled
<1>5. CASE List
  BY Zenon, <1>5 DEF List, TypeOK, daemon, handled
<1>6. CASE ListFail
  <2>1. client' \in BOOLEAN /\ open' \in Nat
    <3>1. client' \in BOOLEAN /\ open' = 0
      BY Zenon, <1>6, CloseType DEF ListFail
    <3> QED BY Zenon, <3>1
  <2> QED BY Zenon, <1>6, <2>1 DEF ListFail, Sleep, TypeOK, daemon, handled
<1>7. CASE ApplyList
  BY Zenon, <1>7, SyncType DEF ApplyList, TypeOK, daemon
<1>8. CASE Subscribe
  BY <1>8 DEF Subscribe, TypeOK, daemon, handled
<1>9. CASE HandleEvent
  <2>1. Head(stream) \in Events /\ stream' \in Seq(Events)
    BY Zenon, <1>9, HeadType DEF HandleEvent
  <2> QED BY Zenon, <1>9, <2>1, HandledType DEF HandleEvent, TypeOK, Events, daemon
<1>10. CASE InspectFail
  <2>1. Head(stream).id \in Containers /\ stream' \in Seq(Events)
    BY Zenon, <1>10, HeadType DEF InspectFail
  <2> QED BY <1>10, <2>1, WatcherAssumption DEF InspectFail, TypeOK, Events, daemon, handled
<1>11. CASE StreamError
  <2>1. client' \in BOOLEAN /\ open' \in Nat
    <3>1. client' \in BOOLEAN /\ open' = 0
      BY Zenon, <1>11, CloseType DEF StreamError
    <3> QED BY Zenon, <3>1
  <2> QED BY <1>11, <2>1 DEF StreamError, Sleep, TypeOK, daemon, handled
<1>12. CASE ConsumeDone
  BY <1>12 DEF ConsumeDone, TypeOK, daemon, handled
<1> QED BY Zenon, <1>1, <1>2, <1>3, <1>4, <1>5, <1>6, <1>7, <1>8, <1>9, <1>10, <1>11, <1>12 DEF Loop

LEMMA TypeStep == TypeOK /\ ClientInv /\ [Next]_vars => TypeOK'
<1> SUFFICES ASSUME TypeOK, ClientInv, [Next]_vars PROVE TypeOK'
  BY Zenon
<1>1. CASE UNCHANGED vars
  BY Zenon, <1>1 DEF vars, TypeOK
<1>2. ASSUME NEW c \in Containers, DaemonStart(c) PROVE TypeOK'
  <2>1. <<Event("start", c)>> \in Seq(Events) /\ running' \subseteq Containers
    BY <1>2 DEF Event, Events, DaemonStart, TypeOK
  <2> QED BY Zenon, <1>2, <2>1, ChangeType DEF DaemonStart
<1>3. ASSUME NEW c \in Containers, DaemonExit(c) PROVE TypeOK'
  <2>1. /\ <<Event("die", c)>> \in Seq(Events)
        /\ <<Event("die", c), Event("stop", c)>> \in Seq(Events)
    BY DEF Event, Events
  <2>2. running' \subseteq Containers
    BY Zenon, <1>3 DEF DaemonExit, TypeOK
  <2> QED BY Zenon, <1>3, <2>1, <2>2, ChangeType DEF DaemonExit
<1>4. CASE StopCall
  BY Zenon, <1>4 DEF StopCall, TypeOK, daemon, handled
<1>5. CASE StopReturn
  <2>1. client' \in BOOLEAN /\ open' \in Nat
    <3>1. client' \in BOOLEAN /\ open' = 0
      BY Zenon, <1>5, CloseType DEF StopReturn
    <3> QED BY Zenon, <3>1
  <2> QED BY Zenon, <1>5, <2>1 DEF StopReturn, TypeOK, daemon, handled
<1>6. Next \/ UNCHANGED vars
  BY Zenon
<1> QED BY Zenon, <1>1, <1>2, <1>3, <1>4, <1>5, <1>6, LoopType DEF Next

----------------------------------------------------------------------------
LEMMA ClientStep == TypeOK /\ ClientInv /\ [Next]_vars => ClientInv'
<1> SUFFICES ASSUME TypeOK, ClientInv, [Next]_vars PROVE ClientInv'
  BY Zenon
<1> USE DEF ClientInv, NoClientLeak
<1>1. CASE UNCHANGED <<client, open, stop, pc>>
  BY Zenon, <1>1
<1>2. CASE Exit
  BY Zenon, <1>2 DEF Exit, Cancelled
<1>3. CASE Wake
  BY Zenon, <1>3 DEF Wake
<1>4. CASE Connect
  BY <1>4 DEF Connect, Cancelled
<1>5. CASE ConnectFail
  BY Zenon, <1>5 DEF ConnectFail, Cancelled, Sleep
<1>6. CASE List
  BY Zenon, <1>6 DEF List
<1>7. CASE ListFail
  BY Zenon, <1>7, CloseType DEF ListFail, Sleep
<1>8. CASE ApplyList
  BY Zenon, <1>8 DEF ApplyList
<1>9. CASE Subscribe
  BY Zenon, <1>9 DEF Subscribe
<1>10. CASE StreamError
  BY Zenon, <1>10, CloseType DEF StreamError, Sleep
<1>11. CASE ConsumeDone
  BY Zenon, <1>11 DEF ConsumeDone, Cancelled
<1>12. CASE StopCall
  BY Zenon, <1>12 DEF StopCall
<1>13. CASE StopReturn
  BY Zenon, <1>13, CloseType DEF StopReturn
<1>14. ASSUME \/ \E c \in Containers : DaemonStart(c) \/ DaemonExit(c)
              \/ HandleEvent \/ InspectFail \/ UNCHANGED vars
       PROVE  UNCHANGED <<client, open, stop, pc>>
  BY Zenon, <1>14 DEF DaemonStart, DaemonExit, Change, HandleEvent, InspectFail, vars
<1>15. Next \/ UNCHANGED vars
  BY Zenon
<1> HIDE DEF ClientInv, NoClientLeak
<1> QED BY Zenon, <1>1, <1>2, <1>3, <1>4, <1>5, <1>6, <1>7, <1>8, <1>9, <1>10, <1>11, <1>12, <1>13,
           <1>14, <1>15, Zenon DEF Next, Loop

----------------------------------------------------------------------------
(* A container that comes adds its keys, ... *)
LEMMA StartRecords ==
    ASSUME TypeOK, RecordsInv, NEW e \in Events, handleContainerStart(e)
    PROVE  RecordsInv'
<1> DEFINE c == e.id
<1>1. c \in Containers /\ tracked[c] \subseteq Hostnames[c]
  BY Zenon, NamesOf DEF Events
<1> DEFINE K == Keys(AddedNames({c}))
<1>2. told' = told \cup K /\ records' = records \cup K
  BY Zenon DEF handleContainerStart
<1>3. \A k : k \in K <=> k \in Keys(Hostnames[c] \ tracked[c])
  BY Zenon DEF Keys, AddedNames
<1>4. \A d \in Containers : tracked'[d] = IF d = c THEN Hostnames[c] ELSE tracked[d]
  BY Zenon, <1>1 DEF handleContainerStart, TypeOK
<1>5. \A k : k \in Keys(Hostnames[c]) <=> k \in Keys(tracked[c]) \/ k \in Keys(Hostnames[c] \ tracked[c])
  BY Zenon, <1>1 DEF Keys
<1>k. \A k, d : k \in Keys(tracked[d])' <=> k \in Keys(tracked'[d])
  BY Zenon DEF Keys
<1> HIDE DEF K, c
<1>6. told' = records'
  BY Zenon, <1>2 DEF RecordsInv
<1>7. ASSUME NEW k \in records' PROVE Served(k)'
  <2>1. Served(k) \/ k \in Keys(Hostnames[c])
    BY Zenon, <1>2, <1>3, <1>5 DEF RecordsInv
  <2>2. \E d \in Containers : k \in Keys(tracked'[d])
    BY Zenon, <1>1, <1>4, <1>5, <2>1 DEF Served
  <2> QED BY Zenon, <1>k, <2>2 DEF Served
<1>8. ASSUME NEW d \in Containers, NEW k \in Sole(d), k \in Keys(tracked'[d]) PROVE k \in records'
  BY Zenon, <1>2, <1>3, <1>4, <1>5, <1>8 DEF RecordsInv
<1> QED BY Zenon, <1>6, <1>7, <1>8, <1>k DEF RecordsInv, Sole

(* ... and one that goes takes away its own and no other's. *)
LEMMA StopRecords ==
    ASSUME TypeOK, RecordsInv, NEW e \in Events, handleContainerStop(e)
    PROVE  RecordsInv'
<1> DEFINE c == e.id
<1>1. c \in Containers
  BY Zenon DEF Events
<1>2. told' = told \ Keys(tracked[c]) /\ records' = records \ Keys(tracked[c])
  BY Zenon DEF handleContainerStop
<1>3. \A d \in Containers : tracked'[d] = IF d = c THEN {} ELSE tracked[d]
  BY Zenon, <1>1 DEF handleContainerStop, TypeOK
<1>k. /\ \A k, d : k \in Keys(tracked[d])' <=> k \in Keys(tracked'[d])
      /\ \A k : k \notin Keys({})
  BY Zenon DEF Keys
<1> HIDE DEF c
<1>4. told' = records'
  BY Zenon, <1>2 DEF RecordsInv
<1>5. ASSUME NEW k \in records' PROVE Served(k)'
  <2>1. Served(k) /\ k \notin Keys(tracked[c])
    BY Zenon, <1>2 DEF RecordsInv
  <2>2. \E d \in Containers : k \in Keys(tracked'[d])
    BY Zenon, <1>3, <2>1 DEF Served
  <2> QED BY Zenon, <1>k, <2>2 DEF Served
<1>6. ASSUME NEW d \in Containers, NEW k \in Sole(d), k \in Keys(tracked'[d]) PROVE k \in records'
  <2>1. d # c /\ k \in Keys(tracked[d])
    BY Zenon, <1>3, <1>6, <1>k
  <2>2. k \notin Keys(tracked[c])
    BY Zenon, <1>1, <2>1, SoleKeys
  <2> QED BY Zenon, <1>2, <2>1, <2>2 DEF RecordsInv
<1> QED BY Zenon, <1>4, <1>5, <1>6, <1>k DEF RecordsInv, Sole

(* The list adds what is in it and takes away what is not; what both       *)
(* listed and vanished containers have is taken away.                      *)
LEMMA SyncRecords ==
    ASSUME TypeOK, RecordsInv, SyncList
    PROVE  RecordsInv'
<1> DEFINE A == Keys(AddedNames(listed))
           G == Keys(UNION {tracked[c] : c \in Containers \ listed})
<1>1. told' = (told \cup A) \ G /\ records' = (records \cup A) \ G
  BY Zenon DEF SyncList
<1>2. \A k : k \in A <=> \E c \in listed : k \in Keys(Hostnames[c] \ tracked[c])
  BY Zenon, AddedKeys
<1>3. \A k : k \in G <=> \E c \in Containers \ listed : k \in Keys(tracked[c])
  BY ZenonT(90) DEF Keys
<1>4. \A d \in Containers : tracked'[d] = IF d \in listed THEN Hostnames[d] ELSE {}
  BY Zenon DEF SyncList
<1>5. listed \subseteq Containers
  BY Zenon DEF TypeOK
<1>k. /\ \A k, d : k \in Keys(tracked[d])' <=> k \in Keys(tracked'[d])
      /\ \A k : k \notin Keys({})
  BY Zenon DEF Keys
<1> HIDE DEF A, G
<1>6. ASSUME NEW k, NEW d \in listed
      PROVE  k \in Keys(Hostnames[d])
               <=> k \in Keys(tracked[d]) \/ k \in Keys(Hostnames[d] \ tracked[d])
  <2>1. tracked[d] \subseteq Hostnames[d]
    BY Zenon, <1>5, NamesOf
  <2> QED BY Zenon, <2>1 DEF Keys
<1>7. told' = records'
  BY Zenon, <1>1 DEF RecordsInv
<1>8. ASSUME NEW k \in records' PROVE Served(k)'
  <2>1. (Served(k) \/ k \in A) /\ k \notin G
    BY Zenon, <1>1 DEF RecordsInv
  <2>2. \E d \in listed : k \in Keys(Hostnames[d])
    BY Zenon, <1>2, <1>3, <1>6, <2>1 DEF Served
  <2>3. \E d \in Containers : k \in Keys(tracked'[d])
    BY Zenon, <1>4, <1>5, <2>2
  <2> QED BY Zenon, <1>k, <2>3 DEF Served
<1>9. ASSUME NEW d \in Containers, NEW k \in Sole(d), k \in Keys(tracked'[d]) PROVE k \in records'
  <2>1. d \in listed /\ k \in Keys(Hostnames[d])
    BY Zenon, <1>4, <1>9, <1>k
  <2>2. k \in records \/ k \in A
    BY Zenon, <1>2, <1>6, <2>1 DEF RecordsInv
  <2>3. \A c \in Containers \ listed : k \notin Keys(tracked[c])
    BY Zenon, <2>1, SoleKeys
  <2>4. k \notin G
    BY Zenon, <1>3, <2>3
  <2> QED BY Zenon, <1>1, <2>2, <2>4
<1> QED BY Zenon, <1>7, <1>8, <1>9, <1>k DEF RecordsInv, Sole

LEMMA RecordsStep == TypeOK /\ RecordsInv /\ [Next]_vars => RecordsInv'
<1> SUFFICES ASSUME TypeOK, RecordsInv, [Next]_vars PROVE RecordsInv'
  BY Zenon
<1>1. CASE UNCHANGED handled
  BY Zenon, <1>1 DEF handled, RecordsInv, Sole, Served, Keys
<1>2. CASE ApplyList
  BY Zenon, <1>2, SyncRecords DEF ApplyList
<1>3. CASE HandleEvent
  <2>1. Head(stream) \in Events
    BY Zenon, <1>3, HeadType DEF HandleEvent
  <2> QED BY Zenon, <1>3, <2>1, StartRecords, StopRecords DEF HandleEvent
<1>4. ASSUME ~ApplyList, ~HandleEvent PROVE UNCHANGED handled
  <2>1. CASE Loop
    BY Zenon, <1>4, <2>1 DEF Loop, Exit, Wake, Connect, ConnectFail, List, ListFail, Subscribe,
                      InspectFail, StreamError, ConsumeDone, handled
  <2>2. CASE \E c \in Containers : DaemonStart(c) \/ DaemonExit(c)
    BY Zenon, <2>2 DEF DaemonStart, DaemonExit, Change, handled
  <2>3. CASE StopCall \/ StopReturn \/ UNCHANGED vars
    BY Zenon, <2>3 DEF StopCall, StopReturn, vars, handled
  <2> QED BY Zenon, <2>1, <2>2, <2>3 DEF Next
<1> QED BY Zenon, <1>1, <1>2, <1>3, <1>4

----------------------------------------------------------------------------
(* The last event of s about c tells whether it is in R, and without one   *)
(* T, its tracked hostnames, do.                                           *)
News(s, c, T, R) ==
    /\ \A i \in 1..Len(s) :
         s[i].id = c /\ (\A j \in 1..Len(s) : j > i => s[j].id # c)
            => (s[i].action = "start" <=> c \in R)
    /\ (\A i \in 1..Len(s) : s[i].id # c) => (T # {} <=> c \in R)

(* What the watcher knows, from the list to the subscription and on. *)
NewsInv ==
    \A c \in Containers \ missed :
        /\ pc = "apply" => (c \in listed <=> c \in running)
        /\ pc = "subscribe" /\ Labelled(c) => (IsTracked(c) <=> c \in running)
        /\ pc = "events" /\ Labelled(c) => News(stream, c, tracked[c], running)

LEMMA AppendNews ==
    ASSUME NEW s \in Seq(Events), NEW evts \in Seq(Events), NEW T, NEW R, NEW R2, NEW c, NEW d,
           evts # << >>, \A i \in 1..Len(evts) : evts[i].id = d,
           evts[Len(evts)].action = "start" <=> d \in R2,
           c # d => News(s, c, T, R) /\ (c \in R2 <=> c \in R)
    PROVE  News(s \o evts, c, T, R2)
<1> DEFINE u == s \o evts
<1>1. /\ Len(u) = Len(s) + Len(evts) /\ Len(s) \in Nat /\ Len(evts) \in Nat \ {0}
      /\ \A i \in 1..Len(s) : u[i] = s[i]
      /\ \A i \in 1..Len(evts) : u[Len(s) + i] = evts[i]
  OBVIOUS
<1>2. \A i \in 1..Len(u) : i \in 1..Len(s) \/ (i - Len(s) \in 1..Len(evts) /\ u[i] = evts[i - Len(s)])
  <2> TAKE i \in 1..Len(u)
  <2>1. CASE i > Len(s)
    <3>1. i - Len(s) \in 1..Len(evts) /\ i = Len(s) + (i - Len(s))
      BY <1>1, <2>1
    <3> QED BY Zenon, <1>1, <3>1
  <2> QED BY <1>1, <2>1
<1> HIDE DEF u
<1>3. CASE c = d
  <2>1. u[Len(u)].id = d /\ Len(u) \in 1..Len(u) /\ u[Len(u)].action = evts[Len(evts)].action
    BY <1>1
  <2>2. u[Len(u)].action = "start" <=> c \in R2
    BY Zenon, <1>3, <2>1
  <2>3. ASSUME NEW i \in 1..Len(u), \A j \in 1..Len(u) : j > i => u[j].id # c
        PROVE  u[i].action = "start" <=> c \in R2
    <3>1. ~(Len(u) > i)
      BY Zenon, <1>3, <2>1, <2>3
    <3>2. i = Len(u)
      BY SMTT(90), <1>1, <3>1
    <3> QED BY Zenon, <2>2, <3>2
  <2> QED BY Zenon, <1>3, <2>1, <2>3 DEF News, u
<1>4. CASE c # d
  <2>1. \A i \in 1..Len(u) : u[i].id = c => i \in 1..Len(s)
    BY Zenon, <1>2, <1>4
  <2>2. \A j \in 1..Len(s) : j \in 1..Len(u)
    BY <1>1
  <2> QED BY ZenonT(90), <1>1, <1>4, <2>1, <2>2 DEF News, u
<1> QED BY Zenon, <1>3, <1>4

LEMMA TailNews ==
    ASSUME NEW s \in Seq(Events), s # << >>, NEW T, NEW T2, NEW R, NEW c, News(s, c, T, R),
           Head(s).id # c => T2 = T,
           Head(s).id = c => \/ T2 # {} <=> Head(s).action = "start"
                             \/ \E i \in 2..Len(s) : s[i].id = c
    PROVE  News(Tail(s), c, T2, R)
<1> DEFINE u == Tail(s)
<1>1. /\ Len(s) \in Nat \ {0} /\ Len(u) = Len(s) - 1 /\ Head(s) = s[1]
      /\ \A i \in 1..Len(u) : u[i] = s[i + 1]
  OBVIOUS
<1> HIDE DEF u
<1>2. \A j \in 2..Len(s) : j - 1 \in 1..Len(u) /\ s[j] = u[j - 1]
  <2> TAKE j \in 2..Len(s)
  <2>1. j - 1 \in 1..Len(u) /\ j = (j - 1) + 1
    BY <1>1
  <2> QED BY Zenon, <1>1, <2>1
<1>3. ASSUME NEW i \in 1..Len(u), u[i].id = c, \A j \in 1..Len(u) : j > i => u[j].id # c
      PROVE  u[i].action = "start" <=> c \in R
  <2>1. i + 1 \in 1..Len(s) /\ s[i + 1] = u[i]
    BY <1>1
  <2>2. ASSUME NEW j \in 1..Len(s), j > i + 1 PROVE s[j].id # c
    <3>1. j \in 2..Len(s) /\ j - 1 > i
      BY <2>2, <1>1
    <3> QED BY Zenon, <1>2, <1>3, <3>1
  <2> QED BY Zenon, <1>3, <2>1, <2>2 DEF News
<1>4. ASSUME \A i \in 1..Len(u) : u[i].id # c
      PROVE  T2 # {} <=> c \in R
  <2>1. \A j \in 2..Len(s) : s[j].id # c
    BY Zenon, <1>2, <1>4
  <2>2. CASE Head(s).id # c
    <3>1. \A j \in 1..Len(s) : s[j].id # c
      BY <1>1, <2>1, <2>2
    <3> QED BY Zenon, <2>2, <3>1 DEF News
  <2>3. CASE Head(s).id = c
    <3>1. 1 \in 1..Len(s) /\ \A j \in 1..Len(s) : j > 1 => s[j].id # c
      BY <1>1, <2>1
    <3> QED BY Zenon, <1>1, <2>1, <2>3, <3>1 DEF News
  <2> QED BY Zenon, <2>2, <2>3
<1> QED BY Zenon, <1>3, <1>4 DEF News, u

LEMMA ChangeNews ==
    ASSUME TypeOK, NewsInv, NEW d \in Containers, NEW evts \in Seq(Events), Change(d, evts),
           evts # << >>, \A i \in 1..Len(evts) : evts[i].id = d,
           evts[Len(evts)].action = "start" <=> d \in running',
           \A c \in Containers : c # d => (c \in running' <=> c \in running)
    PROVE  NewsInv'
<1> SUFFICES ASSUME NEW c \in Containers \ missed'
             PROVE  /\ pc = "apply" => (c \in listed <=> c \in running')
                    /\ pc = "subscribe" /\ Labelled(c) => (IsTracked(c) <=> c \in running')
                    /\ pc = "events" /\ Labelled(c) => News(stream', c, tracked[c], running')
  BY ZenonT(90) DEF NewsInv, Change, handled, IsTracked, Labelled, News
<1>1. CASE pc \in {"apply", "subscribe"}
  <2>1. missed' = missed \cup {d}
    BY Zenon, <1>1 DEF Change
  <2> QED BY Zenon, <1>1, <2>1 DEF NewsInv
<1>2. CASE pc = "events"
  <2>1. missed' = missed \ {d}
    BY Zenon, <1>2 DEF Change
  <2>2. stream' = stream \o evts /\ stream \in Seq(Events)
    BY Zenon, <1>2 DEF Change, TypeOK, Events
  <2>3. c # d /\ Labelled(c) => News(stream, c, tracked[c], running)
    BY Zenon, <1>2, <2>1 DEF NewsInv
  <2> QED BY Zenon, <1>2, <2>2, <2>3, AppendNews
<1> QED BY Zenon, <1>1, <1>2

(* The head of the stream is handled, or its inspection fails. *)
LEMMA EventNews ==
    ASSUME TypeOK, NewsInv, HandleEvent \/ InspectFail
    PROVE  NewsInv'
<1> DEFINE e == Head(stream)
<1>1. /\ stream \in Seq(Events) /\ stream # << >> /\ stream' = Tail(stream)
      /\ e.id \in Containers /\ pc = "events" /\ pc' = pc /\ running' = running
  BY Zenon, HeadType DEF HandleEvent, InspectFail, TypeOK, Events, daemon
<1> SUFFICES ASSUME NEW c \in Containers \ missed', Labelled(c)
             PROVE  News(Tail(stream), c, tracked'[c], running)
  BY ZenonT(90), <1>1 DEF NewsInv, News, Labelled
<1>2. CASE HandleEvent
  <2>1. c \notin missed
    BY Zenon, <1>2 DEF HandleEvent
  <2>2. News(stream, c, tracked[c], running)
    BY Zenon, <1>1, <2>1 DEF NewsInv
  <2>3. e.id # c => tracked'[c] = tracked[c]
    BY Zenon, <1>2 DEF HandleEvent, handleContainerStart, handleContainerStop, TypeOK
  <2>4. e.id = c => (tracked'[c] # {} <=> e.action = "start")
    BY Zenon, <1>1, <1>2 DEF HandleEvent, handleContainerStart, handleContainerStop, TypeOK, Labelled
  <2> QED BY Zenon, <1>1, <2>2, <2>3, <2>4, TailNews
<1>3. CASE InspectFail
  <2>1. c \notin missed /\ (e.id = c => \E i \in 2..Len(stream) : stream[i].id = c)
    BY Zenon, <1>3 DEF InspectFail
  <2>2. News(stream, c, tracked[c], running)
    BY Zenon, <1>1, <2>1 DEF NewsInv
  <2>3. tracked' = tracked
    BY Zenon, <1>3 DEF InspectFail, handled
  <2> QED BY Zenon, <1>1, <2>1, <2>2, <2>3, TailNews
<1> QED BY Zenon, <1>2, <1>3

LEMMA NewsStep == TypeOK /\ NewsInv /\ [Next]_vars => NewsInv'
<1> SUFFICES ASSUME TypeOK, NewsInv, [Next]_vars PROVE NewsInv'
  BY Zenon
<1>1. CASE UNCHANGED <<running, stream, pc, listed, tracked, missed>>
  BY <1>1 DEF NewsInv, News, IsTracked, Labelled
<1>2. ASSUME NEW c \in Containers, DaemonStart(c) PROVE NewsInv'
  <2>1. <<Event("start", c)>> \in Seq(Events)
    BY DEF Event, Events
  <2>2. /\ <<Event("start", c)>> # << >>
        /\ \A i \in 1..Len(<<Event("start", c)>>) : <<Event("start", c)>>[i].id = c
        /\ <<Event("start", c)>>[Len(<<Event("start", c)>>)].action = "start"
    BY DEF Event
  <2> QED BY Zenon, <1>2, <2>1, <2>2, ChangeNews DEF DaemonStart
<1>3. ASSUME NEW c \in Containers, DaemonExit(c) PROVE NewsInv'
  <2>1. ASSUME NEW evts, evts \in {<<Event("die", c)>>, <<Event("die", c), Event("stop", c)>>}
        PROVE  /\ evts \in Seq(Events) /\ evts # << >>
               /\ \A i \in 1..Len(evts) : evts[i].id = c
               /\ evts[Len(evts)].action # "start"
    <3>1. CASE evts = <<Event("die", c)>>
      BY <3>1 DEF Event, Events
    <3>2. CASE evts = <<Event("die", c), Event("stop", c)>>
      BY <3>2 DEF Event, Events
    <3> QED BY Zenon, <2>1, <3>1, <3>2
  <2>2. c \notin running' /\ \A d \in Containers : d # c => (d \in running' <=> d \in running)
    BY Zenon, <1>3 DEF DaemonExit
  <2>3. PICK evts \in {<<Event("die", c)>>, <<Event("die", c), Event("stop", c)>>} : Change(c, evts)
    BY Zenon, <1>3 DEF DaemonExit
  <2> QED BY ZenonT(90), <2>1, <2>2, <2>3, ChangeNews
<1>4. CASE List
  BY Zenon, <1>4 DEF List, NewsInv, daemon
<1>5. CASE ApplyList
  <2>1. \A c \in Containers : IsTracked(c)' <=> (c \in listed /\ Labelled(c))
    BY Zenon, <1>5 DEF ApplyList, SyncList, IsTracked, Labelled
  <2> QED BY Zenon, <1>5, <2>1 DEF ApplyList, NewsInv, Labelled, daemon
<1>6. CASE Subscribe
  BY <1>6 DEF Subscribe, NewsInv, News, IsTracked, Labelled, daemon, handled
<1>7. CASE HandleEvent \/ InspectFail
  BY Zenon, <1>7, EventNews
<1>8. ASSUME Exit \/ Wake \/ Connect \/ ConnectFail \/ ListFail \/ StreamError \/ ConsumeDone
      PROVE  NewsInv'
  <2>1. pc' \notin {"apply", "subscribe", "events"}
    BY Zenon, <1>8 DEF Exit, Wake, Connect, ConnectFail, ListFail, StreamError, ConsumeDone, Sleep
  <2> QED BY Zenon, <2>1 DEF NewsInv
<1>9. ASSUME StopCall \/ StopReturn \/ UNCHANGED vars
      PROVE  UNCHANGED <<running, stream, pc, listed, tracked, missed>>
  BY Zenon, <1>9 DEF StopCall, StopReturn, vars, daemon, handled
<1>10. Next \/ UNCHANGED vars
  BY Zenon
<1> QED BY ZenonT(90), <1>1, <1>2, <1>3, <1>4, <1>5, <1>6, <1>7, <1>8, <1>9, <1>10 DEF Next, Loop

(* Among the positions of a stream there is a last one. *)
LEMMA HasLast ==
    ASSUME NEW n \in Nat, NEW S \in SUBSET (1..n), S # {}
    PROVE  \E i \in S : \A j \in S : j <= i
<1> DEFINE R == OpToRel(<, Nat)
           T == {n - i : i \in S}
<1>1. \A x, y \in Nat : x < y => <<x, y>> \in R
  BY Zenon DEF OpToRel
<1>2. IsWellFoundedOn(R, Nat)
  BY Zenon, NatLessThanWellFounded
<1> HIDE DEF R
<1>3. T \subseteq Nat /\ T # {}
  <2>1. \A i \in S : n - i \in Nat
    OBVIOUS
  <2> QED BY Zenon, <2>1
<1>4. PICK x \in T : \A y \in T : <<y, x>> \notin R
  <2> HIDE DEF T
  <2> QED BY Zenon, <1>2, <1>3, WFMin
<1>5. PICK i \in S : x = n - i
  BY Zenon
<1>6. ASSUME NEW j \in S PROVE j <= i
  <2>1. n - j \in T /\ n - j \in Nat /\ n - i \in Nat
    OBVIOUS
  <2>2. ~(n - j < n - i)
    BY Zenon, <1>1, <1>4, <1>5, <2>1
  <2> QED BY <2>2
<1> QED BY Zenon, <1>6

LEMMA NewsTracked ==
    ASSUME TypeOK, NewsInv, pc = "events", NEW c \in Containers \ missed, Labelled(c)
    PROVE  WillTrack(c) <=> c \in running
<1> DEFINE about == {i \in 1..Len(stream) : stream[i].id = c}
           last == CHOOSE i \in about : \A j \in about : j <= i
<1>1. News(stream, c, tracked[c], running)
  BY Zenon DEF NewsInv
<1>2. CASE about = {}
  BY Zenon, <1>1, <1>2 DEF News, WillTrack, IsTracked
<1>3. CASE about # {}
  <2>1. Len(stream) \in Nat
    BY DEF TypeOK
  <2>2. \E i \in about : \A j \in about : j <= i
    BY Zenon, <1>3, <2>1, HasLast
  <2>3. last \in about /\ \A j \in about : j <= last
    BY Zenon, <2>2
  <2>4. WillTrack(c) <=> stream[last].action = "start"
    BY Zenon, <1>3 DEF WillTrack
  <2> HIDE DEF last
  <2>5. \A j \in 1..Len(stream) : j > last => stream[j].id # c
    BY <2>1, <2>3
  <2> QED BY Zenon, <1>1, <2>3, <2>4, <2>5 DEF News
<1> QED BY Zenon, <1>2, <1>3

----------------------------------------------------------------------------
IInv == TypeOK /\ ClientInv /\ RecordsInv /\ NewsInv

LEMMA InvInit == Init => IInv
<1> SUFFICES ASSUME Init PROVE IInv
  BY Zenon
<1>1. ClientInv
  BY Zenon DEF Init, ClientInv, NoClientLeak
<1>2. RecordsInv
  BY Zenon DEF Init, RecordsInv, Served, Keys
<1>3. NewsInv
  BY Zenon DEF Init, NewsInv
<1> QED BY Zenon, <1>1, <1>2, <1>3, TypeInit DEF IInv

LEMMA Invariance == Spec => []IInv
<1>1. IInv /\ [Next]_vars => IInv'
  BY Zenon, TypeStep, ClientStep, RecordsStep, NewsStep DEF IInv
<1> QED BY <1>1, InvInit, PTL DEF Spec

(* The state of the watcher is well formed; in particular the backoff of   *)
(* watchLoop stays between one second and maxBackoff.                      *)
THEOREM TypeCorrect == Spec => []TypeOK
BY Invariance, PTL DEF IInv

(* Whatever connections break and whatever is resynchronised, the records  *)
(* are the announcements to the cluster, every one is a tracked            *)
(* container's, and none is missing of a hostname that one container has.  *)
THEOREM RecordsExact == Spec => []RecordsFollowTracked
<1>1. IInv => RecordsFollowTracked
  BY Zenon DEF IInv, RecordsInv, RecordsFollowTracked, Served
<1> QED BY <1>1, Invariance, PTL

(* Every path of watchLoop and Stop closes the Docker client it gives up.  *)
THEOREM ClientsClosed == Spec => []NoClientLeak
<1>1. IInv => NoClientLeak
  BY Zenon DEF IInv, ClientInv
<1> QED BY <1>1, Invariance, PTL

(* While the event stream is up, every labelled container that runs is     *)
(* tracked, or an event that makes it so is on its way, and every other    *)
(* one is not, unless its last change fell between ContainerList and the   *)
(* subscription or its inspection failed.                                  *)
THEOREM FollowsDaemon == Spec => []TrackedFollowsDaemon
<1>1. IInv => TrackedFollowsDaemon
  BY Zenon, NewsTracked DEF IInv, TrackedFollowsDaemon
<1> QED BY <1>1, Invariance, PTL
============================================================================
