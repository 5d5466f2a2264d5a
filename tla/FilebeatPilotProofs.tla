------------------------- MODULE FilebeatPilotProofs -------------------------
(***************************************************************************)
(* Proofs about FilebeatPilot, for every number of containers, watchers,     *)
(* lines and events.  Which faults a theorem leaves out is its hypothesis:    *)
(* each of them breaks the property, alone or with a restart of the daemon.   *)
(***************************************************************************)
EXTENDS FilebeatPilot, TLAPS

USE ConstantsAssumption DEF world, mainVars, files, eventVars, scanVars

EventSet == [action : {"start", "die", "destroy"}, id : Containers]

\* The events on their way.
Waiting == {events[i] : i \in DOMAIN events}
Queued(e, c) == \E m \in Waiting : m.action = e /\ m.id = c

\* The items of a sequence that was appended to.
LEMMA AppendItems ==
    ASSUME NEW S, NEW s \in Seq(S), NEW x \in S, NEW t, t = Append(s, x)
    PROVE  t \in Seq(S) /\ {t[i] : i \in DOMAIN t} = {s[i] : i \in DOMAIN s} \cup {x}
<1>1. t \in Seq(S) /\ DOMAIN s = 1 .. Len(s) /\ Len(s) \in Nat
      /\ DOMAIN t = 1 .. Len(s) + 1 /\ t[Len(s) + 1] = x
      /\ \A i \in 1 .. Len(s) : t[i] = s[i]
  OBVIOUS
<1>2. 1 .. Len(s) + 1 = (1 .. Len(s)) \cup {Len(s) + 1}
  BY <1>1
<1>3. \A i \in DOMAIN t : t[i] \in {s[j] : j \in DOMAIN s} \cup {x}
  BY <1>1, <1>2, Zenon
<1>4. \A i \in DOMAIN s : i \in DOMAIN t /\ s[i] = t[i]
  BY <1>1, <1>2, Zenon
<1>5. Len(s) + 1 \in DOMAIN t /\ x = t[Len(s) + 1]
  BY <1>1, <1>2, Zenon
<1>. QED  BY <1>1, <1>3, <1>4, <1>5, Zenon

\* The items of a sequence whose first one was taken off.
LEMMA TailItems ==
    ASSUME NEW S, NEW s \in Seq(S), s # <<>>
    PROVE  /\ Tail(s) \in Seq(S) /\ Head(s) \in S
           /\ {s[i] : i \in DOMAIN s} = {Tail(s)[i] : i \in DOMAIN Tail(s)} \cup {Head(s)}
<1>1. /\ Tail(s) \in Seq(S) /\ Head(s) \in S /\ DOMAIN s = 1 .. Len(s) /\ Len(s) \in Nat \ {0}
      /\ Head(s) = s[1]
  OBVIOUS
<1>2. DOMAIN Tail(s) = 1 .. Len(s) - 1
  BY <1>1
<1>3. \A i \in 1 .. Len(s) - 1 : Tail(s)[i] = s[i + 1]
  BY <1>1
<1>4. \A i \in 1 .. Len(s) : i = 1 \/ (i - 1 \in 1 .. Len(s) - 1 /\ i = (i - 1) + 1)
  BY <1>1
<1>5. \A i \in 1 .. Len(s) - 1 : i + 1 \in 1 .. Len(s)
  BY <1>1
<1>6. 1 \in 1 .. Len(s)
  BY <1>1
<1>7. ASSUME NEW i \in 1 .. Len(s)
      PROVE  s[i] \in {Tail(s)[j] : j \in 1 .. Len(s) - 1} \cup {s[1]}
  <2>1. CASE i = 1
    BY <2>1, Zenon
  <2>2. CASE i - 1 \in 1 .. Len(s) - 1 /\ i = (i - 1) + 1
    <3>1. s[i] = Tail(s)[i - 1]
      BY <1>3, <2>2, Zenon
    <3>. QED  BY <2>2, <3>1, Zenon
  <2>. QED  BY <1>4, <2>1, <2>2, Zenon
<1>. QED  BY <1>1, <1>2, <1>3, <1>5, <1>6, <1>7, Zenon

\* Emit adds one event to those on their way, once docker has a subscriber.
LEMMA Emitted ==
    ASSUME TypeOK, NEW e \in {"start", "die", "destroy"}, NEW c \in Containers, Emit(e, c)
    PROVE  /\ events' \in Seq(EventSet)
           /\ Waiting \subseteq Waiting'
           /\ \A m \in Waiting' : m \in Waiting \/ (m.action = e /\ m.id = c)
           /\ mpc # "boot" => Queued(e, c)'
<1>1. events \in Seq(EventSet) /\ [action |-> e, id |-> c] \in EventSet
  BY DEF TypeOK, EventSet
<1>2. CASE mpc = "boot"
  BY <1>1, <1>2, Zenon DEF Emit, Waiting
<1>3. CASE mpc # "boot"
  <2>. DEFINE r == [action |-> e, id |-> c]
  <2>1. events' = Append(events, r) /\ r \in EventSet
    BY <1>1, <1>3, Zenon DEF Emit
  <2>f. r.action = e /\ r.id = c
    OBVIOUS
  <2>. HIDE DEF r
  <2>2. events' \in Seq(EventSet) /\ Waiting' = Waiting \cup {r}
    BY <1>1, <2>1, AppendItems DEF Waiting
  <2>. QED  BY <2>2, <2>f, Zenon DEF Queued
<1>. QED  BY <1>2, <1>3, Zenon

\* The event goroutine takes the first of the events on their way.
LEMMA Received ==
    ASSUME TypeOK, events # <<>>, events' = Tail(events)
    PROVE  /\ events' \in Seq(EventSet) /\ Head(events) \in EventSet
           /\ Waiting = Waiting' \cup {Head(events)}
<1>1. events \in Seq(EventSet)
  BY Zenon DEF TypeOK, EventSet
<1>. QED  BY <1>1, TailItems, Zenon DEF Waiting

\* Types of the elements of Waiting.
LEMMA WaitingTyped ==
    TypeOK => \A m \in Waiting : m.action \in {"start", "die", "destroy"} /\ m.id \in Containers
<1>1. SUFFICES ASSUME TypeOK, NEW m \in Waiting
               PROVE  m.action \in {"start", "die", "destroy"} /\ m.id \in Containers
  BY Zenon
<1>2. events \in Seq(EventSet)
  BY <1>1, Zenon DEF TypeOK, EventSet
<1>3. m \in EventSet
  BY <1>2 DEF Waiting
<1>. QED  BY <1>3, Zenon DEF EventSet

-----------------------------------------------------------------------------
\* A step keeps every variable in its range.
LEMMA TypeStep ==
    ASSUME TypeOK, [Next]_vars
    PROVE  TypeOK'
<1>p. \A c \in Containers : Path[c] \in Paths
  BY Zenon DEF Paths
<1>1. ASSUME NEW c \in Containers, Start(c) PROVE TypeOK'
  <2>1. events' \in Seq([action : {"start", "die", "destroy"}, id : Containers])
    BY <1>1, Emitted, Zenon DEF Start, EventSet
  <2>2. size' \in [Paths -> -1 .. MaxLines]
    <3>1. (IF size[Path[c]] = NoFile THEN 0 ELSE size[Path[c]]) \in -1 .. MaxLines
      BY <1>p DEF TypeOK
    <3>. QED  BY <1>1, <3>1, Zenon DEF Start, TypeOK
  <2>. QED  BY <1>1, <2>1, <2>2, Zenon DEF Start, TypeOK
<1>2. ASSUME NEW c \in Containers, Die(c) PROVE TypeOK'
  <2>1. events' \in Seq([action : {"start", "die", "destroy"}, id : Containers])
    BY <1>2, Emitted, Zenon DEF Die, EventSet
  <2>. QED  BY <1>2, <2>1, Zenon DEF Die, TypeOK
<1>3. ASSUME NEW c \in Containers, Destroy(c) PROVE TypeOK'
  <2>1. events' \in Seq([action : {"start", "die", "destroy"}, id : Containers])
    BY <1>3, Emitted, Zenon DEF Destroy, EventSet
  <2>2. size' \in [Paths -> -1 .. MaxLines]
    <3>1. (IF Path[c] \in AutoMount THEN NoFile ELSE size[Path[c]]) \in -1 .. MaxLines
      BY <1>p DEF TypeOK, NoFile
    <3>. QED  BY <1>3, <3>1, Zenon DEF Destroy, TypeOK
  <2>. QED  BY <1>3, <2>1, <2>2, Zenon DEF Destroy, TypeOK
<1>4. ASSUME NEW c \in Containers, Log(c) PROVE TypeOK'
  <2>1. size' \in [Paths -> -1 .. MaxLines]
    BY <1>4, <1>p DEF Log, TypeOK
  <2>. QED  BY <1>4, <2>1, Zenon DEF Log, TypeOK
<1>5. ASSUME NEW p \in Paths, Harvest(p) PROVE TypeOK'
  <2>1. offset' \in [Paths -> -1 .. MaxLines]
    BY <1>5 DEF Harvest, TypeOK
  <2>. QED  BY <1>5, <2>1, Zenon DEF Harvest, TypeOK
<1>6. ASSUME NEW w \in Watchers, FilebeatExit(w) PROVE TypeOK'
  BY <1>6, Zenon DEF FilebeatExit, TypeOK
<1>7. CASE Resubscribe \/ Crash
  <2>0. <<>> \in Seq([action : {"start", "die", "destroy"}, id : Containers])
    OBVIOUS
  <2>1. events' \in Seq([action : {"start", "die", "destroy"}, id : Containers])
    BY <1>7, <2>0, Zenon DEF Resubscribe, Crash
  <2>2. [p \in Paths |-> Unknown] \in [Paths -> -1 .. MaxLines]
    BY DEF Unknown
  <2>3. CASE Resubscribe
    BY <2>1, <2>3, Zenon DEF Resubscribe, TypeOK
  <2>4. CASE Crash
    BY <2>1, <2>2, <2>4, Zenon DEF Crash, TypeOK
  <2>. QED  BY <1>7, <2>3, <2>4, Zenon
<1>8. CASE Boot \/ List
  BY <1>8, Zenon DEF Boot, List, TypeOK
<1>9. ASSUME NEW c \in Containers, ListEach(c) PROVE TypeOK'
  BY <1>9, Zenon DEF ListEach, TypeOK
<1>10. CASE ListWrite \/ ListEnd
  BY <1>10, Zenon DEF ListWrite, ListEnd, newContainer, createVolumeSymlink,
     removeVolumeSymlink, TypeOK
<1>11. CASE EventStart
  <2>1. events' \in Seq([action : {"start", "die", "destroy"}, id : Containers])
        /\ Head(events).id \in Containers
    BY <1>11, Received, Zenon DEF EventStart, EventSet
  <2>. QED  BY <1>11, <2>1, Zenon DEF EventStart, TypeOK
<1>12. CASE EventWrite
  BY <1>12, Zenon DEF EventWrite, newContainer, createVolumeSymlink, TypeOK
<1>13. CASE EventDie
  <2>1. events' \in Seq([action : {"start", "die", "destroy"}, id : Containers])
        /\ Head(events).id \in Containers
    BY <1>13, Received, Zenon DEF EventDie, EventSet
  <2>. QED  BY <1>13, <2>1, Zenon DEF EventDie, feed, removeVolumeSymlink, TypeOK
<1>14. ASSUME NEW w \in Watchers, Scan(w) PROVE TypeOK'
  <2>1. CASE ScanRegistry(w)
    BY <2>1, Zenon DEF ScanRegistry, TypeOK
  <2>2. CASE ScanPaths(w)
    <3>1. loadConfigPaths \subseteq Paths
      BY <1>p DEF loadConfigPaths, TypeOK
    <3>. QED  BY <2>2, <3>1, Zenon DEF ScanPaths, TypeOK
  <2>3. CASE ScanRemove(w)
    <3>1. \A v \in Watchers : spc'[v] = "remove" => v # w /\ spc[v] = "remove" /\ scur'[v] = scur[v]
      BY <2>3, Zenon DEF ScanRemove, TypeOK
    <3>2. \A v \in Watchers : spc'[v] = "remove" => scur'[v] \in Containers
      BY <3>1, Zenon DEF TypeOK
    <3>. QED  BY <2>3, <3>2, Zenon DEF ScanRemove, TypeOK
  <2>4. CASE ScanEnd(w)
    <3>1. [p \in Paths |-> Unknown] \in [Paths -> -1 .. MaxLines]
      BY DEF Unknown
    <3>. QED  BY <2>4, <3>1, Zenon DEF ScanEnd, TypeOK
  <2>5. ASSUME NEW c \in Containers, ScanVisit(w, c) PROVE TypeOK'
    <3>1. ASSUME NEW v \in Watchers, spc'[v] = "remove" PROVE scur'[v] \in Containers
      <4>1. CASE v = w
        BY <2>5, <3>1, <4>1, Zenon DEF ScanVisit, TypeOK
      <4>2. CASE v # w
        BY <2>5, <3>1, <4>2, Zenon DEF ScanVisit, TypeOK
      <4>. QED  BY <4>1, <4>2, Zenon
    <3>2. /\ watchContainer' \subseteq Containers
          /\ spc' \in [Watchers -> {"off", "idle", "paths", "range", "remove"}]
          /\ left' \in [Watchers -> SUBSET Containers]
      BY <2>5, Zenon DEF ScanVisit, TypeOK
    <3>. QED  BY <2>5, <3>1, <3>2, Zenon DEF ScanVisit, TypeOK
  <2>. QED  BY <1>14, <2>1, <2>2, <2>3, <2>4, <2>5, Zenon DEF Scan
<1>15. CASE UNCHANGED vars
  BY <1>15, Zenon DEF vars, TypeOK
<1>. QED  BY <1>1, <1>2, <1>3, <1>4, <1>5, <1>6, <1>7, <1>8, <1>9, <1>10, <1>11, <1>12, <1>13,
             <1>14, <1>15, Zenon DEF Next, Environment, Main, Events

\* Every variable of FilebeatPilot stays in its range.
THEOREM TypeCorrect == Spec => []TypeOK
<1>1. Init => TypeOK
  <2>. SUFFICES ASSUME Init PROVE TypeOK
    BY Zenon
  <2>1. size \in [Paths -> -1 .. MaxLines] /\ [p \in Paths |-> Unknown] \in [Paths -> -1 .. MaxLines]
    BY DEF Init, NoFile, Unknown
  <2>2. events \in Seq([action : {"start", "die", "destroy"}, id : Containers])
    BY DEF Init
  <2>. QED  BY <2>1, <2>2, Zenon DEF Init, TypeOK
<1>. QED  BY <1>1, TypeStep, PTL DEF Spec

-----------------------------------------------------------------------------
(* What docker has said of a container that does not come back.              *)
Over(c) == docker[c] \in {"exited", "gone"}

\* The containers the daemon takes to be down are down: those of die and destroy
\* events, those on the list of the scans, those a scan is about to remove.
Down ==
    /\ \A m \in Waiting : m.action # "start" => Over(m.id)
    /\ \A c \in watchContainer : Over(c)
    /\ \A w \in Watchers : spc[w] = "remove" => Over(scur[w])

\* The steps of docker, and those that take events.
LEMMA WorldSteps ==
    ASSUME [Next]_vars
    PROVE  \/ \E c \in Containers : Start(c) \/ Die(c) \/ Destroy(c)
           \/ EventStart \/ EventDie \/ Resubscribe \/ Crash
           \/ UNCHANGED <<docker, events>>
<1>1. CASE \E c \in Containers : Log(c) \/ ListEach(c)
  BY <1>1, Zenon DEF Log, ListEach
<1>2. CASE \E w \in Watchers : FilebeatExit(w) \/ Scan(w)
  BY <1>2, Zenon DEF FilebeatExit, Scan, ScanRegistry, ScanPaths, ScanVisit, ScanRemove, ScanEnd
<1>3. CASE Boot \/ List \/ ListWrite \/ ListEnd \/ EventWrite
  BY <1>3, Zenon DEF Boot, List, ListWrite, ListEnd, EventWrite
<1>4. CASE \E p \in Paths : Harvest(p)
  BY <1>4, Zenon DEF Harvest
<1>5. CASE UNCHANGED vars
  BY <1>5, Zenon DEF vars
<1>. QED  BY <1>1, <1>2, <1>3, <1>4, <1>5, Zenon DEF Next, Environment, Main, Events

\* Down is kept as long as no container is started again.
LEMMA DownStep ==
    ASSUME "restart" \notin Faults, TypeOK, Down, [Next]_vars
    PROVE  Down'
<1>d. docker \in [Containers -> {"new", "running", "exited", "gone"}]
  BY Zenon DEF TypeOK
<1>1. \A c \in Containers : Over(c) => Over(c)'
  <2>1. ASSUME NEW d \in Containers, Start(d) PROVE \A c \in Containers : Over(c) => Over(c)'
    BY <1>d, <2>1, Zenon DEF Start, Over
  <2>2. ASSUME NEW d \in Containers, Die(d) \/ Destroy(d)
        PROVE  \A c \in Containers : Over(c) => Over(c)'
    BY <1>d, <2>2, Zenon DEF Die, Destroy, Over
  <2>3. UNCHANGED docker => \A c \in Containers : Over(c) => Over(c)'
    BY Zenon DEF Over
  <2>. QED  BY WorldSteps, <2>1, <2>2, <2>3, Zenon DEF EventStart, EventDie, Resubscribe, Crash
<1>2. \A m \in Waiting' : m \in Waiting \/ m.action = "start" \/ Over(m.id)'
  <2>1. ASSUME NEW c \in Containers, Start(c)
        PROVE  \A m \in Waiting' : m \in Waiting \/ m.action = "start"
    BY <2>1, Emitted, Zenon DEF Start
  <2>2. ASSUME NEW c \in Containers, Die(c) PROVE \A m \in Waiting' : m \in Waiting \/ Over(m.id)'
    <3>1. Over(c)'
      BY <1>d, <2>2, Zenon DEF Die, Over
    <3>2. \A m \in Waiting' : m \in Waiting \/ m.id = c
      BY <2>2, Emitted, Zenon DEF Die
    <3>. QED  BY <3>1, <3>2, Zenon DEF Over
  <2>3. ASSUME NEW c \in Containers, Destroy(c) PROVE \A m \in Waiting' : m \in Waiting \/ Over(m.id)'
    <3>1. Over(c)'
      BY <1>d, <2>3, Zenon DEF Destroy, Over
    <3>2. \A m \in Waiting' : m \in Waiting \/ m.id = c
      BY <2>3, Emitted, Zenon DEF Destroy
    <3>. QED  BY <3>1, <3>2, Zenon DEF Over
  <2>4. CASE EventStart \/ EventDie
    BY <2>4, Received, Zenon DEF EventStart, EventDie
  <2>5. CASE Resubscribe \/ Crash
    <3>1. events' = <<>>
      BY <2>5, Zenon DEF Resubscribe, Crash
    <3>. QED  BY <3>1 DEF Waiting
  <2>6. CASE UNCHANGED events
    BY <2>6, Zenon DEF Waiting
  <2>. QED  BY WorldSteps, <2>1, <2>2, <2>3, <2>4, <2>5, <2>6, Zenon
<1>3. \A c \in watchContainer' : Over(c)
  <2>1. CASE EventDie
    <3>1. Head(events) \in Waiting /\ Head(events).action # "start"
      BY <2>1, Received, Zenon DEF EventDie
    <3>. QED  BY <2>1, <3>1, Zenon DEF EventDie, feed, Down
  <2>2. watchContainer' \subseteq watchContainer \/ EventDie
    <3>1. ASSUME NEW c \in Containers, Start(c) \/ Die(c) \/ Destroy(c) \/ Log(c) \/ ListEach(c)
          PROVE  watchContainer' \subseteq watchContainer
      BY <3>1, Zenon DEF Start, Die, Destroy, Log, ListEach
    <3>2. ASSUME NEW w \in Watchers, FilebeatExit(w) \/ Scan(w)
          PROVE  watchContainer' \subseteq watchContainer
      BY <3>2, Zenon DEF FilebeatExit, Scan, ScanRegistry, ScanPaths, ScanVisit, ScanRemove, ScanEnd
    <3>3. CASE Resubscribe \/ Crash \/ Boot \/ List \/ ListWrite \/ ListEnd \/ EventStart \/ EventWrite
      BY <3>3, Zenon DEF Resubscribe, Crash, Boot, List, ListWrite, ListEnd, EventStart, EventWrite
    <3>4. CASE (\E p \in Paths : Harvest(p)) \/ UNCHANGED vars
      BY <3>4, Zenon DEF Harvest, vars
    <3>. QED  BY <3>1, <3>2, <3>3, <3>4, Zenon DEF Next, Environment, Main, Events
  <2>. QED  BY <2>1, <2>2, Zenon DEF Down
<1>4. ASSUME NEW v \in Watchers, spc'[v] = "remove" PROVE Over(scur'[v])
  <2>t. /\ spc \in [Watchers -> {"off", "idle", "paths", "range", "remove"}]
        /\ scur \in [Watchers -> Containers \cup {None}]
    BY Zenon DEF TypeOK
  <2>1. CASE UNCHANGED <<spc, scur>>
    BY <1>4, <2>1, Zenon DEF Down
  <2>2. ASSUME NEW w \in Watchers, NEW to, to # "remove", spc' = [spc EXCEPT ![w] = to],
               scur' \in {scur, [scur EXCEPT ![w] = None]}
        PROVE  Over(scur'[v])
    BY <1>4, <2>t, <2>2, Zenon DEF Down
  <2>3. ASSUME NEW w \in Watchers, NEW c \in Containers, ScanVisit(w, c) PROVE Over(scur'[v])
    <3>1. CASE UNCHANGED <<spc, scur>>
      BY <2>1, <3>1, Zenon
    <3>2. CASE /\ c \in watchContainer
               /\ scur' = [scur EXCEPT ![w] = c] /\ spc' = [spc EXCEPT ![w] = "remove"]
      BY <1>4, <2>t, <3>2, Zenon DEF Down
    <3>. QED  BY <2>3, <3>1, <3>2, Zenon DEF ScanVisit
  <2>4. ASSUME NEW w \in Watchers, FilebeatExit(w) \/ Scan(w) PROVE Over(scur'[v])
    BY <2>2, <2>3, <2>4, Zenon DEF FilebeatExit, Scan, ScanRegistry, ScanPaths, ScanRemove, ScanEnd
  <2>5. CASE Boot \/ Crash
    BY <1>4, <2>5, Zenon DEF Boot, Crash
  <2>6. ASSUME NEW c \in Containers, Start(c) \/ Die(c) \/ Destroy(c) \/ Log(c) \/ ListEach(c)
        PROVE  UNCHANGED <<spc, scur>>
    BY <2>6, Zenon DEF Start, Die, Destroy, Log, ListEach
  <2>7. CASE Resubscribe \/ List \/ ListWrite \/ ListEnd \/ EventStart \/ EventWrite \/ EventDie
    BY <2>1, <2>7, Zenon DEF Resubscribe, List, ListWrite, ListEnd, EventStart, EventWrite, EventDie
  <2>8. CASE (\E p \in Paths : Harvest(p)) \/ UNCHANGED vars
    BY <2>1, <2>8, Zenon DEF Harvest, vars
  <2>. QED  BY <2>1, <2>4, <2>5, <2>6, <2>7, <2>8, Zenon DEF Next, Environment, Main, Events
<1>5. \A m \in Waiting : m.id \in Containers
  BY WaitingTyped, Zenon
<1>6. watchContainer' \subseteq Containers
      /\ \A v \in Watchers : spc'[v] = "remove" => scur'[v] \in Containers
  BY TypeStep, Zenon DEF TypeOK
<1>. QED  BY <1>1, <1>2, <1>3, <1>4, <1>5, <1>6, Zenon DEF Down

-----------------------------------------------------------------------------
(* No running container slips through.                                       *)
\* The configuration of c is going to be written.
Coming(c) ==
    \/ Queued("start", c)
    \/ epc = "write" /\ ecur = c
    \/ mpc # "up" /\ c \in mtodo
    \/ mpc = "write" /\ mcur = c

\* From the listing on, a running container has its configuration or will get it.
Collected ==
    mpc \in {"each", "write", "up"} =>
        \A c \in Containers : docker[c] = "running" => c \in conf \/ Coming(c)

\* Collected is kept when nothing is lost, no call fails and none is restarted.
LEMMA CollectedStep ==
    ASSUME Faults \cap {"restart", "lossy", "error"} = {},
           TypeOK, Down, Collected, [Next]_vars
    PROVE  Collected'
<1>. DEFINE Listed == {"each", "write", "up"}
<1>. SUFFICES ASSUME NEW c \in Containers, mpc' \in Listed, docker'[c] = "running"
              PROVE  c \in conf' \/ Coming(c)'
  BY Zenon DEF Collected
<1>f. "restart" \notin Faults /\ "lossy" \notin Faults /\ "error" \notin Faults
  BY Zenon
<1>d. docker \in [Containers -> {"new", "running", "exited", "gone"}]
  BY Zenon DEF TypeOK
<1>m. ASSUME mpc \in Listed, docker[c] = "running" PROVE c \in conf \/ Coming(c)
  BY <1>m, Zenon DEF Collected
<1>q. ASSUME Waiting \subseteq Waiting', UNCHANGED <<mainVars, eventVars>>, conf \subseteq conf',
             docker[c] = "running"
      PROVE  c \in conf' \/ Coming(c)'
  BY <1>m, <1>q, Zenon DEF Coming, Queued
<1>1. ASSUME NEW d \in Containers, Start(d) PROVE c \in conf' \/ Coming(c)'
  <2>1. CASE d = c
    BY <1>1, <2>1, Emitted, Zenon DEF Start, Coming
  <2>2. CASE d # c
    <3>1. docker[c] = "running"
      BY <1>1, <1>d, <2>2, Zenon DEF Start
    <3>2. Waiting \subseteq Waiting'
      BY <1>1, Emitted, Zenon DEF Start
    <3>. QED  BY <1>1, <1>q, <3>1, <3>2, Zenon DEF Start
  <2>. QED  BY <2>1, <2>2, Zenon
<1>2. ASSUME NEW d \in Containers, Die(d) \/ Destroy(d) PROVE c \in conf' \/ Coming(c)'
  <2>1. d # c /\ docker[c] = "running"
    BY <1>2, <1>d, Zenon DEF Die, Destroy
  <2>2. Waiting \subseteq Waiting'
    BY <1>2, Emitted, Zenon DEF Die, Destroy
  <2>. QED  BY <1>2, <1>q, <2>1, <2>2, Zenon DEF Die, Destroy
<1>3. CASE Boot \/ Crash \/ Resubscribe
  BY <1>3, <1>f, Zenon DEF Boot, Crash, Resubscribe
<1>4. CASE List
  BY <1>4, <1>f, Zenon DEF List, Coming
<1>5. ASSUME NEW d \in Containers, ListEach(d) PROVE c \in conf' \/ Coming(c)'
  <2>1. UNCHANGED <<events, epc, ecur, conf, docker>> /\ Waiting' = Waiting /\ mpc = "each"
        /\ mpc' \in {"each", "write"} /\ mtodo' = mtodo \ {d}
    BY <1>5, Zenon DEF ListEach, Waiting
  <2>2. CASE d = c
    BY <1>5, <2>1, <2>2, Zenon DEF ListEach, exists, Coming
  <2>3. CASE d # c
    BY <1>m, <2>1, <2>3, Zenon DEF Coming, Queued
  <2>. QED  BY <2>2, <2>3, Zenon
<1>6. CASE ListWrite
  <2>1. UNCHANGED <<events, epc, ecur, mtodo, docker>> /\ Waiting' = Waiting /\ mpc = "write"
        /\ mpc' = "each" /\ conf' = conf \cup {mcur}
    BY <1>6, <1>f, Zenon DEF ListWrite, newContainer, Waiting
  <2>. QED  BY <1>m, <2>1, Zenon DEF Coming, Queued
<1>7. CASE ListEnd
  <2>1. UNCHANGED <<events, epc, ecur, docker, conf>> /\ Waiting' = Waiting /\ mpc = "each"
        /\ mpc' = "up" /\ mtodo = {}
    BY <1>7, Zenon DEF ListEnd, Waiting
  <2>. QED  BY <1>m, <2>1, Zenon DEF Coming, Queued
<1>8. CASE EventStart
  <2>1. /\ UNCHANGED <<mpc, mtodo, mcur, conf, docker>> /\ epc = "idle"
        /\ Waiting = Waiting' \cup {Head(events)}
    BY <1>8, Received, Zenon DEF EventStart
  <2>2. CASE c = Head(events).id
    BY <1>8, <2>1, <2>2, Zenon DEF EventStart, exists, Coming
  <2>3. CASE c # Head(events).id
    BY <1>m, <2>1, <2>3, Zenon DEF Coming, Queued
  <2>. QED  BY <2>2, <2>3, Zenon
<1>9. CASE EventWrite
  <2>1. UNCHANGED <<events, mpc, mtodo, mcur, docker>> /\ Waiting' = Waiting /\ conf' = conf \cup {ecur}
    BY <1>9, <1>f, Zenon DEF EventWrite, newContainer, Waiting
  <2>. QED  BY <1>m, <2>1, Zenon DEF Coming, Queued
<1>10. CASE EventDie
  <2>1. /\ UNCHANGED <<mpc, mtodo, mcur, epc, ecur, conf, docker>> /\ Head(events).action # "start"
        /\ Waiting = Waiting' \cup {Head(events)}
    BY <1>10, Received, Zenon DEF EventDie
  <2>. QED  BY <1>m, <2>1, Zenon DEF Coming, Queued
<1>11. ASSUME NEW w \in Watchers, ScanRemove(w) PROVE c \in conf' \/ Coming(c)'
  <2>1. c # scur[w]
    BY <1>11, Zenon DEF ScanRemove, Down, Over
  <2>2. UNCHANGED <<events, mpc, mtodo, mcur, epc, ecur, docker>> /\ Waiting' = Waiting
        /\ conf' = conf \ {scur[w]}
    BY <1>11, Zenon DEF ScanRemove, Waiting
  <2>. QED  BY <1>m, <2>1, <2>2, Zenon DEF Coming, Queued
<1>12. CASE UNCHANGED <<docker, events, conf, mainVars, eventVars>>
  BY <1>12, <1>q, Zenon DEF Waiting
<1>13. ASSUME NEW w \in Watchers, FilebeatExit(w) \/ Scan(w) PROVE c \in conf' \/ Coming(c)'
  BY <1>11, <1>12, <1>13, Zenon
     DEF FilebeatExit, Scan, ScanRegistry, ScanPaths, ScanVisit, ScanEnd
<1>14. CASE (\E p \in Paths : Harvest(p)) \/ (\E d \in Containers : Log(d)) \/ UNCHANGED vars
  BY <1>12, <1>14, Zenon DEF Harvest, Log, vars
<1>. QED  BY <1>1, <1>2, <1>3, <1>4, <1>5, <1>6, <1>7, <1>8, <1>9, <1>10, <1>13, <1>14, Zenon
             DEF Next, Environment, Main, Events

\* RunningCollected for every number of containers and watchers: between the
\* subscription, the listing and the events of pilot.go no running container is
\* passed over, and no scan takes the configuration of one, also when the daemon
\* or filebeat is restarted.
THEOREM RunningIsCollected ==
    ASSUME Faults \cap {"restart", "lossy", "error"} = {}
    PROVE  Spec => []RunningCollected
<1>1. Init => Down /\ Collected
  <2>. SUFFICES ASSUME Init PROVE Down /\ Collected
    BY Zenon
  <2>1. Waiting = {}
    BY DEF Init, Waiting
  <2>. QED  BY <2>1, Zenon DEF Init, Down, Collected
<1>2. TypeOK /\ Down /\ Collected /\ [Next]_vars => Down' /\ Collected'
  <2>1. "restart" \notin Faults
    BY Zenon
  <2>. QED  BY <2>1, DownStep, CollectedStep, Zenon
<1>3. Collected => RunningCollected
  <2>. SUFFICES ASSUME Collected, CaughtUp, NEW c \in Containers, docker[c] = "running" PROVE c \in conf
    BY Zenon DEF RunningCollected
  <2>1. Waiting = {} /\ mpc = "up" /\ epc = "idle"
    BY DEF CaughtUp, Waiting
  <2>. QED  BY <2>1, Zenon DEF Collected, Coming, Queued
<1>. QED  BY <1>1, <1>2, <1>3, TypeCorrect, PTL DEF Spec

-----------------------------------------------------------------------------
(* The links of containers that are gone.                                    *)
\* A link made for a container that is gone belongs to the listing, or the destroy
\* event that takes it away is on its way; so does one that is about to be made.
Linked ==
    /\ mtodo \subseteq listed
    /\ mpc = "write" => mcur \in listed
    /\ epc = "write" => mpc # "boot"
    /\ epc = "write" /\ docker[ecur] = "gone" => Queued("destroy", ecur)
    /\ mpc = "up" => \A c \in links \ listed : docker[c] = "gone" => Queued("destroy", c)

\* Linked is kept when no event is lost and no call fails.
LEMMA LinkedStep ==
    ASSUME Faults \cap {"lossy", "error"} = {}, TypeOK, Linked, [Next]_vars
    PROVE  Linked'
<1>f. "lossy" \notin Faults /\ "error" \notin Faults
  BY Zenon
<1>d. docker \in [Containers -> {"new", "running", "exited", "gone"}] /\ links \subseteq Containers
      /\ (epc = "write" => ecur \in Containers)
  BY Zenon DEF TypeOK
<1>q. ASSUME Waiting \subseteq Waiting', UNCHANGED <<mainVars, eventVars>>, links' \subseteq links,
             \A c \in Containers : docker'[c] = "gone" =>
                docker[c] = "gone" \/ (mpc # "boot" => Queued("destroy", c)')
      PROVE  Linked'
  BY <1>d, <1>q, Zenon DEF Linked, Queued
<1>1. ASSUME NEW d \in Containers, Start(d) PROVE Linked'
  <2>1. Waiting \subseteq Waiting'
    BY <1>1, Emitted, Zenon DEF Start
  <2>2. \A c \in Containers : docker'[c] = "gone" => docker[c] = "gone"
    BY <1>1, <1>d, Zenon DEF Start
  <2>. QED  BY <1>1, <1>q, <2>1, <2>2, Zenon DEF Start
<1>2. ASSUME NEW d \in Containers, Die(d) PROVE Linked'
  <2>1. Waiting \subseteq Waiting'
    BY <1>2, Emitted, Zenon DEF Die
  <2>2. \A c \in Containers : docker'[c] = "gone" => docker[c] = "gone"
    BY <1>2, <1>d, Zenon DEF Die
  <2>. QED  BY <1>2, <1>q, <2>1, <2>2, Zenon DEF Die
<1>3. ASSUME NEW d \in Containers, Destroy(d) PROVE Linked'
  <2>1. Waiting \subseteq Waiting' /\ (mpc # "boot" => Queued("destroy", d)')
    BY <1>3, Emitted, Zenon DEF Destroy
  <2>2. \A c \in Containers : docker'[c] = "gone" => docker[c] = "gone" \/ c = d
    BY <1>3, <1>d, Zenon DEF Destroy
  <2>. QED  BY <1>3, <1>q, <2>1, <2>2, Zenon DEF Destroy
<1>4. CASE Boot \/ Crash \/ List \/ Resubscribe
  <2>1. CASE Boot
    BY <2>1, Zenon DEF Boot, Linked
  <2>2. CASE Crash
    BY <2>2, Zenon DEF Crash, Linked
  <2>3. CASE List
    <3>1. UNCHANGED <<docker, events, epc, ecur>> /\ Waiting' = Waiting
          /\ mpc' = "each" /\ mtodo' = listed'
      BY <1>f, <2>3, Zenon DEF List, Waiting
    <3>. QED  BY <3>1, Zenon DEF Linked, Queued
  <2>. QED  BY <1>4, <1>f, <2>1, <2>2, <2>3, Zenon DEF Resubscribe
<1>5. ASSUME NEW d \in Containers, ListEach(d) PROVE Linked'
  <2>1. UNCHANGED <<docker, events, epc, ecur, listed>> /\ Waiting' = Waiting /\ mtodo' = mtodo \ {d}
        /\ mpc' \in {"each", "write"} /\ d \in mtodo /\ mpc = "each" /\ (mpc' = "write" => mcur' = d)
    BY <1>5, Zenon DEF ListEach, Waiting
  <2>2. mtodo' \subseteq listed' /\ (mpc' = "write" => mcur' \in listed')
    BY <2>1, Zenon DEF Linked
  <2>3. epc' = "write" => mpc' # "boot" /\ (docker'[ecur'] = "gone" => Queued("destroy", ecur)')
    BY <2>1, Zenon DEF Linked, Queued
  <2>. QED  BY <2>1, <2>2, <2>3, Zenon DEF Linked
<1>6. CASE ListWrite
  <2>1. UNCHANGED <<docker, events, epc, ecur, listed, mtodo>> /\ Waiting' = Waiting /\ mpc' = "each"
    BY <1>6, Zenon DEF ListWrite, Waiting
  <2>. QED  BY <2>1, Zenon DEF Linked, Queued
<1>7. CASE ListEnd
  <2>1. UNCHANGED <<docker, events, epc, ecur, listed, mtodo>> /\ Waiting' = Waiting /\ mpc' = "up"
        /\ links' = links \ (Containers \ listed)
    BY <1>7, Zenon DEF ListEnd, Waiting, removeVolumeSymlink
  <2>. QED  BY <1>d, <2>1, Zenon DEF Linked, Queued
<1>8. CASE EventStart
  <2>1. /\ UNCHANGED <<docker, mainVars, links>> /\ Waiting = Waiting' \cup {Head(events)}
        /\ mpc # "boot"
        /\ epc = "idle" /\ Head(events).action = "start"
        /\ (epc' = "write" => docker[ecur'] # "gone")
    BY <1>8, Received, Zenon DEF EventStart
  <2>2. \A c : Queued("destroy", c) => Queued("destroy", c)'
    BY <2>1, Zenon DEF Queued
  <2>. QED  BY <2>1, <2>2, Zenon DEF Linked
<1>9. CASE EventWrite
  <2>1. UNCHANGED <<docker, events, mainVars>> /\ Waiting' = Waiting /\ epc = "write" /\ epc' = "idle"
        /\ links' = links \cup {ecur}
    BY <1>9, <1>f, Zenon DEF EventWrite, Waiting, newContainer, createVolumeSymlink
  <2>. QED  BY <2>1, Zenon DEF Linked, Queued
<1>10. CASE EventDie
  <2>1. /\ UNCHANGED <<docker, mainVars, eventVars>> /\ Waiting = Waiting' \cup {Head(events)}
        /\ epc = "idle" /\ links' = links \ {Head(events).id}
    BY <1>10, Received, Zenon DEF EventDie, removeVolumeSymlink
  <2>2. \A c : c # Head(events).id /\ Queued("destroy", c) => Queued("destroy", c)'
    BY <2>1, Zenon DEF Queued
  <2>. QED  BY <2>1, <2>2, Zenon DEF Linked
<1>11. CASE UNCHANGED <<docker, events, links, mainVars, eventVars>>
  BY <1>11, <1>q, Zenon DEF Waiting
<1>12. ASSUME NEW w \in Watchers, FilebeatExit(w) \/ Scan(w) PROVE Linked'
  BY <1>11, <1>12, Zenon
     DEF FilebeatExit, Scan, ScanRegistry, ScanPaths, ScanVisit, ScanRemove, ScanEnd
<1>13. CASE (\E p \in Paths : Harvest(p)) \/ (\E d \in Containers : Log(d)) \/ UNCHANGED vars
  BY <1>11, <1>13, Zenon DEF Harvest, Log, vars
<1>. QED  BY <1>1, <1>2, <1>3, <1>4, <1>5, <1>6, <1>7, <1>8, <1>9, <1>10, <1>12, <1>13, Zenon
             DEF Next, Environment, Main, Events

\* StaleLinksGone for every number of containers and watchers: processSymlink and
\* the destroy events leave no link of a container that is gone, also when it went
\* while the daemon was down, and however often containers and daemon restart.
THEOREM StaleLinksAreGone ==
    ASSUME Faults \cap {"lossy", "error"} = {}
    PROVE  Spec => []StaleLinksGone
<1>1. Init => Linked
  BY Zenon DEF Init, Linked
<1>2. TypeOK /\ Linked /\ [Next]_vars => Linked'
  BY LinkedStep, Zenon
<1>3. Linked => StaleLinksGone
  <2>. SUFFICES ASSUME Linked, CaughtUp PROVE \A c \in links : docker[c] = "gone" => c \in listed
    BY Zenon DEF StaleLinksGone
  <2>1. Waiting = {} /\ mpc = "up"
    BY DEF CaughtUp, Waiting
  <2>. QED  BY <2>1, Zenon DEF Linked, Queued
<1>. QED  BY <1>1, <1>2, <1>3, TypeCorrect, PTL DEF Spec

-----------------------------------------------------------------------------
(* What a scan removes has been read.                                        *)
\* A scan's copy of the registry is never ahead of it, and filebeat never ahead of
\* the log of a container that has one for itself.
ReadSoFar ==
    /\ \A w \in Watchers, p \in Paths : states[w][p] <= offset[p]
    /\ \A c \in Containers : Path[c] \in AutoMount /\ docker[c] # "gone" =>
          /\ offset[Path[c]] <= size[Path[c]]
          /\ docker[c] # "new" => size[Path[c]] # NoFile

\* The types ReadSoFar is about.
Counts ==
    /\ size \in [Paths -> Int] /\ offset \in [Paths -> Int]
    /\ \A p \in Paths : size[p] >= NoFile /\ offset[p] >= Unknown
    /\ states \in [Watchers -> [Paths -> Int]]
    /\ docker \in [Containers -> {"new", "running", "exited", "gone"}]
    /\ \A c \in Containers : Path[c] \in Paths

LEMMA CountsTyped == TypeOK => Counts
<1>. SUFFICES ASSUME TypeOK PROVE Counts
  BY Zenon
<1>1. size \in [Paths -> Int] /\ offset \in [Paths -> Int] /\ states \in [Watchers -> [Paths -> Int]]
  BY DEF TypeOK
<1>2. \A p \in Paths : size[p] >= NoFile /\ offset[p] >= Unknown
  BY DEF TypeOK, NoFile, Unknown
<1>. QED  BY <1>1, <1>2, Zenon DEF TypeOK, Counts, Paths

\* The registry and the logs: filebeat reads no more than was written.
LEMMA ReadStep ==
    ASSUME TypeOK, ReadSoFar, [Next]_vars
    PROVE  ReadSoFar'
<1>t. Counts
  BY CountsTyped, Zenon
<1>u. \A c, d \in Containers : Path[c] \in AutoMount /\ Path[c] = Path[d] => c = d
  BY Zenon
<1>q. ASSUME UNCHANGED <<world, states>> PROVE ReadSoFar'
  BY <1>q, Zenon DEF ReadSoFar
<1>1. ASSUME NEW d \in Containers, Start(d) PROVE ReadSoFar'
  <2>1. ASSUME NEW c \in Containers, Path[c] \in AutoMount, docker'[c] # "gone"
        PROVE  offset[Path[c]] <= size'[Path[c]] /\ (docker'[c] # "new" => size'[Path[c]] # NoFile)
    <3>1. CASE Path[d] # Path[c]
      <4>1. size'[Path[c]] = size[Path[c]] /\ docker'[c] = docker[c]
        BY <1>1, <1>t, <3>1, Zenon DEF Start, Counts
      <4>. QED  BY <2>1, <4>1, Zenon DEF ReadSoFar
    <3>2. CASE d = c
      <4>1. docker[c] # "gone"
        BY <1>1, <1>t, <3>2, Zenon DEF Start, Counts
      <4>2. size'[Path[c]] = IF size[Path[c]] = NoFile THEN 0 ELSE size[Path[c]]
        BY <1>1, <1>t, <3>2, Zenon DEF Start, Counts
      <4>3. offset[Path[c]] <= size[Path[c]] /\ size[Path[c]] \in Int /\ offset[Path[c]] \in Int
        BY <1>t, <2>1, <4>1, Zenon DEF Counts, ReadSoFar
      <4>. QED  BY <4>2, <4>3 DEF NoFile
    <3>. QED  BY <1>u, <2>1, <3>1, <3>2, Zenon
  <2>. QED  BY <1>1, <2>1, Zenon DEF Start, ReadSoFar
<1>2. ASSUME NEW d \in Containers, Die(d) PROVE ReadSoFar'
  <2>1. \A c \in Containers : docker'[c] # "gone" =>
           docker[c] # "gone" /\ (docker'[c] # "new" => docker[c] # "new")
    BY <1>2, <1>t, Zenon DEF Die, Counts
  <2>. QED  BY <1>2, <2>1, Zenon DEF Die, ReadSoFar
<1>3. ASSUME NEW d \in Containers, Destroy(d) PROVE ReadSoFar'
  <2>1. \A c \in Containers : docker'[c] # "gone" => c # d /\ docker'[c] = docker[c]
    BY <1>3, <1>t, Zenon DEF Destroy, Counts
  <2>2. \A c \in Containers : Path[c] \in AutoMount /\ c # d => size'[Path[c]] = size[Path[c]]
    BY <1>3, <1>t, <1>u, Zenon DEF Destroy, Counts
  <2>. QED  BY <1>3, <2>1, <2>2, Zenon DEF Destroy, ReadSoFar
<1>4. ASSUME NEW d \in Containers, Log(d) PROVE ReadSoFar'
  <2>1. ASSUME NEW c \in Containers, Path[c] \in AutoMount, docker[c] # "gone"
        PROVE  offset[Path[c]] <= size'[Path[c]] /\ (docker[c] # "new" => size'[Path[c]] # NoFile)
    <3>1. CASE Path[d] # Path[c]
      <4>1. size'[Path[c]] = size[Path[c]]
        BY <1>4, <1>t, <3>1, Zenon DEF Log, Counts
      <4>. QED  BY <2>1, <4>1, Zenon DEF ReadSoFar
    <3>2. CASE d = c
      <4>1. size'[Path[c]] = size[Path[c]] + 1
        BY <1>4, <1>t, <3>2, Zenon DEF Log, Counts
      <4>2. offset[Path[c]] <= size[Path[c]] /\ size[Path[c]] \in Int /\ offset[Path[c]] \in Int
            /\ size[Path[c]] >= NoFile
        BY <1>t, <2>1, Zenon DEF Counts, ReadSoFar
      <4>. QED  BY <4>1, <4>2 DEF NoFile
    <3>. QED  BY <1>u, <2>1, <3>1, <3>2, Zenon
  <2>. QED  BY <1>4, <2>1, Zenon DEF Log, ReadSoFar
<1>5. ASSUME NEW p \in Paths, Harvest(p) PROVE ReadSoFar'
  <2>1. \A r \in Paths : offset'[r] = (IF r = p THEN offset[r] + 1 ELSE offset[r])
    BY <1>5, <1>t, Zenon DEF Harvest, Counts
  <2>2. offset[p] < size[p] /\ UNCHANGED <<docker, size, states>>
    BY <1>5, Zenon DEF Harvest
  <2>3. \A w \in Watchers, r \in Paths : states[w][r] <= offset'[r]
    BY <1>t, <2>1 DEF Counts, ReadSoFar
  <2>4. \A r \in Paths : offset[r] <= size[r] => offset'[r] <= size[r]
    BY <1>t, <2>1, <2>2 DEF Counts
  <2>. QED  BY <1>t, <2>2, <2>3, <2>4, Zenon DEF ReadSoFar, Counts
<1>6. ASSUME NEW w \in Watchers, ScanRegistry(w) PROVE ReadSoFar'
  <2>1. \A p \in Paths : offset[p] <= offset[p]
    BY <1>t DEF Counts
  <2>2. \A v \in Watchers : states'[v] = (IF v = w THEN offset ELSE states[v])
    BY <1>6, <1>t, Zenon DEF ScanRegistry, Counts
  <2>. QED  BY <1>6, <2>1, <2>2, Zenon DEF ScanRegistry, ReadSoFar
<1>7. ASSUME NEW w \in Watchers, ScanEnd(w) PROVE ReadSoFar'
  <2>1. \A p \in Paths : Unknown <= offset[p]
    BY <1>t DEF Counts, Unknown
  <2>2. \A v \in Watchers : states'[v] = (IF v = w THEN [p \in Paths |-> Unknown] ELSE states[v])
    BY <1>7, <1>t, Zenon DEF ScanEnd, Counts
  <2>3. \A v \in Watchers, p \in Paths : states'[v][p] <= offset[p]
    BY <2>1, <2>2, Zenon DEF ReadSoFar
  <2>. QED  BY <1>7, <2>3, Zenon DEF ScanEnd, ReadSoFar
<1>8. CASE Crash
  <2>1. \A p \in Paths : Unknown <= offset[p]
    BY <1>t DEF Counts, Unknown
  <2>. QED  BY <1>8, <2>1, Zenon DEF Crash, ReadSoFar
<1>9. ASSUME NEW w \in Watchers, FilebeatExit(w) \/ Scan(w) PROVE ReadSoFar'
  BY <1>6, <1>7, <1>9, <1>q, Zenon DEF FilebeatExit, Scan, ScanPaths, ScanVisit, ScanRemove
<1>10. CASE Resubscribe \/ Boot \/ List \/ ListWrite \/ ListEnd \/ EventStart \/ EventWrite \/ EventDie
  BY <1>10, <1>q, Zenon DEF Resubscribe, Boot, List, ListWrite, ListEnd, EventStart,
     EventWrite, EventDie
<1>11. CASE (\E d \in Containers : ListEach(d)) \/ UNCHANGED vars
  BY <1>11, <1>q, Zenon DEF ListEach, vars
<1>. QED  BY <1>1, <1>2, <1>3, <1>4, <1>5, <1>8, <1>9, <1>10, <1>11, Zenon
             DEF Next, Environment, Main, Events

\* The log of an exited container, once read to its end, stays so.
LEMMA StaysRead ==
    ASSUME "restart" \notin Faults, TypeOK, [Next]_vars,
           NEW c \in Containers, Path[c] \in AutoMount, docker[c] = "exited", docker'[c] = "exited",
           offset[Path[c]] = size[Path[c]]
    PROVE  offset'[Path[c]] = size'[Path[c]]
<1>t. Counts
  BY CountsTyped, Zenon
<1>u. \A d \in Containers : Path[c] = Path[d] => c = d
  BY Zenon
<1>1. ASSUME NEW d \in Containers, Start(d) \/ Destroy(d) \/ Log(d)
      PROVE  offset'[Path[c]] = size'[Path[c]]
  <2>1. d # c
    BY <1>1, <1>t, Zenon DEF Start, Destroy, Log, Counts
  <2>2. size'[Path[c]] = size[Path[c]] /\ offset' = offset
    BY <1>1, <1>t, <1>u, <2>1, Zenon DEF Start, Destroy, Log, Counts
  <2>. QED  BY <2>2, Zenon
<1>2. ASSUME NEW p \in Paths, Harvest(p) PROVE offset'[Path[c]] = size'[Path[c]]
  <2>1. p # Path[c]
    BY <1>2, <1>t DEF Harvest, Counts
  <2>. QED  BY <1>2, <1>t, <2>1, Zenon DEF Harvest, Counts
<1>3. ASSUME NEW d \in Containers, Die(d) \/ ListEach(d) PROVE UNCHANGED <<size, offset>>
  BY <1>3, Zenon DEF Die, ListEach
<1>4. ASSUME NEW w \in Watchers, FilebeatExit(w) \/ Scan(w) PROVE UNCHANGED <<size, offset>>
  BY <1>4, Zenon DEF FilebeatExit, Scan, ScanRegistry, ScanPaths, ScanVisit, ScanRemove, ScanEnd
<1>5. CASE Resubscribe \/ Crash \/ Boot \/ List \/ ListWrite \/ ListEnd
  BY <1>5, Zenon DEF Resubscribe, Crash, Boot, List, ListWrite, ListEnd
<1>6. CASE EventStart \/ EventWrite \/ EventDie \/ UNCHANGED vars
  BY <1>6, Zenon DEF EventStart, EventWrite, EventDie, vars
<1>. QED  BY <1>1, <1>2, <1>3, <1>4, <1>5, <1>6, Zenon DEF Next, Environment, Main, Events

\* A scan that is about to remove was so before, or has just visited the entry.
LEMMA RemovingSteps ==
    ASSUME TypeOK, [Next]_vars, NEW v \in Watchers, spc'[v] = "remove"
    PROVE  \/ spc[v] = "remove" /\ scur'[v] = scur[v] /\ states'[v] = states[v]
           \/ /\ UNCHANGED <<world, states>> /\ scur'[v] \in watchContainer
              /\ canRemoveConf(v, scur'[v])
<1>t. /\ spc \in [Watchers -> {"off", "idle", "paths", "range", "remove"}]
      /\ scur \in [Watchers -> Containers \cup {None}]
      /\ states \in [Watchers -> [Paths -> -1 .. MaxLines]]
  BY Zenon DEF TypeOK
<1>. DEFINE Same == spc[v] = "remove" /\ scur'[v] = scur[v] /\ states'[v] = states[v]
<1>1. CASE UNCHANGED <<spc, scur, states>>
  BY <1>1, Zenon
<1>2. ASSUME NEW w \in Watchers, FilebeatExit(w) \/ ScanRegistry(w) \/ ScanPaths(w) PROVE Same
  <2>1. spc'[w] # "remove" /\ (v # w => UNCHANGED <<spc[v], scur[v], states[v]>>)
    BY <1>2, <1>t, Zenon DEF FilebeatExit, ScanRegistry, ScanPaths
  <2>. QED  BY <2>1, Zenon
<1>3. ASSUME NEW w \in Watchers, ScanRemove(w) \/ ScanEnd(w) PROVE Same
  <2>1. spc'[w] # "remove" /\ (v # w => UNCHANGED <<spc[v], scur[v], states[v]>>)
    BY <1>3, <1>t, Zenon DEF ScanRemove, ScanEnd
  <2>. QED  BY <2>1, Zenon
<1>4. ASSUME NEW w \in Watchers, NEW c \in Containers, ScanVisit(w, c)
      PROVE  Same \/ (/\ UNCHANGED <<world, states>> /\ scur'[v] \in watchContainer
                      /\ canRemoveConf(v, scur'[v]))
  <2>1. CASE UNCHANGED <<spc, scur>>
    BY <1>4, <2>1, Zenon DEF ScanVisit
  <2>2. CASE /\ canRemoveConf(w, c) /\ spc' = [spc EXCEPT ![w] = "remove"]
             /\ scur' = [scur EXCEPT ![w] = c]
    <3>1. UNCHANGED <<world, states>> /\ c \in watchContainer
      BY <1>4, Zenon DEF ScanVisit
    <3>2. CASE v = w
      BY <1>t, <2>2, <3>1, <3>2, Zenon
    <3>3. CASE v # w
      BY <1>t, <2>2, <3>1, <3>3, Zenon
    <3>. QED  BY <3>2, <3>3, Zenon
  <2>. QED  BY <1>4, <2>1, <2>2, Zenon DEF ScanVisit
<1>5. CASE Boot \/ Crash
  BY <1>5, Zenon DEF Boot, Crash
<1>6. ASSUME NEW c \in Containers, Start(c) \/ Die(c) \/ Destroy(c) \/ Log(c) \/ ListEach(c)
      PROVE  UNCHANGED <<spc, scur, states>>
  BY <1>6, Zenon DEF Start, Die, Destroy, Log, ListEach
<1>7. CASE Resubscribe \/ List \/ ListWrite \/ ListEnd \/ EventStart \/ EventWrite \/ EventDie
  BY <1>1, <1>7, Zenon DEF Resubscribe, List, ListWrite, ListEnd, EventStart, EventWrite, EventDie
<1>8. CASE (\E p \in Paths : Harvest(p)) \/ UNCHANGED vars
  BY <1>1, <1>8, Zenon DEF Harvest, vars
<1>. QED  BY <1>1, <1>2, <1>3, <1>4, <1>5, <1>6, <1>7, <1>8, Zenon
             DEF Next, Environment, Main, Events, Scan

\* RemovalAfterRead for every number of containers, watchers and lines: as long as
\* no container is started again, scan of filebeat_piloter.go removes the
\* configuration of an exited container only when filebeat has read its log,
\* whatever else fails.
THEOREM RemovedOnceRead ==
    ASSUME "restart" \notin Faults
    PROVE  Spec => []RemovalAfterRead
<1>1. Init => Down /\ ReadSoFar /\ RemovalAfterRead
  <2>. SUFFICES ASSUME Init PROVE Down /\ ReadSoFar /\ RemovalAfterRead
    BY Zenon
  <2>1. Waiting = {}
    BY DEF Init, Waiting
  <2>2. \A w \in Watchers, p \in Paths : states[w][p] <= offset[p]
    BY DEF Init, Unknown
  <2>3. \A c \in Containers : Path[c] \in Paths
    BY Zenon DEF Paths
  <2>4. \A c \in Containers : /\ offset[Path[c]] <= size[Path[c]]
                              /\ docker[c] # "new" => size[Path[c]] # NoFile
    BY <2>3 DEF Init, Unknown, NoFile
  <2>. QED  BY <2>1, <2>2, <2>4, Zenon DEF Init, Down, ReadSoFar, RemovalAfterRead
<1>2. TypeOK /\ Down /\ ReadSoFar /\ RemovalAfterRead /\ [Next]_vars =>
         Down' /\ ReadSoFar' /\ RemovalAfterRead'
  <2>. SUFFICES ASSUME TypeOK, Down, ReadSoFar, RemovalAfterRead, [Next]_vars,
                       NEW v \in Watchers, NEW c, c = scur'[v], spc'[v] = "remove",
                       docker'[c] = "exited", Path[c] \in AutoMount, states'[v][Path[c]] # Unknown
                PROVE  offset'[Path[c]] = size'[Path[c]]
    BY DownStep, ReadStep, Zenon DEF RemovalAfterRead
  <2>t. Counts /\ c \in Containers
    BY CountsTyped, TypeStep, Zenon DEF TypeOK
  <2>1. CASE spc[v] = "remove" /\ scur'[v] = scur[v] /\ states'[v] = states[v]
    <3>1. Over(c)
      BY <2>1, Zenon DEF Down
    <3>2. docker[c] # "gone"
      <4>1. ASSUME NEW d \in Containers, Start(d) \/ Die(d) \/ Destroy(d) PROVE docker[c] # "gone"
        BY <2>t, <4>1, Zenon DEF Start, Die, Destroy, Counts
      <4>. QED  BY WorldSteps, <4>1, Zenon DEF EventStart, EventDie, Resubscribe, Crash
    <3>3. docker[c] = "exited"
      BY <3>1, <3>2, Zenon DEF Over
    <3>. QED  BY <2>1, <2>t, <3>3, StaysRead, Zenon DEF RemovalAfterRead
  <2>2. CASE /\ UNCHANGED <<world, states>> /\ scur'[v] \in watchContainer
             /\ canRemoveConf(v, scur'[v])
    <3>1. ~Unread(v, Path[c]) /\ docker[c] = "exited"
      BY <2>2, Zenon DEF canRemoveConf
    <3>2. /\ offset[Path[c]] <= size[Path[c]] /\ size[Path[c]] # NoFile
          /\ states[v][Path[c]] <= offset[Path[c]]
          /\ states[v][Path[c]] # Unknown
      BY <2>2, <2>t, <3>1, Zenon DEF ReadSoFar, Counts
    <3>3. states[v][Path[c]] \in Int /\ offset[Path[c]] \in Int /\ size[Path[c]] \in Int
      BY <2>t, Zenon DEF Counts
    <3>4. ~(states[v][Path[c]] < size[Path[c]])
      BY <3>1, <3>2, Zenon DEF Unread
    <3>5. offset[Path[c]] = size[Path[c]]
      BY <3>2, <3>3, <3>4
    <3>. QED  BY <2>2, <3>5, Zenon
  <2>. QED  BY <2>1, <2>2, RemovingSteps, Zenon
<1>. QED  BY <1>1, <1>2, TypeCorrect, PTL DEF Spec
=============================================================================
