------------------------ MODULE ContainerFileProofs ------------------------
(***************************************************************************)
(* Following the files of a container.                                       *)
(*                                                                           *)
(* FluentdPilot, for every number of containers, of starts and of deaths of   *)
(* fluentd: a change of the directory is loaded, or somebody will ask for a   *)
(* reload, or a reload under way has yet to replace the worker, or a request  *)
(* was turned away; and a container in its first life has no timer that could *)
(* take its configuration.                                                    *)
(*                                                                           *)
(* FileTail, for every number of lines, files, connections and of lines kept: *)
(* what was read and not sent is the end of what was read of the file, and    *)
(* what was sent is the end of what lies before it.                           *)
(***************************************************************************)
EXTENDS FluentdPilot, FileTail, TLAPS

Notices == [action : {"start", "die"}, id : Containers]
Nobody == CHOOSE c \in Containers : TRUE

\* The events on their way.
Pending == {events[i] : i \in DOMAIN events}
Told(e, c) == \E m \in Pending : m.action = e /\ m.id = c

\* The items of a sequence that was appended to.
LEMMA AppendItems ==
    ASSUME NEW S, NEW s \in Seq(S), NEW x \in S, NEW t, t = Append(s, x)
    PROVE  t \in Seq(S) /\ {t[i] : i \in DOMAIN t} = {s[i] : i \in DOMAIN s} \cup {x}
<1>1. t \in Seq(S) /\ DOMAIN s = 1 .. Len(s) /\ Len(s) \in Nat
      /\ DOMAIN t = 1 .. Len(s) + 1 /\ t[Len(s) + 1] = x
      /\ \A i \in 1 .. Len(s) : t[i] = s[i]
  OBVIOUS
<1>2. 1 .. Len(s) + 1 = (1 .. Len(s)) \cup {Len(s) + 1}
  BY <1>1
<1>3. \A i \in DOMAIN t : t[i] \in {s[j] : j \in DOMAIN s} \cup {x}
  BY <1>1, <1>2, Zenon
<1>4. \A i \in DOMAIN s : i \in DOMAIN t /\ s[i] = t[i]
  BY <1>1, <1>2, Zenon
<1>5. Len(s) + 1 \in DOMAIN t /\ x = t[Len(s) + 1]
  BY <1>1, <1>2, Zenon
<1>. QED  BY <1>1, <1>3, <1>4, <1>5, Zenon

\* The items of a sequence whose first one was taken off.
LEMMA TailItems ==
    ASSUME NEW S, NEW s \in Seq(S), s # <<>>
    PROVE  /\ Tail(s) \in Seq(S) /\ Head(s) \in S
           /\ {s[i] : i \in DOMAIN s} = {Tail(s)[i] : i \in DOMAIN Tail(s)} \cup {Head(s)}
<1>1. /\ Tail(s) \in Seq(S) /\ Head(s) \in S /\ DOMAIN s = 1 .. Len(s) /\ Len(s) \in Nat \ {0}
      /\ Head(s) = s[1]
  OBVIOUS
<1>2. DOMAIN Tail(s) = 1 .. Len(s) - 1
  BY <1>1
<1>3. \A i \in 1 .. Len(s) - 1 : Tail(s)[i] = s[i + 1]
  BY <1>1
<1>4. \A i \in 1 .. Len(s) : i = 1 \/ (i - 1 \in 1 .. Len(s) - 1 /\ i = (i - 1) + 1)
  BY <1>1
<1>5. \A i \in 1 .. Len(s) - 1 : i + 1 \in 1 .. Len(s)
  BY <1>1
<1>6. 1 \in 1 .. Len(s)
  BY <1>1
<1>7. ASSUME NEW i \in 1 .. Len(s)
      PROVE  s[i] \in {Tail(s)[j] : j \in 1 .. Len(s) - 1} \cup {s[1]}
  <2>1. CASE i = 1
    BY <2>1, Zenon
  <2>2. CASE i - 1 \in 1 .. Len(s) - 1 /\ i = (i - 1) + 1
    <3>1. s[i] = Tail(s)[i - 1]
      BY <1>3, <2>2, Zenon
    <3>. QED  BY <2>2, <3>1, Zenon
  <2>. QED  BY <1>4, <2>1, <2>2, Zenon
<1>. QED  BY <1>1, <1>2, <1>3, <1>5, <1>6, <1>7, Zenon

\* Docker adds one event to those on their way.
LEMMA Noticed ==
    ASSUME events \in Seq(Notices), NEW e \in {"start", "die"}, NEW c \in Containers,
           events' = Append(events, [action |-> e, id |-> c])
    PROVE  /\ events' \in Seq(Notices) /\ Pending \subseteq Pending' /\ Told(e, c)'
           /\ \A m \in Pending' : m \in Pending \/ (m.action = e /\ m.id = c)
<1>. DEFINE r == [action |-> e, id |-> c]
<1>1. events' = Append(events, r) /\ r \in Notices /\ r.action = e /\ r.id = c
  BY DEF Notices
<1>. HIDE DEF r
<1>2. events' \in Seq(Notices) /\ Pending' = Pending \cup {r}
  BY <1>1, AppendItems, SMTT(30) DEF Pending
<1>. QED  BY <1>1, <1>2, Zenon DEF Told

\* The event goroutine takes the first of them.
LEMMA Taken ==
    ASSUME events \in Seq(Notices), events # <<>>, events' = Tail(events)
    PROVE  /\ events' \in Seq(Notices) /\ Head(events).id \in Containers
           /\ Pending = Pending' \cup {Head(events)}
<1>1. /\ events' \in Seq(Notices) /\ Head(events) \in Notices
      /\ Pending = Pending' \cup {Head(events)}
  BY TailItems, Zenon DEF Pending
<1>. QED  BY <1>1, Zenon DEF Notices

\* The types the proofs need; the bounds of the counters are not among them.  The
\* mutex of Pilot keeps the listing and a reload apart.
FluentdTyped ==
    /\ docker \in [Containers -> {"new", "running", "exited"}]
    /\ starts \in [Containers -> Nat] /\ timers \in [Containers -> Nat] /\ removed \in Nat
    /\ events \in Seq(Notices)
    /\ listing \in {"boot", "each", "up"}
    /\ writer \in [Goroutines -> {"idle", "write", "try"}]
    /\ subject \in [Goroutines -> Containers \cup {Nobody}]
    /\ (listing = "each" => ~Locked)

\* Every step keeps these types and the mutex.
LEMMA FluentdTypes == FluentdSpec => []FluentdTyped
<1>1. FluentdInit => FluentdTyped
  <2>. SUFFICES ASSUME FluentdInit PROVE FluentdTyped
    BY Zenon
  <2>1. events \in Seq(Notices)
    BY DEF FluentdInit
  <2>2. 0 \in Nat /\ 1 \in Nat
    OBVIOUS
  <2>3. starts \in [Containers -> Nat] /\ timers \in [Containers -> Nat] /\ removed \in Nat
    BY <2>2, Zenon DEF FluentdInit
  <2>4. docker \in [Containers -> {"new", "running", "exited"}]
    BY Zenon DEF FluentdInit
  <2>. QED  BY <2>1, <2>3, <2>4, Zenon DEF FluentdInit, FluentdTyped, Nobody, Locked
<1>2. FluentdTyped /\ [FluentdNext]_fluentdVars => FluentdTyped'
  <2>. SUFFICES ASSUME FluentdTyped, [FluentdNext]_fluentdVars PROVE FluentdTyped'
    BY Zenon
  <2>. USE DEF world, pilotVars, procVars, workerVars
  <2>g. "main" \in Goroutines /\ "event" \in Goroutines
    BY Zenon DEF Goroutines
  <2>1. ASSUME NEW c \in Containers, ContainerStarts(c) PROVE FluentdTyped'
    <3>1. starts[c] + 1 \in Nat
      BY DEF FluentdTyped
    <3>2. events' \in Seq(Notices)
      BY <2>1, Noticed, Zenon DEF ContainerStarts, FluentdTyped
    <3>. QED  BY <2>1, <3>1, <3>2, Zenon DEF ContainerStarts, FluentdTyped, Locked
  <2>2. ASSUME NEW c \in Containers, ContainerDies(c) PROVE FluentdTyped'
    <3>1. events' \in Seq(Notices)
      BY <2>2, Noticed, Zenon DEF ContainerDies, FluentdTyped
    <3>. QED  BY <2>2, <3>1, Zenon DEF ContainerDies, FluentdTyped, Locked
  <2>3. CASE FluentdDies \/ WorkerReloads
    BY <2>3, Zenon DEF FluentdDies, WorkerReloads, FluentdTyped, Locked
  <2>4. CASE ListContainers \/ ListDone
    BY <2>4, Zenon DEF ListContainers, ListDone, FluentdTyped, Locked
  <2>5. ASSUME NEW c \in Containers, ListNext(c) PROVE FluentdTyped'
    BY <2>5, <2>g, ZenonT(30) DEF ListNext, FluentdTyped, Locked
  <2>6. ASSUME NEW g \in Goroutines, NewContainer(g) PROVE FluentdTyped'
    BY <2>6, Zenon DEF NewContainer, FluentdTyped, Locked
  <2>r. tryReload /\ UNCHANGED listing => (listing' = "each" => ~Locked')
    BY Zenon DEF tryReload, Locked, FluentdTyped
  <2>7. ASSUME NEW g \in Goroutines, AskReload(g) PROVE FluentdTyped'
    BY <2>7, <2>r, Zenon DEF AskReload, FluentdTyped
  <2>8. CASE StartEvent
    <3>1. events' \in Seq(Notices) /\ Head(events).id \in Containers
      BY <2>8, Taken, Zenon DEF StartEvent, Receive, FluentdTyped
    <3>. QED  BY <2>8, <2>g, <3>1, Zenon DEF StartEvent, FluentdTyped, Locked
  <2>9. CASE DieEvent
    <3>1. events' \in Seq(Notices) /\ Head(events).id \in Containers
      BY <2>9, Taken, Zenon DEF DieEvent, Receive, FluentdTyped
    <3>2. timers[Head(events).id] + 1 \in Nat
      BY <3>1 DEF FluentdTyped
    <3>. QED  BY <2>9, <3>1, <3>2, Zenon DEF DieEvent, FluentdTyped, Locked
  <2>10. ASSUME NEW c \in Containers, Clean(c) PROVE FluentdTyped'
    <3>1. timers[c] - 1 \in Nat
      BY <2>10 DEF Clean, FluentdTyped
    <3>2. removed' \in Nat
      BY <2>10 DEF Clean, FluentdTyped
    <3>. QED  BY <2>10, <3>1, <3>2, Zenon DEF Clean, FluentdTyped, Locked
  <2>11. CASE CleanReload
    <3>1. removed' \in Nat
      BY <2>11 DEF CleanReload, FluentdTyped
    <3>. QED  BY <2>11, <2>r, <3>1, Zenon DEF CleanReload, FluentdTyped
  <2>12. CASE Ready \/ Lock \/ CheckStarted \/ ReadPid \/ Signal \/ KillWorker
    <3>1. listing' = "each" => ~Locked'
      BY <2>12, Zenon DEF Ready, Lock, CheckStarted, ReadPid, Signal, KillWorker,
         FluentdTyped, Locked
    <3>. QED  BY <2>12, <3>1, Zenon DEF Ready, Lock, CheckStarted, ReadPid, Signal,
                 KillWorker, FluentdTyped
  <2>13. CASE WaitReturns \/ Restart \/ Exec
    BY <2>13, Zenon DEF WaitReturns, Restart, Exec, FluentdTyped, Locked
  <2>14. CASE UNCHANGED fluentdVars
    BY <2>14, Zenon DEF fluentdVars, FluentdTyped, Locked
  <2>. QED  BY <2>g, <2>1, <2>2, <2>3, <2>4, <2>5, <2>6, <2>7, <2>8, <2>9, <2>10, <2>11,
               <2>12, <2>13,
               <2>14, Zenon
               DEF FluentdNext, World, MainStep, EventStep, TimerStep, ReloadStep, WatchdogStep
<1>. QED  BY <1>1, <1>2, PTL DEF FluentdSpec

\* A worker that has not read the directory as it is, and no request since then
\* turned away: somebody is about to ask for a reload, or one is under way that
\* has yet to replace the worker.  A process that runs is the one Start assigned.
ReloadComing ==
    /\ alive => fluentd = "started" /\ watchdog = "waiting"
    /\ alive /\ loaded # confs /\ ~refused =>
          \/ removed > 0 \/ \E g \in Goroutines : writer[g] = "try"
          \/ reloader \in {"asked", "sleep", "pid"}
          \/ reloader \in {"signal", "check"} /\ ~fresh

\* UnloadedWasRefused for every number of containers, starts and deaths of
\* fluentd: Reload leaves no change of the directory behind that no request was
\* turned away for.
THEOREM ChangesAreLoaded == FluentdSpec => []UnloadedWasRefused
<1>1. FluentdInit => ReloadComing
  BY Zenon DEF FluentdInit, ReloadComing
<1>2. FluentdTyped /\ ReloadComing /\ [FluentdNext]_fluentdVars => ReloadComing'
  <2>. SUFFICES ASSUME FluentdTyped, ReloadComing, [FluentdNext]_fluentdVars PROVE ReloadComing'
    BY Zenon
  <2>. USE DEF world, pilotVars, procVars, workerVars
  <2>g. "main" \in Goroutines /\ "event" \in Goroutines
    BY Zenon DEF Goroutines
  <2>w. ASSUME WorkerStarts, UNCHANGED confs, alive' => fluentd' = "started" /\ watchdog' = "waiting"
        PROVE  ReloadComing'
    BY <2>w, Zenon DEF WorkerStarts, ReloadComing
  <2>1. CASE \E c \in Containers : ContainerStarts(c) \/ ContainerDies(c) \/ ListNext(c)
    <3>1. UNCHANGED <<alive, fluentd, watchdog, loaded, confs, refused, removed, reloader, fresh>>
      BY <2>1, Zenon DEF ContainerStarts, ContainerDies, ListNext
    <3>2. \A g \in Goroutines : writer[g] = "try" => writer'[g] = "try"
      BY <2>1, <2>g, Zenon DEF ContainerStarts, ContainerDies, ListNext, FluentdTyped
    <3>. QED  BY <3>1, <3>2, Zenon DEF ReloadComing
  <2>2. CASE FluentdDies \/ WorkerReloads
    BY <2>2, <2>w, Zenon DEF FluentdDies, WorkerReloads, ReloadComing
  <2>3. CASE ListContainers \/ ListDone \/ DieEvent
    BY <2>3 DEF ListContainers, ListDone, DieEvent, ReloadComing
  <2>4. ASSUME NEW g \in Goroutines, NewContainer(g) PROVE ReloadComing'
    <3>0. UNCHANGED <<alive, fluentd, watchdog, loaded, refused, removed, reloader, fresh>>
          /\ writer[g] = "write"
      BY <2>4, Zenon DEF NewContainer
    <3>1. CASE writer' = [writer EXCEPT ![g] = "try"]
      <4>1. writer'[g] = "try"
        BY <3>1, Zenon DEF FluentdTyped
      <4>. QED  BY <3>0, <4>1, Zenon DEF ReloadComing
    <3>2. CASE writer' = [writer EXCEPT ![g] = "idle"] /\ UNCHANGED confs
      <4>1. \A h \in Goroutines : writer[h] = "try" => writer'[h] = "try"
        BY <3>0, <3>2, Zenon DEF FluentdTyped
      <4>. QED  BY <3>0, <3>2, <4>1, Zenon DEF ReloadComing
    <3>. QED  BY <2>4, <3>1, <3>2, Zenon DEF NewContainer
  <2>t. ASSUME tryReload, UNCHANGED <<alive, fluentd, watchdog>> PROVE ReloadComing'
    BY <2>t, Zenon DEF tryReload, ReloadComing
  <2>5. CASE CleanReload \/ \E g \in Goroutines : AskReload(g)
    BY <2>5, <2>t, Zenon DEF CleanReload, AskReload
  <2>6. CASE StartEvent
    <3>1. UNCHANGED <<alive, fluentd, watchdog, loaded, confs, refused, removed, reloader, fresh>>
      BY <2>6, Zenon DEF StartEvent
    <3>2. \A g \in Goroutines : writer[g] = "try" => writer'[g] = "try"
      BY <2>6, <2>g, Zenon DEF StartEvent, Receive, FluentdTyped
    <3>. QED  BY <3>1, <3>2, Zenon DEF ReloadComing
  <2>7. ASSUME NEW c \in Containers, Clean(c) PROVE ReloadComing'
    <3>1. UNCHANGED <<alive, fluentd, watchdog, loaded, refused, writer, reloader, fresh>>
      BY <2>7, Zenon DEF Clean
    <3>2. CASE c \in confs
      <4>1. removed' > 0
        BY <2>7, <3>2 DEF Clean, FluentdTyped
      <4>. QED  BY <3>1, <4>1, Zenon DEF ReloadComing
    <3>3. CASE c \notin confs
      <4>1. removed' = removed /\ confs' = confs
        BY <2>7, <3>3 DEF Clean, FluentdTyped
      <4>. QED  BY <3>1, <4>1, Zenon DEF ReloadComing
    <3>. QED  BY <3>2, <3>3, Zenon
  <2>8. CASE Ready \/ Lock \/ CheckStarted
    BY <2>8 DEF Ready, Lock, CheckStarted, ReloadComing
  <2>9. CASE ReadPid
    BY <2>9, Zenon DEF ReadPid, ReloadComing
  <2>10. CASE Signal
    BY <2>10, Zenon DEF Signal, ReloadComing
  <2>11. CASE KillWorker
    <3>1. CASE ~fresh /\ alive
      BY <2>11, <2>w, <3>1, Zenon DEF KillWorker, ReloadComing
    <3>2. CASE fresh \/ ~alive
      BY <2>11, <3>2, Zenon DEF KillWorker, ReloadComing
    <3>. QED  BY <3>1, <3>2, Zenon
  <2>12. CASE WaitReturns \/ Restart
    BY <2>12 DEF WaitReturns, Restart, ReloadComing
  <2>13. CASE Exec
    BY <2>13, <2>w DEF Exec, ReloadComing
  <2>14. CASE UNCHANGED fluentdVars
    BY <2>14, Zenon DEF fluentdVars, ReloadComing
  <2>. QED  BY <2>g, <2>1, <2>2, <2>3, <2>4, <2>5, <2>6, <2>7, <2>8, <2>9, <2>10, <2>11,
               <2>12, <2>13,
               <2>14, Zenon
               DEF FluentdNext, World, MainStep, EventStep, TimerStep, ReloadStep, WatchdogStep
<1>3. FluentdTyped /\ ReloadComing => UnloadedWasRefused
  <2>. SUFFICES ASSUME FluentdTyped, ReloadComing, reloader \in {"back", "wait"}, alive, removed = 0,
                       \A g \in Goroutines : writer[g] # "try"
                PROVE  loaded = confs \/ refused
    BY Zenon DEF UnloadedWasRefused
  <2>1. ~(removed > 0)
    OBVIOUS
  <2>. QED  BY <2>1, Zenon DEF ReloadComing
<1>. QED  BY <1>1, <1>2, <1>3, FluentdTypes, PTL DEF FluentdSpec

\* A container that was never down has neither a timer nor a die event.  From the
\* listing on, one that runs for the first time has its file, or is still to be
\* listed, to be told of or to be written, unless newContainer has failed.
FirstLife ==
    /\ listing # "each" => todo = {}
    /\ \A c \in Containers : docker[c] = "new" <=> starts[c] = 0
    /\ \A c \in Containers : starts[c] = 0 \/ (starts[c] = 1 /\ docker[c] = "running") =>
          timers[c] = 0 /\ ~Told("die", c)
    /\ listing # "boot" =>
          \A c \in Containers \ failed : docker[c] = "running" /\ starts[c] = 1 =>
             \/ c \in confs \/ Told("start", c) \/ c \in todo
             \/ \E g \in Goroutines : writer[g] = "write" /\ subject[g] = c

\* Every step keeps FirstLife: only a die event sets a timer, and a container in
\* its first life has had none.
LEMMA FirstLifeStep ==
    ASSUME FluentdTyped, FirstLife, [FluentdNext]_fluentdVars
    PROVE  FirstLife'
<1>. USE DEF world, pilotVars, procVars, workerVars
<1>. DEFINE Fresh(c) == starts[c] = 0 \/ (starts[c] = 1 /\ docker[c] = "running")
            Cared(c) == \/ c \in confs \/ Told("start", c) \/ c \in todo
                        \/ \E g \in Goroutines : writer[g] = "write" /\ subject[g] = c
<1>g. "main" \in Goroutines /\ "event" \in Goroutines /\ "main" # "event"
  BY Zenon DEF Goroutines
<1>q. ASSUME UNCHANGED <<world, confs, failed, listing, todo, writer, subject, timers>> PROVE FirstLife'
  <2>1. Pending' = Pending
    BY <1>q, Zenon DEF Pending
  <2>. QED  BY <1>q, <2>1, ZenonT(30) DEF FirstLife, Told
<1>1. ASSUME NEW d \in Containers, ContainerStarts(d) PROVE FirstLife'
  <2>1. /\ UNCHANGED <<confs, failed, listing, todo, writer, subject, timers>>
        /\ Pending \subseteq Pending' /\ Told("start", d)'
        /\ \A m \in Pending' : m \in Pending \/ m.action = "start"
    BY <1>1, Noticed, Zenon DEF ContainerStarts, FluentdTyped
  <2>2. \A c \in Containers : c # d => docker'[c] = docker[c] /\ starts'[c] = starts[c]
    BY <1>1, Zenon DEF ContainerStarts, FluentdTyped
  <2>3. docker'[d] = "running" /\ starts'[d] = starts[d] + 1 /\ starts[d] \in Nat
    BY <1>1, Zenon DEF ContainerStarts, FluentdTyped
  <2>4. starts'[d] # 0 /\ (starts'[d] = 1 => starts[d] = 0)
    BY <2>3
  <2>5. \A c : Told("die", c)' => Told("die", c)
    BY <2>1, Zenon DEF Told
  <2>6. \A c : Told("start", c) => Told("start", c)'
    BY <2>1, Zenon DEF Told
  <2>7. \A c \in Containers : docker'[c] = "new" <=> starts'[c] = 0
    <3>1. \A c \in Containers : docker[c] = "new" <=> starts[c] = 0
      BY Zenon DEF FirstLife
    <3>2. ASSUME NEW c \in Containers, c # d PROVE docker'[c] = "new" <=> starts'[c] = 0
      BY <2>2, <3>1, <3>2, Zenon
    <3>. QED  BY <2>3, <2>4, <3>2, Zenon
  <2>8. ASSUME NEW c \in Containers, starts'[c] = 0 \/ (starts'[c] = 1 /\ docker'[c] = "running")
        PROVE  timers'[c] = 0 /\ ~Told("die", c)'
    <3>1. starts[c] = 0 \/ (starts[c] = 1 /\ docker[c] = "running")
      BY <2>2, <2>4, <2>8, Zenon
    <3>. QED  BY <2>1, <2>5, <3>1, Zenon DEF FirstLife
  <2>9. ASSUME listing' # "boot", NEW c \in Containers \ failed', docker'[c] = "running", starts'[c] = 1
        PROVE  Cared(c)'
    <3>1. CASE c = d
      BY <2>1, <3>1, Zenon
    <3>2. CASE c # d
      BY <2>1, <2>2, <2>6, <2>9, <3>2, ZenonT(30) DEF FirstLife
    <3>. QED  BY <3>1, <3>2, Zenon
  <2>. QED  BY <2>1, <2>7, <2>8, <2>9, Zenon DEF FirstLife
<1>2. ASSUME NEW d \in Containers, ContainerDies(d) PROVE FirstLife'
  <2>1. /\ UNCHANGED <<starts, confs, failed, listing, todo, writer, subject, timers>>
        /\ Pending \subseteq Pending'
        /\ \A m \in Pending' : m \in Pending \/ (m.action = "die" /\ m.id = d)
    BY <1>2, Noticed, Zenon DEF ContainerDies, FluentdTyped
  <2>2. /\ \A c \in Containers : c # d => docker'[c] = docker[c]
        /\ docker[d] = "running" /\ docker'[d] = "exited"
    BY <1>2, Zenon DEF ContainerDies, FluentdTyped
  <2>3. starts[d] # 0
    BY <2>2, Zenon DEF FirstLife
  <2>5. \A c : c # d /\ Told("die", c)' => Told("die", c)
    BY <2>1, Zenon DEF Told
  <2>6. \A c : Told("start", c) => Told("start", c)'
    BY <2>1, Zenon DEF Told
  <2>7. \A c \in Containers : docker'[c] = "new" <=> starts'[c] = 0
    <3>1. \A c \in Containers : docker[c] = "new" <=> starts[c] = 0
      BY Zenon DEF FirstLife
    <3>2. ASSUME NEW c \in Containers, c # d PROVE docker'[c] = "new" <=> starts'[c] = 0
      BY <2>1, <2>2, <3>1, <3>2, Zenon
    <3>. QED  BY <2>1, <2>2, <2>3, <3>2, Zenon
  <2>8. ASSUME NEW c \in Containers, starts'[c] = 0 \/ (starts'[c] = 1 /\ docker'[c] = "running")
        PROVE  timers'[c] = 0 /\ ~Told("die", c)'
    <3>1. c # d
      BY <2>1, <2>2, <2>3, <2>8, Zenon
    <3>. QED  BY <2>1, <2>2, <2>5, <2>8, <3>1, Zenon DEF FirstLife
  <2>9. ASSUME listing' # "boot", NEW c \in Containers \ failed', docker'[c] = "running", starts'[c] = 1
        PROVE  Cared(c)'
    BY <2>1, <2>2, <2>6, <2>9, ZenonT(30) DEF FirstLife
  <2>. QED  BY <2>1, <2>7, <2>8, <2>9, Zenon DEF FirstLife
<1>3. ASSUME UNCHANGED <<world, timers>>, listing' # "each" => todo' = {},
             \A c \in Containers \ failed' :
                listing' # "boot" /\ docker[c] = "running" /\ starts[c] = 1 => Cared(c)'
      PROVE  FirstLife'
  <2>1. Pending' = Pending
    BY <1>3, Zenon DEF Pending
  <2>. QED  BY <1>3, <2>1, Zenon DEF FirstLife, Told
<1>4. CASE ListContainers
  BY <1>3, <1>4, Zenon DEF ListContainers
<1>5. ASSUME NEW d \in Containers, ListNext(d) PROVE FirstLife'
  <2>1. UNCHANGED <<world, confs, failed, listing, timers>> /\ listing = "each" /\ todo' = todo \ {d}
        /\ Pending' = Pending /\ writer["main"] = "idle"
    BY <1>5, Zenon DEF ListNext, Pending
  <2>2. \A g \in Goroutines : writer[g] = "write" => writer'[g] = "write" /\ subject'[g] = subject[g]
    BY <1>5, <1>g, Zenon DEF ListNext, FluentdTyped
  <2>3. d \in confs \/ (writer'["main"] = "write" /\ subject'["main"] = d)
    BY <1>5, <1>g, Zenon DEF ListNext, FluentdTyped
  <2>4. ASSUME NEW c \in Containers \ failed, docker[c] = "running", starts[c] = 1 PROVE Cared(c)'
    <3>1. CASE c = d
      BY <1>g, <2>1, <2>3, <3>1, Zenon
    <3>2. CASE c # d
      <4>1. Cared(c)
        BY <2>1, <2>4, Zenon DEF FirstLife
      <4>. QED  BY <2>1, <2>2, <3>2, <4>1, Zenon DEF Told
    <3>. QED  BY <3>1, <3>2, Zenon
  <2>. QED  BY <1>3, <2>1, <2>4, Zenon
<1>6. CASE ListDone
  <2>1. UNCHANGED <<world, confs, failed, todo, writer, subject, timers>>
        /\ todo = {} /\ listing = "each"
        /\ Pending' = Pending
    BY <1>6, Zenon DEF ListDone, Pending
  <2>2. ASSUME NEW c \in Containers \ failed, docker[c] = "running", starts[c] = 1 PROVE Cared(c)'
    BY <2>1, <2>2, Zenon DEF FirstLife, Told
  <2>. QED  BY <1>3, <2>1, <2>2, Zenon
<1>7. ASSUME NEW h \in Goroutines, NewContainer(h) PROVE FirstLife'
  <2>1. UNCHANGED <<world, listing, todo, subject, timers>> /\ Pending' = Pending
        /\ confs \subseteq confs' /\ failed \subseteq failed'
        /\ (subject[h] \in confs' \/ subject[h] \in failed')
    BY <1>7, Zenon DEF NewContainer, Pending
  <2>2. \A g \in Goroutines : g # h => writer'[g] = writer[g]
    BY <1>7, Zenon DEF NewContainer, FluentdTyped
  <2>3. ASSUME NEW c \in Containers \ failed', listing' # "boot", docker[c] = "running", starts[c] = 1
        PROVE  Cared(c)'
    <3>1. Cared(c)
      BY <2>1, <2>3, Zenon DEF FirstLife
    <3>2. c = subject[h] => c \in confs'
      BY <2>1, <2>3, Zenon
    <3>. QED  BY <2>1, <2>2, <3>1, <3>2, Zenon DEF Told
  <2>4. listing' # "each" => todo' = {}
    BY <2>1, Zenon DEF FirstLife
  <2>. QED  BY <1>3, <2>1, <2>3, <2>4, Zenon
<1>8. ASSUME NEW h \in Goroutines, AskReload(h) PROVE FirstLife'
  <2>1. UNCHANGED <<world, confs, failed, listing, todo, subject, timers>> /\ Pending' = Pending
    BY <1>8, Zenon DEF AskReload, Pending
  <2>2. \A g \in Goroutines : writer[g] = "write" => writer'[g] = "write"
    BY <1>8, Zenon DEF AskReload, FluentdTyped
  <2>3. ASSUME NEW c \in Containers \ failed', listing' # "boot", docker[c] = "running", starts[c] = 1
        PROVE  Cared(c)'
    BY <2>1, <2>2, <2>3, Zenon DEF FirstLife, Told
  <2>4. listing' # "each" => todo' = {}
    BY <2>1, Zenon DEF FirstLife
  <2>. QED  BY <1>3, <2>1, <2>3, <2>4, Zenon
<1>9. CASE StartEvent
  <2>1. UNCHANGED <<docker, starts, confs, failed, listing, todo, timers>>
        /\ Pending = Pending' \cup {Head(events)} /\ writer["event"] = "idle"
    BY <1>9, Taken, Zenon DEF StartEvent, Receive, FluentdTyped
  <2>2. \A g \in Goroutines : writer[g] = "write" => writer'[g] = "write" /\ subject'[g] = subject[g]
    BY <1>9, <1>g, Zenon DEF StartEvent, Receive, FluentdTyped
  <2>3. \/ Head(events).id \in confs
        \/ writer'["event"] = "write" /\ subject'["event"] = Head(events).id
    BY <1>9, <1>g, Zenon DEF StartEvent, FluentdTyped
  <2>4. \A c : Told("die", c)' => Told("die", c)
    BY <2>1, Zenon DEF Told
  <2>5. \A c : c # Head(events).id /\ Told("start", c) => Told("start", c)'
    BY <2>1, Zenon DEF Told
  <2>6. ASSUME NEW c \in Containers \ failed, listing # "boot", docker[c] = "running", starts[c] = 1
        PROVE  Cared(c)'
    <3>1. CASE c = Head(events).id
      BY <1>g, <2>1, <2>3, <3>1, Zenon
    <3>2. CASE c # Head(events).id
      <4>1. Cared(c)
        BY <2>6, Zenon DEF FirstLife
      <4>. QED  BY <2>1, <2>2, <2>5, <3>2, <4>1, Zenon
    <3>. QED  BY <3>1, <3>2, Zenon
  <2>. QED  BY <2>1, <2>4, <2>6, Zenon DEF FirstLife
<1>10. CASE DieEvent
  <2>. DEFINE d == Head(events).id
  <2>1. UNCHANGED <<docker, starts, confs, failed, listing, todo, writer, subject>>
        /\ Pending = Pending' \cup {Head(events)} /\ d \in Containers /\ Head(events).action = "die"
    BY <1>10, Taken, Zenon DEF DieEvent, Receive, FluentdTyped
  <2>2. \A c \in Containers : c # d => timers'[c] = timers[c]
    BY <1>10, <2>1, Zenon DEF DieEvent, FluentdTyped
  <2>3. \A c : Told("die", c)' => Told("die", c)
    BY <2>1, Zenon DEF Told
  <2>4. Told("die", d)
    BY <2>1, Zenon DEF Told
  <2>5. \A c : Told("start", c) => Told("start", c)'
    BY <2>1, Zenon DEF Told
  <2>. HIDE DEF d
  <2>6. \A c \in Containers : starts[c] = 0 \/ (starts[c] = 1 /\ docker[c] = "running") =>
           timers'[c] = 0 /\ ~Told("die", c)'
    BY <2>2, <2>3, <2>4, Zenon DEF FirstLife
  <2>7. ASSUME NEW c \in Containers \ failed, listing # "boot", docker[c] = "running", starts[c] = 1
        PROVE  Cared(c)'
    BY <2>1, <2>5, <2>7, Zenon DEF FirstLife
  <2>. QED  BY <2>1, <2>6, <2>7, Zenon DEF FirstLife
<1>11. ASSUME NEW d \in Containers, Clean(d) PROVE FirstLife'
  <2>1. UNCHANGED <<world, failed, listing, todo, writer, subject>> /\ confs' = confs \ {d}
        /\ Pending' = Pending
    BY <1>11, Zenon DEF Clean, Pending
  <2>2. \A c \in Containers : c # d => timers'[c] = timers[c]
    BY <1>11, Zenon DEF Clean, FluentdTyped
  <2>3. timers[d] # 0
    BY <1>11 DEF Clean, FluentdTyped
  <2>4. \A c \in Containers : starts[c] = 0 \/ (starts[c] = 1 /\ docker[c] = "running") => c # d
    BY <2>3, Zenon DEF FirstLife
  <2>5. ASSUME NEW c \in Containers \ failed, listing # "boot", docker[c] = "running", starts[c] = 1
        PROVE  Cared(c)'
    BY <2>1, <2>4, <2>5, Zenon DEF FirstLife, Told
  <2>6. \A c \in Containers : starts[c] = 0 \/ (starts[c] = 1 /\ docker[c] = "running") =>
           timers'[c] = 0 /\ ~Told("die", c)'
    BY <2>1, <2>2, <2>4, ZenonT(30) DEF FirstLife, Told
  <2>. QED  BY <2>1, <2>5, <2>6, Zenon DEF FirstLife
<1>12. CASE FluentdDies \/ WorkerReloads \/ CleanReload \/ ReloadStep \/ WatchdogStep
  BY <1>12, <1>q, Zenon DEF FluentdDies, WorkerReloads, CleanReload, ReloadStep, Ready, Lock,
     CheckStarted, ReadPid, Signal, KillWorker, WatchdogStep, WaitReturns, Restart, Exec
<1>13. CASE UNCHANGED fluentdVars
  BY <1>13, <1>q, Zenon DEF fluentdVars
<1>. QED  BY <1>g, <1>1, <1>2, <1>4, <1>5, <1>6, <1>7, <1>8, <1>9, <1>10, <1>11, <1>12, <1>13, Zenon
             DEF FluentdNext, World, MainStep, EventStep, TimerStep

\* KeptWhileRunning for every number of containers, starts and deaths of fluentd:
\* what newContainer has written for a container that runs for the first time is
\* not taken away by clean.
THEOREM FirstLifeKept == FluentdSpec => []KeptWhileRunning
<1>1. FluentdInit => FirstLife
  <2>. SUFFICES ASSUME FluentdInit PROVE FirstLife
    BY Zenon
  <2>1. Pending = {}
    BY DEF FluentdInit, Pending
  <2>2. \A c \in Containers : docker[c] = "new" <=> starts[c] = 0
    BY DEF FluentdInit
  <2>. QED  BY <2>1, <2>2, Zenon DEF FluentdInit, FirstLife, Told
<1>2. FirstLife => KeptWhileRunning
  <2>. SUFFICES ASSUME FirstLife, NEW c \in Containers \ failed, docker[c] = "running", starts[c] = 1,
                       listing = "up", \A i \in DOMAIN events : events[i].id # c,
                       \A g \in Goroutines : writer[g] = "write" => subject[g] # c
                PROVE  c \in confs
    BY Zenon DEF KeptWhileRunning
  <2>1. ~Told("start", c)
    BY Zenon DEF Told, Pending
  <2>. QED  BY <2>1, Zenon DEF FirstLife
<1>. QED  BY <1>1, <1>2, FirstLifeStep, FluentdTypes, PTL DEF FluentdSpec

-----------------------------------------------------------------------------

\* a is the end of the first n of the lines.
IsEnd(a, lines, n) ==
    /\ n \in Nat /\ n <= Len(lines) /\ Len(a) <= n
    /\ \A i \in 1 .. Len(a) : a[i] = lines[n - Len(a) + i]

\* Of n lines all are there, or as many as are shown at first.
Enough(a, n) == Len(a) = n \/ Len(a) >= KeepLines

\* Positions in an end and in the lines.
LEMMA ShiftedIndex ==
    ASSUME NEW n \in Nat, NEW k \in Nat, NEW l \in Nat, k <= n, n <= l, NEW i \in 1 .. k
    PROVE  n - k + i \in 1 .. l
  OBVIOUS

\* Positions in the second of two sequences.
LEMMA SecondPart ==
    ASSUME NEW k \in Nat, NEW l \in Nat, NEW i \in k + 1 .. k + l
    PROVE  i - k \in 1 .. l
  OBVIOUS

\* The next line makes the end longer.
LEMMA EndAppend ==
    ASSUME NEW a \in Seq(Int), NEW lines \in Seq(Int), NEW n, IsEnd(a, lines, n), n < Len(lines)
    PROVE  IsEnd(Append(a, lines[n + 1]), lines, n + 1)
<1> DEFINE b == Append(a, lines[n + 1])
<1>1. lines[n + 1] \in Int /\ n \in Nat /\ Len(a) \in Nat /\ Len(lines) \in Nat
  BY DEF IsEnd
<1>2. Len(b) = Len(a) + 1 /\ b[Len(a) + 1] = lines[n + 1]
  BY <1>1
<1>3. \A i \in 1 .. Len(a) : b[i] = a[i]
  BY <1>1
<1> HIDE DEF b
<1>4. ASSUME NEW i \in 1 .. Len(b) PROVE b[i] = lines[n + 1 - Len(b) + i]
  <2>1. CASE i = Len(a) + 1
    BY <1>1, <1>2, <2>1
  <2>2. CASE i \in 1 .. Len(a)
    <3>1. b[i] = lines[n - Len(a) + i]
      BY <1>3, <2>2, Zenon DEF IsEnd
    <3> QED
      BY <1>1, <1>2, <3>1
  <2> QED
    BY <1>1, <1>2, <2>1, <2>2
<1>5. n + 1 \in Nat /\ n + 1 <= Len(lines) /\ Len(b) <= n + 1
  <2>1. Len(a) <= n
    BY Zenon DEF IsEnd
  <2> QED
    BY <1>1, <1>2, <2>1
<1>6. IsEnd(b, lines, n + 1)
  BY <1>4, <1>5, SMT DEF IsEnd
<1> QED
  BY <1>6, Zenon DEF b

\* Without its first line an end is one still.
LEMMA EndTail ==
    ASSUME NEW a \in Seq(Int), NEW lines \in Seq(Int), NEW n, IsEnd(a, lines, n), Len(a) > 0
    PROVE  IsEnd(Tail(a), lines, n)
<1> DEFINE b == Tail(a)
<1>1. /\ n \in Nat /\ Len(a) \in Nat /\ Len(lines) \in Nat /\ a # <<>>
      /\ n <= Len(lines) /\ Len(a) <= n
  BY DEF IsEnd
<1>2. Len(b) = Len(a) - 1 /\ \A i \in 1 .. Len(b) : b[i] = a[i + 1]
  BY <1>1
<1> HIDE DEF b
<1>3. ASSUME NEW i \in 1 .. Len(b) PROVE b[i] = lines[n - Len(b) + i]
  <2>1. i + 1 \in 1 .. Len(a)
    BY <1>1, <1>2
  <2>2. a[i + 1] = lines[n - Len(a) + (i + 1)]
    BY <2>1 DEF IsEnd
  <2>3. n - Len(a) + (i + 1) = n - Len(b) + i
    BY <1>1, <1>2
  <2> QED
    BY <1>2, <2>2, <2>3, Zenon
<1>4. Len(b) <= n
  BY <1>1, <1>2
<1>5. IsEnd(b, lines, n)
  BY <1>1, <1>3, <1>4, Zenon DEF IsEnd
<1> QED
  BY <1>5, Zenon DEF b

\* An end and the end before it make a longer one.
LEMMA EndConcat ==
    ASSUME NEW m \in Seq(Int), NEW a \in Seq(Int), NEW lines \in Seq(Int), NEW n,
           IsEnd(a, lines, n), IsEnd(m, lines, n - Len(a))
    PROVE  IsEnd(m \o a, lines, n)
<1> DEFINE b == m \o a
<1>1. /\ n \in Nat /\ Len(a) \in Nat /\ Len(m) \in Nat /\ Len(lines) \in Nat
      /\ n <= Len(lines) /\ Len(a) <= n /\ Len(m) <= n - Len(a)
  BY DEF IsEnd
<1>2. /\ Len(b) = Len(m) + Len(a)
      /\ \A i \in 1 .. Len(m) : b[i] = m[i]
      /\ \A i \in Len(m) + 1 .. Len(b) : b[i] = a[i - Len(m)]
  BY <1>1
<1> HIDE DEF b
<1>3. ASSUME NEW i \in 1 .. Len(b) PROVE b[i] = lines[n - Len(b) + i]
  <2>1. CASE i \in 1 .. Len(m)
    <3>1. b[i] = lines[n - Len(a) - Len(m) + i]
      BY <1>2, <2>1, Zenon DEF IsEnd
    <3>2. n - Len(a) - Len(m) + i = n - Len(b) + i
      BY <1>1, <1>2
    <3> QED
      BY <3>1, <3>2
  <2>2. CASE i \in Len(m) + 1 .. Len(b)
    <3>1. i - Len(m) \in 1 .. Len(a)
      BY <1>1, <1>2, <2>2, SecondPart, Zenon
    <3>2. a[i - Len(m)] = lines[n - Len(a) + (i - Len(m))]
      BY <3>1, Zenon DEF IsEnd
    <3>3. n - Len(a) + (i - Len(m)) = n - Len(b) + i
      BY <1>1, <1>2
    <3> QED
      BY <1>2, <2>2, <3>2, <3>3
  <2> QED
    BY <1>1, <1>2, <2>1, <2>2
<1>4. Len(b) <= n
  BY <1>1, <1>2
<1>5. IsEnd(b, lines, n)
  BY <1>1, <1>3, <1>4, Zenon DEF IsEnd
<1> QED
  BY <1>5, Zenon DEF b

\* What was written to a file later does not move the end of what was read.
LEMMA EndLonger ==
    ASSUME NEW a \in Seq(Int), NEW lines \in Seq(Int), NEW more \in Seq(Int), NEW n,
           IsEnd(a, lines, n), Len(lines) <= Len(more),
           \A i \in 1 .. Len(lines) : more[i] = lines[i]
    PROVE  IsEnd(a, more, n)
<1>1. /\ n \in Nat /\ Len(a) \in Nat /\ Len(lines) \in Nat /\ Len(more) \in Nat
      /\ n <= Len(lines) /\ Len(a) <= n
  BY DEF IsEnd
<1>2. ASSUME NEW i \in 1 .. Len(a) PROVE a[i] = more[n - Len(a) + i]
  <2>1. n - Len(a) + i \in 1 .. Len(lines)
    BY <1>1, ShiftedIndex, Zenon
  <2> QED
    BY <2>1 DEF IsEnd
<1> QED
  BY <1>1, <1>2 DEF IsEnd

-----------------------------------------------------------------------------
USE TailAssumption DEF TailAssumption, Sessions

\* TailFile has the file open.
Reading(s) == node[s] \in {"lines", "pass", "read"}

Lines == 1 .. MaxLines
NodeStates == {"none", "locate", "start", "open", "lines", "pass", "read", "over", "crashed"}

\* The types, with what keeps a reader inside its file.
TailTyped ==
    /\ TailTypeOK
    /\ present => Len(files) > 0
    /\ \A f \in 1 .. Len(files) : Len(files[f]) <= written
    /\ \A s \in Sessions : Reading(s) => opened[s] \in 1 .. Len(files)

\* The pod and the file.
LEMMA WorldTypes ==
    ASSUME TailTyped, WorldStep
    PROVE  TailTyped'
<1>1. /\ files \in Seq(Seq(Lines)) /\ Len(files) <= MaxFiles /\ Len(files) \in Nat
      /\ cut \subseteq 1 .. MaxFiles /\ written \in 0 .. MaxLines
      /\ present \in BOOLEAN /\ pod \in {"none", "pending", "running"}
      /\ present => Len(files) > 0
      /\ \A f \in 1 .. Len(files) : Len(files[f]) <= written /\ Len(files[f]) \in Nat
                                    /\ files[f] \in Seq(Lines)
  <2>1. /\ files \in Seq(Seq(Lines)) /\ Len(files) <= MaxFiles
        /\ cut \subseteq 1 .. MaxFiles /\ written \in 0 .. MaxLines
        /\ present \in BOOLEAN /\ pod \in {"none", "pending", "running"}
        /\ present => Len(files) > 0
        /\ \A f \in 1 .. Len(files) : Len(files[f]) <= written
    BY Zenon DEF TailTyped, TailTypeOK, Lines
  <2>2. Len(files) \in Nat /\ \A f \in 1 .. Len(files) : files[f] \in Seq(Lines)
    BY <2>1
  <2>3. \A f \in 1 .. Len(files) : Len(files[f]) \in Nat
    BY <2>2
  <2> QED
    BY <2>1, <2>2, <2>3, Zenon
<1>2. ASSUME /\ files' \in Seq(Seq(Lines)) /\ Len(files') <= MaxFiles
             /\ Len(files) <= Len(files')
             /\ cut' \subseteq 1 .. MaxFiles /\ written' \in 0 .. MaxLines
             /\ pod' \in {"none", "pending", "running"} /\ present' \in BOOLEAN
             /\ present' => Len(files') > 0
             /\ \A f \in 1 .. Len(files') : Len(files'[f]) <= written'
             /\ UNCHANGED <<viewer, edge, session, closed, shown, node, opened, pos, app>>
      PROVE  TailTyped'
  <2>1. \A s \in Sessions : Reading(s)' => opened'[s] \in 1 .. Len(files')
    <3> SUFFICES ASSUME NEW s \in Sessions, Reading(s)' PROVE opened'[s] \in 1 .. Len(files')
      BY Zenon
    <3>1. opened[s] \in 1 .. Len(files)
      BY <1>2, Zenon DEF Reading, TailTyped
    <3> QED
      BY <1>1, <1>2, <3>1
  <2> QED
    BY <1>2, <2>1, Zenon DEF TailTyped, TailTypeOK, Lines
<1>3. CASE PodStarts
  <2>1. pod' \in {"none", "pending", "running"}
    BY <1>3 DEF PodStarts
  <2>2. UNCHANGED <<files, present, cut, written, viewer, edge, session, closed, shown, node,
                    opened, pos, app>>
    BY <1>3, Zenon DEF PodStarts, nodeVars
  <2>3. Len(files) <= Len(files)
    BY <1>1
  <2> QED
    BY <1>1, <1>2, <2>1, <2>2, <2>3, Zenon
<1>4. CASE CreateFile
  <2>1. /\ UNCHANGED <<pod, cut, written, viewer, edge, session, closed, shown, node, opened, pos,
                       app>>
        /\ files' = Append(files, <<>>) /\ Len(files) < MaxFiles /\ present' = TRUE
    BY <1>4, Zenon DEF CreateFile, nodeVars
  <2>2. /\ Len(files') = Len(files) + 1 /\ files' \in Seq(Seq(Lines))
        /\ files'[Len(files) + 1] = <<>>
        /\ \A f \in 1 .. Len(files) : files'[f] = files[f]
    BY <1>1, <2>1
  <2>3. ASSUME NEW f \in 1 .. Len(files') PROVE Len(files'[f]) <= written
    <3>1. CASE f \in 1 .. Len(files)
      BY <1>1, <2>2, <3>1, Zenon
    <3>2. CASE f = Len(files) + 1
      BY <1>1, <2>2, <3>2
    <3>3. f \in 1 .. Len(files) \/ f = Len(files) + 1
      BY <1>1, <2>2
    <3> QED
      BY <3>1, <3>2, <3>3, Zenon
  <2>4. Len(files) <= Len(files') /\ Len(files') <= MaxFiles /\ Len(files') > 0
    BY <1>1, <2>1, <2>2
  <2> QED
    BY <1>1, <1>2, <2>1, <2>2, <2>3, <2>4, Zenon
<1>5. ASSUME NEW last \in Seq(Lines), Len(files) > 0, Len(last) <= written',
             files' = [files EXCEPT ![Len(files)] = last]
      PROVE  /\ files' \in Seq(Seq(Lines)) /\ Len(files') = Len(files)
             /\ written <= written' /\ written' \in Int =>
                   \A f \in 1 .. Len(files') : Len(files'[f]) <= written'
  <2>1. /\ files' \in Seq(Seq(Lines)) /\ Len(files') = Len(files)
        /\ files'[Len(files)] = last
        /\ \A f \in 1 .. Len(files) : f # Len(files) => files'[f] = files[f]
    BY <1>1, <1>5
  <2>2. ASSUME NEW f \in 1 .. Len(files), written <= written', written' \in Int
        PROVE  Len(files'[f]) <= written'
    <3>1. CASE f = Len(files)
      BY <1>5, <2>1, <3>1, Zenon
    <3>2. CASE f # Len(files)
      <4>1. Len(files'[f]) \in Nat /\ Len(files'[f]) <= written /\ written \in Nat
        BY <1>1, <2>1, <3>2, SMTT(30)
      <4> QED
        BY <2>2, <4>1
    <3> QED
      BY <3>1, <3>2, Zenon
  <2> QED
    BY <2>1, <2>2, Zenon
<1>6. CASE WriteLine
  <2>1. /\ UNCHANGED <<pod, present, cut, viewer, edge, session, closed, shown, node, opened, pos,
                       app>>
        /\ files' = [files EXCEPT ![Len(files)] = Append(files[Len(files)], written + 1)]
        /\ present /\ written < MaxLines /\ written' = written + 1
    BY <1>6, Zenon DEF WriteLine, Current, nodeVars
  <2>2. Len(files) \in 1 .. Len(files) /\ written + 1 \in Lines
    BY <1>1, <2>1 DEF Lines
  <2>3. files[Len(files)] \in Seq(Lines) /\ Len(files[Len(files)]) \in Nat
        /\ Len(files[Len(files)]) <= written
    BY <1>1, <2>2, Zenon
  <2>4. /\ Append(files[Len(files)], written + 1) \in Seq(Lines)
        /\ Len(Append(files[Len(files)], written + 1)) <= written + 1
    BY <1>1, <2>2, <2>3
  <2>5. /\ written' \in 0 .. MaxLines /\ written <= written' /\ written' \in Int
        /\ Len(files) <= Len(files)
    BY <1>1, <2>1
  <2> QED
    BY <1>1, <1>2, <1>5, <2>1, <2>4, <2>5, Zenon
<1>7. CASE RemoveFile
  <2>1. UNCHANGED <<pod, files, cut, written, viewer, edge, session, closed, shown, node, opened,
                    pos, app>> /\ present' = FALSE
    BY <1>7, Zenon DEF RemoveFile, nodeVars
  <2>2. Len(files) <= Len(files)
    BY <1>1
  <2> QED
    BY <1>1, <1>2, <2>1, <2>2, Zenon
<1>8. CASE TruncateFile
  <2>1. /\ UNCHANGED <<pod, present, written, viewer, edge, session, closed, shown, node, opened,
                       pos, app>>
        /\ files' = [files EXCEPT ![Len(files)] = <<>>] /\ cut' = cut \cup {Len(files)}
        /\ present
    BY <1>8, Zenon DEF TruncateFile, Current, nodeVars
  <2>2. /\ Len(files) \in 1 .. MaxFiles /\ <<>> \in Seq(Lines) /\ Len(<<>>) <= written
        /\ written <= written /\ written \in Int /\ Len(files) <= Len(files)
    BY <1>1, <2>1
  <2>3. cut' \subseteq 1 .. MaxFiles
    BY <1>1, <2>1, <2>2, Zenon
  <2> QED
    BY <1>1, <1>2, <1>5, <2>1, <2>2, <2>3, Zenon
<1> QED
  BY <1>3, <1>4, <1>6, <1>7, <1>8, Zenon DEF WorldStep

\* The viewer and the relaying.
LEMMA EdgeTypes ==
    ASSUME TailTyped,
           \/ ViewerLeaves \/ EdgeStep \/ BreakSession
           \/ \E s \in Sessions : SeesClose(s)
    PROVE  TailTyped'
<1>1. ASSUME /\ UNCHANGED <<pod, files, present, cut, written, node, opened, pos, app, shown>>
             /\ viewer' \in {"watching", "left"} /\ session' \in 0 .. MaxSessions
             /\ edge' \in {"look", "relay", "pause", "over", "crashed"}
             /\ closed' \subseteq Sessions
      PROVE  TailTyped'
  BY <1>1, Zenon DEF TailTyped, TailTypeOK, Reading
<1>2. CASE ViewerLeaves \/ EdgeEnds \/ LookUp \/ Resume \/ BreakSession
  <2>1. /\ UNCHANGED <<pod, files, present, cut, written, node, opened, pos, app, shown, session,
                       closed>>
        /\ viewer' \in {viewer, "left"} /\ edge' \in {edge, "over", "pause", "crashed", "look"}
    BY <1>2, Zenon
    DEF ViewerLeaves, EdgeEnds, LookUp, Resume, BreakSession, worldVars, nodeVars
  <2>2. /\ viewer \in {"watching", "left"} /\ session \in 0 .. MaxSessions
        /\ edge \in {"look", "relay", "pause", "over", "crashed"} /\ closed \subseteq Sessions
    BY Zenon DEF TailTyped, TailTypeOK
  <2> QED
    BY <1>1, <2>1, <2>2, Zenon
<1>3. CASE Dial
  <2>1. session' \in 0 .. MaxSessions /\ session + 1 \in Sessions
    <3>1. session \in 0 .. MaxSessions
      BY Zenon DEF TailTyped, TailTypeOK
    <3> QED
      BY <1>3, <3>1 DEF Dial
  <2>2. /\ node' = [node EXCEPT ![session + 1] = "locate"] /\ edge' = "relay"
        /\ UNCHANGED <<pod, files, present, cut, written, viewer, closed, shown, opened, pos, app>>
    BY <1>3, Zenon DEF Dial, worldVars
  <2>3. node' \in [Sessions -> NodeStates]
    BY <2>1, <2>2, Zenon DEF NodeStates, TailTyped, TailTypeOK
  <2>4. \A s \in Sessions : Reading(s)' => Reading(s)
    BY <2>1, <2>2, Zenon DEF Reading, TailTyped, TailTypeOK
  <2> QED
    BY <2>1, <2>2, <2>3, <2>4, Zenon DEF NodeStates, TailTyped, TailTypeOK
<1>4. CASE \E s \in Sessions : SeesClose(s)
  <2>1. PICK s \in Sessions : SeesClose(s)
    BY <1>4, Zenon
  <2>2. /\ UNCHANGED <<pod, files, present, cut, written, node, opened, pos, app, shown, session,
                       viewer, edge>>
        /\ closed' = closed \cup {s}
    BY <2>1, Zenon DEF SeesClose, worldVars, nodeVars
  <2> QED
    BY <1>1, <2>2, Zenon DEF TailTyped, TailTypeOK
<1> QED
  BY <1>2, <1>3, <1>4, Zenon DEF EdgeStep

\* The parts of the state that the tailing of a session uses.
LEMMA NodeTypesAre ==
    ASSUME TailTyped
    PROVE  /\ node \in [Sessions -> NodeStates] /\ opened \in [Sessions -> 0 .. MaxFiles]
           /\ pos \in [Sessions -> 0 .. MaxLines] /\ app \in [Sessions -> Seq(Lines)]
           /\ shown \in [Sessions -> [1 .. MaxFiles -> Seq(Lines)]]
           /\ files \in Seq(Seq(Lines)) /\ Len(files) \in Nat /\ Len(files) <= MaxFiles
<1>1. /\ node \in [Sessions -> NodeStates] /\ opened \in [Sessions -> 0 .. MaxFiles]
      /\ pos \in [Sessions -> 0 .. MaxLines] /\ app \in [Sessions -> Seq(Lines)]
      /\ shown \in [Sessions -> [1 .. MaxFiles -> Seq(Lines)]]
      /\ files \in Seq(Seq(Lines)) /\ Len(files) <= MaxFiles
  BY Zenon DEF TailTyped, TailTypeOK, Lines, NodeStates
<1>2. Len(files) \in Nat
  BY <1>1
<1> QED
  BY <1>1, <1>2, Zenon

\* A line that is read is one of the file, and was written.
LEMMA NextLineType ==
    ASSUME TailTyped, NEW s \in Sessions, Reading(s), Unread(s)
    PROVE  /\ NextLine(s) \in Lines /\ pos[s] + 1 \in 0 .. MaxLines
           /\ files[opened[s]] \in Seq(Lines)
<1>1. /\ opened[s] \in 1 .. Len(files) /\ pos[s] \in 0 .. MaxLines
      /\ Len(files[opened[s]]) <= written /\ written \in 0 .. MaxLines
      /\ files \in Seq(Seq(Lines))
  BY NodeTypesAre, Zenon DEF TailTyped, TailTypeOK
<1>2. files[opened[s]] \in Seq(Lines)
  BY <1>1
<1>3. pos[s] < Len(files[opened[s]]) /\ Len(files[opened[s]]) \in Nat
  BY <1>2 DEF Unread
<1>4. pos[s] + 1 \in 1 .. Len(files[opened[s]]) /\ pos[s] + 1 \in 0 .. MaxLines
  BY <1>1, <1>3, SMTT(30)
<1>5. files[opened[s]][pos[s] + 1] \in Lines
  BY <1>2, <1>4
<1> QED
  BY <1>2, <1>4, <1>5, Zenon DEF NextLine

\* A message to the viewer.
LEMMA SendType ==
    ASSUME TailTyped, NEW s \in Sessions, Reading(s), Send(s)
    PROVE  /\ shown' \in [Sessions -> [1 .. MaxFiles -> Seq(Lines)]]
           /\ \A d \in Sessions : d # s => shown'[d] = shown[d]
           /\ \A f \in 1 .. MaxFiles : f # opened[s] => shown'[s][f] = shown[s][f]
           /\ shown'[s][opened[s]] = IF Connected(s) /\ viewer # "left"
                                     THEN shown[s][opened[s]] \o app[s]
                                     ELSE shown[s][opened[s]]
<1>1. /\ opened[s] \in 1 .. Len(files) /\ app[s] \in Seq(Lines) /\ Len(files) <= MaxFiles
      /\ shown \in [Sessions -> [1 .. MaxFiles -> Seq(Lines)]] /\ Len(files) \in Nat
  BY NodeTypesAre, Zenon DEF TailTyped
<1>2. opened[s] \in 1 .. MaxFiles
  BY <1>1
<1>3. CASE ~(Connected(s) /\ viewer # "left")
  BY <1>1, <1>3, Zenon DEF Send
<1>4. CASE Connected(s) /\ viewer # "left"
  <2>1. shown[s] \in [1 .. MaxFiles -> Seq(Lines)] /\ shown[s][opened[s]] \in Seq(Lines)
    BY <1>1, <1>2, Zenon
  <2>2. shown[s][opened[s]] \o app[s] \in Seq(Lines)
    BY <1>1, <2>1
  <2>3. shown' = [shown EXCEPT ![s] = [shown[s] EXCEPT ![opened[s]] =
                                          shown[s][opened[s]] \o app[s]]]
    BY <1>4, Zenon DEF Send
  <2>4. [shown[s] EXCEPT ![opened[s]] = shown[s][opened[s]] \o app[s]]
           \in [1 .. MaxFiles -> Seq(Lines)]
    BY <2>1, <2>2, Zenon
  <2>5. shown' \in [Sessions -> [1 .. MaxFiles -> Seq(Lines)]]
    BY <1>1, <2>3, <2>4, Zenon
  <2>6. /\ \A d \in Sessions : d # s => shown'[d] = shown[d]
        /\ shown'[s] = [shown[s] EXCEPT ![opened[s]] = shown[s][opened[s]] \o app[s]]
    BY <1>1, <2>3, Zenon
  <2> QED
    BY <1>2, <1>4, <2>1, <2>5, <2>6, Zenon
<1> QED
  BY <1>3, <1>4, Zenon

\* The tailing on the node.
LEMMA NodeTypes ==
    ASSUME TailTyped, NEW s \in Sessions, NodeStep(s)
    PROVE  TailTyped'
<1>1. /\ node \in [Sessions -> NodeStates] /\ opened \in [Sessions -> 0 .. MaxFiles]
      /\ pos \in [Sessions -> 0 .. MaxLines] /\ app \in [Sessions -> Seq(Lines)]
      /\ shown \in [Sessions -> [1 .. MaxFiles -> Seq(Lines)]]
      /\ Len(files) \in Nat /\ Len(files) <= MaxFiles
  BY NodeTypesAre, Zenon
<1>2. UNCHANGED <<pod, files, present, cut, written, viewer, edge, session, closed>>
  BY Zenon DEF NodeStep, NodeEnds, Locate, BeginTail, OpenerGivesUp, OpenFile, ReadOldLine,
               SendOldLines, BeginPass, ReadLine, EndOfFile, worldVars
<1>3. ASSUME NEW k \in NodeStates, node' = [node EXCEPT ![s] = k] \/ UNCHANGED node,
             opened' \in [Sessions -> 0 .. MaxFiles], pos' \in [Sessions -> 0 .. MaxLines],
             app' \in [Sessions -> Seq(Lines)],
             shown' \in [Sessions -> [1 .. MaxFiles -> Seq(Lines)]],
             \A d \in Sessions : d # s => opened'[d] = opened[d],
             Reading(s)' => opened'[s] \in 1 .. Len(files)
      PROVE  TailTyped'
  <2>1. node' \in [Sessions -> NodeStates]
    BY <1>1, <1>3, Zenon
  <2>2. ASSUME NEW d \in Sessions, Reading(d)' PROVE opened'[d] \in 1 .. Len(files')
    <3>1. CASE d = s
      BY <1>2, <1>3, <2>2, <3>1, Zenon
    <3>2. CASE d # s
      <4>1. Reading(d)
        BY <1>1, <1>3, <2>2, <3>2, Zenon DEF Reading
      <4> QED
        BY <1>2, <1>3, <3>2, <4>1, Zenon DEF TailTyped
    <3> QED
      BY <3>1, <3>2, Zenon
  <2> QED
    BY <1>2, <1>3, <2>1, <2>2, Zenon DEF TailTyped, TailTypeOK, Lines, NodeStates
<1>4. 0 \in 0 .. MaxFiles /\ 0 \in 0 .. MaxLines /\ <<>> \in Seq(Lines)
  OBVIOUS
<1>5. app' = [app EXCEPT ![s] = <<>>] => app' \in [Sessions -> Seq(Lines)]
  BY <1>1, <1>4, Zenon
<1>6. CASE NodeEnds(s) \/ Locate(s) \/ BeginTail(s) \/ OpenerGivesUp(s)
  <2>1. PICK k \in {"over", "start", "open", "crashed"} : node' = [node EXCEPT ![s] = k]
    BY <1>6, Zenon DEF NodeEnds, Locate, BeginTail, OpenerGivesUp
  <2>2. /\ opened' = [opened EXCEPT ![s] = 0] \/ UNCHANGED opened
        /\ pos' = [pos EXCEPT ![s] = 0] \/ UNCHANGED pos
        /\ UNCHANGED <<app, shown>>
    BY <1>6, Zenon DEF NodeEnds, Locate, BeginTail, OpenerGivesUp
  <2>3. opened' \in [Sessions -> 0 .. MaxFiles] /\ pos' \in [Sessions -> 0 .. MaxLines]
        /\ \A d \in Sessions : d # s => opened'[d] = opened[d]
    BY <1>1, <1>4, <2>2, ZenonT(30)
  <2>4. k \in NodeStates /\ ~Reading(s)'
    BY <1>1, <2>1, Zenon DEF NodeStates, Reading
  <2> QED
    BY <1>1, <1>3, <2>1, <2>2, <2>3, <2>4, Zenon
<1>7. CASE OpenFile(s)
  <2>1. PICK k \in {"pass", "lines"} : node' = [node EXCEPT ![s] = k]
    BY <1>7, Zenon DEF OpenFile
  <2>2. /\ opened' = [opened EXCEPT ![s] = Len(files)] /\ pos' = [pos EXCEPT ![s] = 0]
        /\ app' = [app EXCEPT ![s] = <<>>] /\ UNCHANGED shown /\ present
    BY <1>7, Zenon DEF OpenFile, Current
  <2>3. Len(files) \in 1 .. Len(files) /\ Len(files) \in 0 .. MaxFiles
    BY <1>1, <2>2 DEF TailTyped
  <2>4. opened' \in [Sessions -> 0 .. MaxFiles] /\ pos' \in [Sessions -> 0 .. MaxLines]
        /\ opened'[s] = Len(files) /\ \A d \in Sessions : d # s => opened'[d] = opened[d]
    BY <1>1, <1>4, <2>2, <2>3, Zenon
  <2>5. k \in NodeStates
    BY <2>1, Zenon DEF NodeStates
  <2> QED
    BY <1>1, <1>3, <1>5, <2>1, <2>2, <2>3, <2>4, <2>5, Zenon
<1>8. ASSUME Reading(s), UNCHANGED opened,
             \E k \in {"pass", "read", "start"} : node' = [node EXCEPT ![s] = k],
             app' = [app EXCEPT ![s] = <<>>], UNCHANGED pos,
             shown' \in [Sessions -> [1 .. MaxFiles -> Seq(Lines)]]
      PROVE  TailTyped'
  <2>1. PICK k \in {"pass", "read", "start"} : node' = [node EXCEPT ![s] = k]
    BY <1>8, Zenon
  <2>2. k \in NodeStates /\ opened[s] \in 1 .. Len(files)
    BY <1>8, Zenon DEF NodeStates, TailTyped
  <2> QED
    BY <1>1, <1>3, <1>5, <1>8, <2>1, <2>2, Zenon
<1>9. CASE SendOldLines(s) \/ BeginPass(s) \/ EndOfFile(s)
  <2>1. Reading(s)
    BY <1>9, Zenon DEF SendOldLines, BeginPass, EndOfFile, Reading
  <2>2. Send(s) \/ UNCHANGED shown
    BY <1>9, Zenon DEF SendOldLines, BeginPass, EndOfFile
  <2>3. shown' \in [Sessions -> [1 .. MaxFiles -> Seq(Lines)]]
    BY <1>1, <2>1, <2>2, SendType, Zenon
  <2>4. /\ UNCHANGED <<opened, pos>> /\ app' = [app EXCEPT ![s] = <<>>]
        /\ \E k \in {"pass", "read", "start"} : node' = [node EXCEPT ![s] = k]
    BY <1>9, Zenon DEF SendOldLines, BeginPass, EndOfFile
  <2> QED
    BY <1>8, <2>1, <2>3, <2>4, Zenon
<1>10. CASE ReadOldLine(s) \/ ReadLine(s)
  <2>1. Reading(s) /\ Unread(s)
    BY <1>10, Zenon DEF ReadOldLine, ReadLine, Reading
  <2>2. NextLine(s) \in Lines /\ pos[s] + 1 \in 0 .. MaxLines /\ opened[s] \in 1 .. Len(files)
    BY <2>1, NextLineType, Zenon DEF TailTyped
  <2>3. Append(app[s], NextLine(s)) \in Seq(Lines) /\ Tail(Append(app[s], NextLine(s))) \in Seq(Lines)
    <3>1. app[s] \in Seq(Lines)
      BY <1>1, Zenon
    <3> QED
      BY <2>2, <3>1, SMTT(30)
  <2>4. /\ \E a \in {Append(app[s], NextLine(s)), Tail(Append(app[s], NextLine(s)))} :
              app' = [app EXCEPT ![s] = a]
        /\ pos' = [pos EXCEPT ![s] = pos[s] + 1] /\ UNCHANGED <<shown, node, opened>>
    BY <1>10, Zenon DEF ReadOldLine, ReadLine
  <2>5. app' \in [Sessions -> Seq(Lines)] /\ pos' \in [Sessions -> 0 .. MaxLines]
    <3>1. PICK a \in Seq(Lines) : app' = [app EXCEPT ![s] = a]
      BY <2>3, <2>4, Zenon
    <3>2. app' \in [Sessions -> Seq(Lines)]
      BY <1>1, <3>1, Zenon
    <3>3. pos' \in [Sessions -> 0 .. MaxLines]
      BY <1>1, <2>2, <2>4, Zenon
    <3> QED
      BY <3>2, <3>3, Zenon
  <2>6. node[s] \in NodeStates
    BY <1>1, Zenon
  <2> QED
    BY <1>1, <1>3, <2>2, <2>4, <2>5, <2>6, Zenon
<1> QED
  BY <1>6, <1>7, <1>9, <1>10, Zenon DEF NodeStep

\* The types hold, and a reader is inside its file.
LEMMA TailTypes == TailSpec => []TailTyped
<1>1. TailInit => TailTyped
  <2> SUFFICES ASSUME TailInit PROVE TailTyped
    BY Zenon
  <2>1. /\ files = <<>> /\ Len(files) = 0 /\ files \in Seq(Seq(Lines)) /\ Len(files) <= MaxFiles
        /\ 1 .. Len(files) = {} /\ 0 \in 0 .. MaxLines /\ 0 \in 0 .. MaxFiles
        /\ 0 \in 0 .. MaxSessions /\ <<>> \in Seq(Lines)
    BY DEF TailInit
  <2> QED
    BY <2>1, Zenon DEF TailInit, TailTyped, TailTypeOK, Reading, Lines
<1>2. TailTyped /\ [TailNext]_tailVars => TailTyped'
  <2> SUFFICES ASSUME TailTyped, [TailNext]_tailVars PROVE TailTyped'
    BY Zenon
  <2>1. CASE UNCHANGED tailVars
    BY <2>1, Zenon DEF tailVars, TailTyped, TailTypeOK, Reading
  <2> QED
    BY <2>1, WorldTypes, EdgeTypes, NodeTypes, Zenon DEF TailNext
<1> QED
  BY <1>1, <1>2, PTL DEF TailSpec

-----------------------------------------------------------------------------
\* A session has the files at the path in their order, each at most once: what
\* it has not opened was not shown.
InOrder(s) ==
    /\ opened[s] <= Len(files)
    /\ session < s => node[s] = "none"
    /\ node[s] \in {"none", "locate"} => opened[s] = 0
    /\ node[s] \in {"start", "open"} => opened[s] < Len(files) \/ ~present
    /\ node[s] # "over" => \A f \in 1 .. MaxFiles : f > opened[s] => shown[s][f] = <<>>

\* The viewer is there and hears of the session.
Listening(s) == Connected(s) /\ viewer = "watching"

\* What was read and not sent, a, and what was sent, m, of the lines of a file
\* of which p were read, when the tailing is at k and on is whether it is heard.
Shows(k, lines, p, a, m, on) ==
    /\ IsEnd(a, lines, p)
    /\ k = "lines" => m = <<>> /\ Enough(a, p)
    /\ k = "pass" => a = <<>>
    /\ k \in {"pass", "read"} /\ on =>
          IsEnd(m, lines, p - Len(a)) /\ Enough(m, p - Len(a))

Window(s) ==
    Shows(node[s], files[opened[s]], pos[s], app[s], shown[s][opened[s]], Listening(s))

TailInv ==
    \A s \in Sessions : InOrder(s) /\ (Reading(s) /\ opened[s] \notin cut => Window(s))

\* Lines are numbers.
LEMMA LinesAreInts ==
    ASSUME NEW a \in Seq(Lines) PROVE a \in Seq(Int) /\ Len(a) \in Nat
  BY DEF Lines

\* A session that a step does not touch.
LEMMA SessionUntouched ==
    ASSUME NEW d \in Sessions, InOrder(d), Reading(d) /\ opened[d] \notin cut => Window(d),
           UNCHANGED <<files, present, cut>>, session \in Nat, session' \in Nat,
           session <= session',
           node'[d] = node[d], opened'[d] = opened[d], pos'[d] = pos[d], app'[d] = app[d],
           shown'[d] = shown[d], Listening(d)' => Listening(d)
    PROVE  InOrder(d)' /\ (Reading(d)' /\ opened'[d] \notin cut' => Window(d)')
<1>1. session' < d => session < d
  OBVIOUS
<1>2. InOrder(d)'
  BY <1>1, Zenon DEF InOrder
<1>3. Reading(d)' => Reading(d)
  BY Zenon DEF Reading
<1>4. Window(d) => Window(d)'
  BY Zenon DEF Window, Shows
<1> QED
  BY <1>2, <1>3, <1>4, Zenon

\* The file grows, is removed, replaced or truncated.
LEMMA WorldKeepsTail ==
    ASSUME TailTyped, TailTyped', TailInv, WorldStep
    PROVE  TailInv'
<1>1. /\ files \in Seq(Seq(Lines)) /\ Len(files) \in Nat
      /\ files' \in Seq(Seq(Lines)) /\ Len(files') \in Nat
  <2>1. files \in Seq(Seq(Lines)) /\ files' \in Seq(Seq(Lines))
    BY Zenon DEF TailTyped, TailTypeOK, Lines
  <2> QED
    BY <2>1
<1>2. UNCHANGED <<viewer, edge, session, closed, shown, node, opened, pos, app>>
  BY Zenon DEF WorldStep, PodStarts, CreateFile, WriteLine, RemoveFile, TruncateFile, nodeVars
<1>3. /\ Len(files) <= Len(files')
      /\ present' => present \/ Len(files) < Len(files')
      /\ \A f \in 1 .. Len(files) : f \notin cut' =>
            /\ f \notin cut /\ Len(files[f]) <= Len(files'[f])
            /\ \A i \in 1 .. Len(files[f]) : files'[f][i] = files[f][i]
  <2>1. ASSUME NEW f \in 1 .. Len(files) PROVE files[f] \in Seq(Lines) /\ Len(files[f]) \in Nat
    <3>1. files[f] \in Seq(Lines)
      BY <1>1
    <3> QED
      BY <3>1
  <2>2. CASE UNCHANGED <<files, cut>> /\ (present' => present)
    BY <1>1, <2>1, <2>2
  <2>3. CASE CreateFile
    <3>1. files' = Append(files, <<>>) /\ UNCHANGED cut
      BY <2>3, Zenon DEF CreateFile
    <3>2. Len(files') = Len(files) + 1 /\ \A f \in 1 .. Len(files) : files'[f] = files[f]
      BY <1>1, <3>1
    <3> QED
      BY <1>1, <2>1, <3>1, <3>2
  <2>4. CASE WriteLine
    <3>1. /\ files' = [files EXCEPT ![Len(files)] = Append(files[Len(files)], written + 1)]
          /\ UNCHANGED <<cut, present>> /\ present
      BY <2>4, Zenon DEF WriteLine, Current
    <3>2. Len(files) \in 1 .. Len(files)
      BY <1>1, <3>1 DEF TailTyped
    <3>3. /\ Len(files') = Len(files)
          /\ files'[Len(files)] = Append(files[Len(files)], written + 1)
          /\ \A f \in 1 .. Len(files) : f # Len(files) => files'[f] = files[f]
      BY <1>1, <3>1, <3>2
    <3>4. ASSUME NEW f \in 1 .. Len(files)
          PROVE  /\ Len(files[f]) <= Len(files'[f])
                 /\ \A i \in 1 .. Len(files[f]) : files'[f][i] = files[f][i]
      <4>1. CASE f # Len(files)
        BY <2>1, <3>3, <4>1, SMTT(30)
      <4>2. CASE f = Len(files)
        <5>1. written + 1 \in Int
          BY DEF TailTyped, TailTypeOK
        <5>2. ASSUME NEW a \in Seq(Lines), NEW x
              PROVE  /\ Len(a) <= Len(Append(a, x))
                     /\ \A i \in 1 .. Len(a) : Append(a, x)[i] = a[i]
          OBVIOUS
        <5>3. /\ Len(files[Len(files)]) <= Len(files'[Len(files)])
              /\ \A i \in 1 .. Len(files[Len(files)]) :
                    files'[Len(files)][i] = files[Len(files)][i]
          <6>1. files[Len(files)] \in Seq(Lines)
            BY <2>1, <3>2, Zenon
          <6>2. /\ Len(files[Len(files)]) <= Len(Append(files[Len(files)], written + 1))
                /\ \A i \in 1 .. Len(files[Len(files)]) :
                      Append(files[Len(files)], written + 1)[i] = files[Len(files)][i]
            BY <5>2, <6>1, Zenon
          <6> QED
            BY <3>3, <6>2, Zenon
        <5> QED
          BY <4>2, <5>3, Zenon
      <4> QED
        BY <4>1, <4>2, Zenon
    <3>5. Len(files) <= Len(files')
      BY <1>1, <3>3
    <3> QED
      BY <3>1, <3>4, <3>5, Zenon
  <2>5. CASE TruncateFile
    <3>1. /\ files' = [files EXCEPT ![Len(files)] = <<>>] /\ cut' = cut \cup {Len(files)}
          /\ UNCHANGED present
      BY <2>5, Zenon DEF TruncateFile, Current
    <3>2. /\ Len(files') = Len(files)
          /\ \A f \in 1 .. Len(files) : f # Len(files) => files'[f] = files[f]
      BY <1>1, <3>1
    <3>3. Len(files) <= Len(files')
      BY <1>1, <3>2
    <3>4. ASSUME NEW f \in 1 .. Len(files), f \notin cut'
          PROVE  f \notin cut /\ Len(files[f]) <= Len(files'[f]) /\ files'[f] = files[f]
      <4>1. f \notin cut /\ files'[f] = files[f]
        BY <3>1, <3>2, <3>4, Zenon
      <4> QED
        BY <2>1, <4>1
    <3> QED
      BY <3>1, <3>3, <3>4, Zenon
  <2>6. CASE PodStarts
    BY <2>2, <2>6, Zenon DEF PodStarts
  <2>7. CASE RemoveFile
    BY <2>2, <2>7, Zenon DEF RemoveFile
  <2> QED
    BY <2>3, <2>4, <2>5, <2>6, <2>7, Zenon DEF WorldStep
<1>4. ASSUME NEW s \in Sessions
      PROVE  InOrder(s)' /\ (Reading(s)' /\ opened'[s] \notin cut' => Window(s)')
  <2>1. InOrder(s) /\ (Reading(s) /\ opened[s] \notin cut => Window(s))
    BY Zenon DEF TailInv
  <2>2. /\ opened[s] <= Len(files')
        /\ opened[s] < Len(files) \/ ~present => opened[s] < Len(files') \/ ~present'
    <3>1. opened[s] \in 0 .. MaxFiles /\ opened[s] <= Len(files)
      BY <2>1, NodeTypesAre, Zenon DEF InOrder
    <3>2. Len(files) <= Len(files')
      BY <1>3, Zenon
    <3>3. /\ opened[s] <= Len(files')
          /\ opened[s] < Len(files) \/ Len(files) < Len(files') => opened[s] < Len(files')
      BY <1>1, <3>1, <3>2
    <3> QED
      BY <1>3, <3>3, Zenon
  <2>3. InOrder(s)'
    BY <1>2, <2>1, <2>2, Zenon DEF InOrder
  <2>4. ASSUME Reading(s)', opened'[s] \notin cut' PROVE Window(s)'
    <3>1. Reading(s) /\ opened[s] \in 1 .. Len(files) /\ opened[s] \notin cut'
      BY <1>2, <2>4, Zenon DEF Reading, TailTyped
    <3>2. Window(s)
      BY <1>3, <2>1, <3>1, Zenon
    <3> DEFINE old == files[opened[s]]
               new == files'[opened[s]]
    <3>3. /\ old \in Seq(Int) /\ new \in Seq(Int) /\ Len(old) <= Len(new)
          /\ \A i \in 1 .. Len(old) : new[i] = old[i]
      <4>1. old \in Seq(Lines) /\ new \in Seq(Lines)
        BY <1>1, <1>3, <3>1, SMTT(30)
      <4> QED
        BY <1>3, <3>1, <4>1, LinesAreInts, Zenon
    <3>4. app[s] \in Seq(Int) /\ shown[s][opened[s]] \in Seq(Int)
      <4>1. opened[s] \in 1 .. MaxFiles
        BY <1>1, <3>1, NodeTypesAre
      <4> QED
        BY <4>1, NodeTypesAre, LinesAreInts, ZenonT(30)
    <3>5. Listening(s)' <=> Listening(s)
      BY <1>2, Zenon DEF Listening, Connected
    <3> HIDE DEF old, new
    <3>6. ASSUME NEW a \in Seq(Int), NEW n, IsEnd(a, old, n) PROVE IsEnd(a, new, n)
      BY <3>3, <3>6, EndLonger, Zenon
    <3>7. Shows(node[s], old, pos[s], app[s], shown[s][opened[s]], Listening(s))
      BY <3>2, Zenon DEF Window, old
    <3>8. Shows(node[s], new, pos[s], app[s], shown[s][opened[s]], Listening(s))
      BY <3>4, <3>6, <3>7, Zenon DEF Shows
    <3> QED
      BY <1>2, <3>5, <3>8, Zenon DEF Window, Shows, new
  <2> QED
    BY <2>3, <2>4, Zenon
<1> QED
  BY <1>4, Zenon DEF TailInv

\* The viewer comes and goes, the relaying dials and breaks.
LEMMA EdgeKeepsTail ==
    ASSUME TailTyped, TailInv,
           \/ ViewerLeaves \/ EdgeStep \/ BreakSession
           \/ \E s \in Sessions : SeesClose(s)
    PROVE  TailInv'
<1>1. session \in Nat /\ node \in [Sessions -> NodeStates]
  BY DEF TailTyped, TailTypeOK, NodeStates
<1>2. CASE ~Dial
  <2>1. /\ UNCHANGED <<files, present, cut, node, opened, pos, app, shown, session>>
        /\ edge' = "relay" => edge = "relay"
        /\ viewer' = "watching" => viewer = "watching"
    BY <1>2, Zenon
    DEF ViewerLeaves, EdgeStep, EdgeEnds, LookUp, Resume, BreakSession, SeesClose,
        worldVars, nodeVars
  <2>2. session <= session'
    BY <1>1, <2>1
  <2>3. \A d \in Sessions : Listening(d)' => Listening(d)
    BY <2>1, Zenon DEF Listening, Connected
  <2> QED
    BY <1>1, <2>1, <2>2, <2>3, SessionUntouched, Zenon DEF TailInv
<1>3. CASE Dial
  <2>1. /\ session' = session + 1 /\ node' = [node EXCEPT ![session + 1] = "locate"]
        /\ UNCHANGED <<files, present, cut, opened, pos, app, shown, viewer>>
    BY <1>3, Zenon DEF Dial, worldVars
  <2>2. session' \in Nat /\ session <= session' /\ session < session + 1
    BY <1>1, <2>1
  <2>3. ASSUME NEW d \in Sessions
        PROVE  InOrder(d)' /\ (Reading(d)' /\ opened'[d] \notin cut' => Window(d)')
    <3>1. InOrder(d) /\ (Reading(d) /\ opened[d] \notin cut => Window(d))
      BY Zenon DEF TailInv
    <3>2. CASE d = session + 1
      <4>1. node'[d] = "locate" /\ node[d] = "none"
        BY <1>1, <2>1, <2>2, <3>1, <3>2, Zenon DEF InOrder
      <4>2. ~(session' < d)
        BY <1>1, <2>1, <3>2
      <4>3. InOrder(d)'
        BY <2>1, <3>1, <4>1, <4>2, Zenon DEF InOrder
      <4> QED
        BY <4>1, <4>3, Zenon DEF Reading
    <3>3. CASE d # session + 1
      <4>1. node'[d] = node[d]
        BY <1>1, <2>1, <3>3, Zenon
      <4>2. ~Listening(d)'
        BY <1>1, <2>1, <3>3, Zenon DEF Listening, Connected
      <4> QED
        BY <1>1, <2>1, <2>2, <3>1, <4>1, <4>2, SessionUntouched, Zenon
    <3> QED
      BY <3>2, <3>3, Zenon
  <2> QED
    BY <2>3, Zenon DEF TailInv
<1> QED
  BY <1>2, <1>3, Zenon

\* Nothing is the end of whatever was read.
LEMMA NothingRead ==
    ASSUME NEW lines \in Seq(Lines), NEW n \in Nat, n <= Len(lines)
    PROVE  IsEnd(<<>>, lines, n) /\ Enough(<<>>, 0) /\ n - Len(<<>>) = n
<1>1. Len(<<>>) = 0 /\ 0 \in Nat /\ 0 <= n /\ n - 0 = n /\ 1 .. 0 = {}
  OBVIOUS
<1> QED
  BY <1>1, Zenon DEF IsEnd, Enough

\* Each step of the tailing of a session leaves it in order and what it shows
\* the end of the file.
LEMMA OpenKeepsTail ==
    ASSUME TailTyped, NEW s \in Sessions, InOrder(s), OpenFile(s)
    PROVE  InOrder(s)' /\ Window(s)'
<1>1. /\ node \in [Sessions -> NodeStates] /\ opened \in [Sessions -> 0 .. MaxFiles]
      /\ pos \in [Sessions -> 0 .. MaxLines] /\ app \in [Sessions -> Seq(Lines)]
      /\ files \in Seq(Seq(Lines)) /\ Len(files) \in Nat /\ Len(files) <= MaxFiles
      /\ present /\ node[s] = "open" /\ Len(files) > 0
  BY NodeTypesAre, Zenon DEF OpenFile, TailTyped
<1>2. /\ opened'[s] = Len(files) /\ pos'[s] = 0 /\ app'[s] = <<>>
      /\ node'[s] = IF files[Len(files)] = <<>> THEN "pass" ELSE "lines"
      /\ UNCHANGED <<session, shown, files, present, cut>>
  BY <1>1, Zenon DEF OpenFile, Current, worldVars
<1>3. /\ opened[s] < Len(files) /\ session >= s
      /\ \A f \in 1 .. MaxFiles : f > opened[s] => shown[s][f] = <<>>
  <2>1. session \in Nat
    BY DEF TailTyped, TailTypeOK
  <2> QED
    BY <1>1, <2>1 DEF InOrder
<1>4. InOrder(s)'
  <2>1. /\ Len(files) <= Len(files) /\ ~(session < s)
        /\ \A f \in 1 .. MaxFiles : f > Len(files) => f > opened[s]
    <3>1. opened[s] \in 0 .. MaxFiles /\ session \in Nat
      BY <1>1 DEF TailTyped, TailTypeOK
    <3> QED
      BY <1>1, <1>3, <3>1
  <2>2. node'[s] \in {"pass", "lines"}
    BY <1>2, Zenon
  <2>3. \A f \in 1 .. MaxFiles : f > opened'[s] => shown'[s][f] = <<>>
    BY <1>2, <1>3, <2>1, Zenon
  <2> QED
    BY <1>2, <2>1, <2>2, <2>3, Zenon DEF InOrder
<1>5. shown[s][Len(files)] = <<>>
  BY <1>1, <1>3
<1>6. files[Len(files)] \in Seq(Lines)
  BY <1>1, SMTT(30)
<1>7. /\ IsEnd(<<>>, files[Len(files)], 0) /\ Enough(<<>>, 0)
      /\ 0 - Len(<<>>) = 0
  <2>1. 0 <= Len(files[Len(files)])
    BY <1>6
  <2> QED
    BY <1>6, <2>1, NothingRead, Zenon
<1>8. Window(s)'
  BY <1>2, <1>5, <1>7, Zenon DEF Window, Shows
<1> QED
  BY <1>4, <1>8, Zenon

\* One of the lines there at first is read.
LEMMA ShowsOld ==
    ASSUME NEW lines \in Seq(Lines), NEW p \in Nat, NEW a \in Seq(Lines), NEW m, NEW on,
           Shows("lines", lines, p, a, m, on), p < Len(lines), NEW b,
           b = LET all == Append(a, lines[p + 1]) IN IF Len(all) > KeepLines THEN Tail(all) ELSE all
    PROVE  Shows("lines", lines, p + 1, b, m, on)
<1> DEFINE all == Append(a, lines[p + 1])
<1>1. a \in Seq(Int) /\ lines \in Seq(Int) /\ Len(a) \in Nat
  BY LinesAreInts, Zenon
<1>2. IsEnd(a, lines, p) /\ m = <<>> /\ Enough(a, p)
  BY Zenon DEF Shows
<1>3. IsEnd(all, lines, p + 1)
  BY <1>1, <1>2, EndAppend, Zenon
<1>4. all \in Seq(Int) /\ Len(all) = Len(a) + 1
  <2>1. lines[p + 1] \in Int
    BY <1>1
  <2> QED
    BY <1>1, <2>1
<1>5. b = IF Len(all) > KeepLines THEN Tail(all) ELSE all
  BY Zenon
<1> HIDE DEF all
<1>6. CASE Len(all) > KeepLines
  <2>1. Len(all) > 0 /\ Len(Tail(all)) >= KeepLines
    BY <1>4, <1>6, SMTT(30)
  <2>2. IsEnd(Tail(all), lines, p + 1)
    BY <1>1, <1>3, <1>4, <2>1, EndTail, Zenon
  <2>3. b = Tail(all)
    BY <1>5, <1>6, Zenon
  <2> QED
    BY <1>2, <2>1, <2>2, <2>3, Zenon DEF Shows, Enough
<1>7. CASE ~(Len(all) > KeepLines)
  <2>1. Enough(b, p + 1)
    <3>1. Len(a) < KeepLines
      BY <1>1, <1>4, <1>7
    <3>2. Len(a) = p
      BY <1>1, <1>2, <3>1 DEF Enough
    <3> QED
      BY <1>4, <1>5, <1>7, <3>2 DEF Enough
  <2> QED
    BY <1>2, <1>3, <1>5, <1>7, <2>1, Zenon DEF Shows
<1> QED
  BY <1>6, <1>7, Zenon

\* The lines there at first are sent.
LEMMA ShowsSent ==
    ASSUME NEW lines \in Seq(Lines), NEW p \in Nat, NEW a \in Seq(Lines), NEW m, NEW on,
           Shows("lines", lines, p, a, m, on)
    PROVE  Shows("pass", lines, p, <<>>, IF on THEN m \o a ELSE m, on)
<1>1. IsEnd(a, lines, p) /\ m = <<>> /\ Enough(a, p) /\ p <= Len(lines)
  BY Zenon DEF Shows, IsEnd
<1>2. <<>> \o a = a
  OBVIOUS
<1>3. IsEnd(<<>>, lines, p) /\ p - Len(<<>>) = p
  BY <1>1, NothingRead, Zenon
<1> QED
  BY <1>1, <1>2, <1>3, Zenon DEF Shows

\* A line that was appended is read.
LEMMA ShowsRead ==
    ASSUME NEW lines \in Seq(Lines), NEW p \in Nat, NEW a \in Seq(Lines), NEW m, NEW on,
           Shows("read", lines, p, a, m, on), p < Len(lines)
    PROVE  Shows("read", lines, p + 1, Append(a, lines[p + 1]), m, on)
<1>1. a \in Seq(Int) /\ lines \in Seq(Int) /\ Len(a) \in Nat
  BY LinesAreInts, Zenon
<1>2. IsEnd(Append(a, lines[p + 1]), lines, p + 1)
  BY <1>1, EndAppend, Zenon DEF Shows
<1>3. p + 1 - Len(Append(a, lines[p + 1])) = p - Len(a)
  <2>1. lines[p + 1] \in Int
    BY <1>1
  <2>2. Len(Append(a, lines[p + 1])) = Len(a) + 1
    BY <1>1, <2>1
  <2> QED
    BY <1>1, <2>2
<1>4. on => IsEnd(m, lines, p - Len(a)) /\ Enough(m, p - Len(a))
  BY Zenon DEF Shows
<1>5. on => /\ IsEnd(m, lines, p + 1 - Len(Append(a, lines[p + 1])))
            /\ Enough(m, p + 1 - Len(Append(a, lines[p + 1])))
  BY <1>3, <1>4
<1> QED
  BY <1>2, <1>5, SMT DEF Shows

\* At the end of the file what was read is sent.
LEMMA ShowsEnd ==
    ASSUME NEW lines \in Seq(Lines), NEW p \in Nat, NEW a \in Seq(Lines), NEW m \in Seq(Lines),
           NEW on, Shows("read", lines, p, a, m, on)
    PROVE  Shows("pass", lines, p, <<>>, IF on THEN m \o a ELSE m, on)
<1>1. /\ a \in Seq(Int) /\ lines \in Seq(Int) /\ m \in Seq(Int)
      /\ Len(a) \in Nat /\ Len(m) \in Nat
  BY LinesAreInts, Zenon
<1>2. IsEnd(a, lines, p) /\ p <= Len(lines) /\ Len(a) <= p
  BY Zenon DEF Shows, IsEnd
<1>3. IsEnd(<<>>, lines, p) /\ p - Len(<<>>) = p
  BY <1>2, NothingRead, Zenon
<1>4. ASSUME on PROVE IsEnd(m \o a, lines, p) /\ Enough(m \o a, p)
  <2>1. IsEnd(m, lines, p - Len(a)) /\ Enough(m, p - Len(a))
    BY <1>4, Zenon DEF Shows
  <2>2. IsEnd(m \o a, lines, p)
    BY <1>1, <1>2, <2>1, EndConcat, Zenon
  <2>3. Len(m \o a) = Len(m) + Len(a)
    BY <1>1
  <2>4. Len(m) = p - Len(a) \/ Len(m) >= KeepLines
    BY <2>1, Zenon DEF Enough
  <2>5. Len(m \o a) = p \/ Len(m \o a) >= KeepLines
    BY <1>1, <2>3, <2>4
  <2> QED
    BY <2>2, <2>5, Zenon DEF Enough
<1> QED
  BY <1>3, <1>4, Zenon DEF Shows

\* The reading of a session, while its file is open and was not truncated.
LEMMA ReadKeepsTail ==
    ASSUME TailTyped, NEW s \in Sessions, InOrder(s), Window(s), Reading(s),
           ReadOldLine(s) \/ SendOldLines(s) \/ BeginPass(s) \/ ReadLine(s) \/ EndOfFile(s)
    PROVE  node'[s] # "start" => Window(s)'
<1> DEFINE lines == files[opened[s]]
           mine == shown[s][opened[s]]
<1>1. /\ node \in [Sessions -> NodeStates] /\ pos \in [Sessions -> 0 .. MaxLines]
      /\ app \in [Sessions -> Seq(Lines)] /\ files \in Seq(Seq(Lines))
      /\ shown \in [Sessions -> [1 .. MaxFiles -> Seq(Lines)]]
      /\ opened[s] \in 1 .. Len(files) /\ Len(files) \in Nat /\ Len(files) <= MaxFiles
  BY NodeTypesAre, Zenon DEF TailTyped
<1>2. /\ lines \in Seq(Lines) /\ pos[s] \in Nat
      /\ app[s] \in Seq(Lines) /\ mine \in Seq(Lines)
  <2>1. opened[s] \in 1 .. MaxFiles
    BY <1>1, SMTT(30)
  <2>2. shown[s] \in [1 .. MaxFiles -> Seq(Lines)] /\ app[s] \in Seq(Lines)
    BY <1>1, Zenon
  <2>3. lines \in Seq(Lines) /\ pos[s] \in Nat
    BY <1>1, SMTT(30)
  <2> QED
    BY <2>1, <2>2, <2>3, Zenon
<1>3. UNCHANGED <<files, opened, viewer, edge, session>>
  BY Zenon
  DEF ReadOldLine, SendOldLines, BeginPass, ReadLine, EndOfFile, worldVars
<1>4. Listening(s)' <=> Listening(s)
  BY <1>3, Zenon DEF Listening, Connected
<1>5. Shows(node[s], lines, pos[s], app[s], mine, Listening(s))
  BY Zenon DEF Window
<1>6. ASSUME NEW k, NEW p, NEW a, NEW m, Shows(k, lines, p, a, m, Listening(s)),
             node'[s] = k, pos'[s] = p, app'[s] = a, shown'[s][opened[s]] = m
      PROVE  Window(s)'
  BY <1>3, <1>4, <1>6, Zenon DEF Window, Shows
<1>7. Send(s) => shown'[s][opened[s]] = IF Listening(s) THEN mine \o app[s] ELSE mine
  <2>1. viewer # "left" <=> viewer = "watching"
    BY Zenon DEF TailTyped, TailTypeOK
  <2> QED
    BY <2>1, SendType, Zenon DEF Listening
<1>8. CASE ReadOldLine(s)
  <2>1. /\ node'[s] = "lines" /\ node[s] = "lines" /\ shown' = shown /\ pos'[s] = pos[s] + 1
        /\ app'[s] = LET all == Append(app[s], lines[pos[s] + 1])
                     IN IF Len(all) > KeepLines THEN Tail(all) ELSE all
    BY <1>1, <1>8, Zenon DEF ReadOldLine, NextLine
  <2>2. pos[s] < Len(lines)
    BY <1>8, Zenon DEF ReadOldLine, Unread
  <2> HIDE DEF lines, mine
  <2>3. Shows("lines", lines, pos[s] + 1, app'[s], mine, Listening(s))
    BY <1>2, <1>5, <2>1, <2>2, ShowsOld, Zenon
  <2> QED
    BY <1>6, <2>1, <2>3, Zenon DEF mine
<1>9. CASE SendOldLines(s)
  <2>1. node'[s] = "pass" /\ node[s] = "lines" /\ pos'[s] = pos[s] /\ app'[s] = <<>> /\ Send(s)
    BY <1>1, <1>9, Zenon DEF SendOldLines
  <2>2. Shows("pass", lines, pos[s], <<>>, IF Listening(s) THEN mine \o app[s] ELSE mine,
              Listening(s))
    BY <1>2, <1>5, <2>1, ShowsSent, Zenon
  <2> QED
    BY <1>6, <1>7, <2>1, <2>2, Zenon
<1>10. CASE BeginPass(s)
  <2>1. /\ node'[s] = "read" /\ node[s] = "pass" /\ pos'[s] = pos[s] /\ app'[s] = <<>>
        /\ shown' = shown
    BY <1>1, <1>10, Zenon DEF BeginPass
  <2>2. Shows("read", lines, pos[s], <<>>, mine, Listening(s))
    BY <1>5, <2>1, Zenon DEF Shows
  <2> QED
    BY <1>6, <2>1, <2>2, Zenon
<1>11. CASE ReadLine(s)
  <2>1. /\ node'[s] = "read" /\ node[s] = "read" /\ shown' = shown /\ pos'[s] = pos[s] + 1
        /\ app'[s] = Append(app[s], lines[pos[s] + 1]) /\ pos[s] < Len(lines)
    BY <1>1, <1>11, Zenon DEF ReadLine, NextLine, Unread
  <2>2. Shows("read", lines, pos[s] + 1, app'[s], mine, Listening(s))
    BY <1>2, <1>5, <2>1, ShowsRead, Zenon
  <2> QED
    BY <1>6, <2>1, <2>2, Zenon
<1>12. CASE EndOfFile(s) /\ node'[s] # "start"
  <2>1. node'[s] = "pass" /\ node[s] = "read" /\ pos'[s] = pos[s] /\ app'[s] = <<>> /\ Send(s)
    BY <1>1, <1>12, Zenon DEF EndOfFile
  <2>2. Shows("pass", lines, pos[s], <<>>, IF Listening(s) THEN mine \o app[s] ELSE mine,
              Listening(s))
    BY <1>2, <1>5, <2>1, ShowsEnd, Zenon
  <2> QED
    BY <1>6, <1>7, <2>1, <2>2, Zenon
<1> QED
  BY <1>8, <1>9, <1>10, <1>11, <1>12, Zenon

\* A step of the tailing of one session.
LEMMA NodeKeepsTail ==
    ASSUME TailTyped, TailInv, NEW s \in Sessions, NodeStep(s)
    PROVE  TailInv'
<1>1. /\ node \in [Sessions -> NodeStates] /\ opened \in [Sessions -> 0 .. MaxFiles]
      /\ pos \in [Sessions -> 0 .. MaxLines] /\ app \in [Sessions -> Seq(Lines)]
      /\ Len(files) \in Nat
  BY NodeTypesAre, Zenon
<1>2. UNCHANGED <<files, present, cut, viewer, edge, session>>
  BY Zenon
  DEF NodeStep, NodeEnds, Locate, BeginTail, OpenerGivesUp, OpenFile, ReadOldLine,
      SendOldLines, BeginPass, ReadLine, EndOfFile, worldVars
<1>3. Send(s) /\ Reading(s) =>
         /\ \A d \in Sessions : d # s => shown'[d] = shown[d]
         /\ \A f \in 1 .. MaxFiles : f # opened[s] => shown'[s][f] = shown[s][f]
  BY SendType, Zenon
<1>4. /\ \A d \in Sessions : d # s => shown'[d] = shown[d]
      /\ \A f \in 1 .. MaxFiles : f # opened[s] => shown'[s][f] = shown[s][f]
  BY <1>3, Zenon
  DEF Reading, NodeStep, NodeEnds, Locate, BeginTail, OpenerGivesUp, OpenFile, ReadOldLine,
      SendOldLines, BeginPass, ReadLine, EndOfFile
<1>5. ASSUME NEW d \in Sessions, d # s
      PROVE  InOrder(d)' /\ (Reading(d)' /\ opened'[d] \notin cut' => Window(d)')
  <2>1. /\ node'[d] = node[d] /\ opened'[d] = opened[d] /\ pos'[d] = pos[d]
        /\ app'[d] = app[d]
    BY <1>1, <1>5, Zenon
    DEF NodeStep, NodeEnds, Locate, BeginTail, OpenerGivesUp, OpenFile, ReadOldLine,
        SendOldLines, BeginPass, ReadLine, EndOfFile
  <2>2. session \in Nat /\ session' \in Nat /\ session <= session'
    BY <1>2 DEF TailTyped, TailTypeOK
  <2>3. Listening(d)' => Listening(d)
    BY <1>2, Zenon DEF Listening, Connected
  <2> QED
    BY <1>2, <1>4, <1>5, <2>1, <2>2, <2>3, SessionUntouched, Zenon DEF TailInv
<1>6. InOrder(s) /\ (Reading(s) /\ opened[s] \notin cut => Window(s))
  BY Zenon DEF TailInv
<1>7. ASSUME opened'[s] = opened[s], node[s] # "none", node[s] # "over", node'[s] # "none",
             node'[s] = "locate" => node[s] = "locate",
             node'[s] \in {"start", "open"} => opened[s] < Len(files) \/ ~present
      PROVE  InOrder(s)'
  <2>1. \A f \in 1 .. MaxFiles : f > opened[s] => f # opened[s]
    <3>1. opened[s] \in 0 .. MaxFiles
      BY <1>1
    <3> QED
      BY <3>1
  <2> QED
    BY <1>2, <1>4, <1>6, <1>7, <2>1, Zenon DEF InOrder
<1>8. InOrder(s)' /\ (Reading(s)' /\ opened'[s] \notin cut' => Window(s)')
  <2>1. CASE NodeEnds(s)
    <3>1. node'[s] = "over" /\ opened'[s] = 0 /\ node[s] # "none"
      BY <1>1, <2>1, Zenon DEF NodeEnds
    <3>2. 0 <= Len(files)
      BY <1>1
    <3> QED
      BY <1>2, <1>6, <3>1, <3>2, Zenon DEF InOrder, Reading
  <2>2. CASE Locate(s)
    <3>1. node'[s] = "start" /\ node[s] = "locate" /\ opened'[s] = opened[s] /\ present
      BY <1>1, <2>2, Zenon DEF Locate
    <3>2. opened[s] = 0 /\ Len(files) > 0
      BY <1>6, <3>1, Zenon DEF InOrder, TailTyped
    <3>3. opened[s] < Len(files)
      BY <1>1, <3>2
    <3> QED
      BY <1>7, <3>1, <3>3, Zenon DEF Reading
  <2>3. CASE BeginTail(s) \/ OpenerGivesUp(s)
    <3>1. /\ node'[s] \in {"open", "crashed"} /\ node[s] \in {"start", "open"}
          /\ opened'[s] = opened[s]
      BY <1>1, <2>3, Zenon DEF BeginTail, OpenerGivesUp
    <3>2. opened[s] < Len(files) \/ ~present
      BY <1>6, <3>1, Zenon DEF InOrder
    <3> QED
      BY <1>7, <3>1, <3>2, Zenon DEF Reading
  <2>4. CASE OpenFile(s)
    BY <1>6, <2>4, OpenKeepsTail, Zenon
  <2>5. CASE ReadOldLine(s) \/ SendOldLines(s) \/ BeginPass(s) \/ ReadLine(s) \/ EndOfFile(s)
    <3>1. /\ Reading(s) /\ opened'[s] = opened[s] /\ node[s] \in {"lines", "pass", "read"}
          /\ node'[s] \in {"lines", "pass", "read", "start"}
          /\ node'[s] = "start" => ~(present /\ opened[s] = Len(files))
      BY <1>1, <2>5, Zenon
      DEF Reading, ReadOldLine, SendOldLines, BeginPass, ReadLine, EndOfFile, Current
    <3>2. opened[s] # Len(files) => opened[s] < Len(files)
      <4>1. opened[s] \in 0 .. MaxFiles /\ opened[s] <= Len(files)
        BY <1>1, <1>6, Zenon DEF InOrder
      <4> QED
        BY <1>1, <4>1
    <3>3. InOrder(s)'
      BY <1>7, <3>1, <3>2, Zenon
    <3>4. Reading(s)' /\ opened'[s] \notin cut' => Window(s)'
      BY <1>2, <1>6, <2>5, <3>1, ReadKeepsTail, Zenon DEF Reading
    <3> QED
      BY <3>3, <3>4, Zenon
  <2> QED
    BY <2>1, <2>2, <2>3, <2>4, <2>5, Zenon DEF NodeStep
<1> QED
  BY <1>5, <1>8, Zenon DEF TailInv

\* Every step keeps it.
LEMMA TailInvariant == TailSpec => []TailInv
<1>1. TailInit => TailInv
  <2> SUFFICES ASSUME TailInit, NEW s \in Sessions
               PROVE  InOrder(s) /\ ~Reading(s)
    BY Zenon DEF TailInv
  <2>1. /\ node[s] = "none" /\ opened[s] = 0 /\ files = <<>>
        /\ \A f \in 1 .. MaxFiles : shown[s][f] = <<>>
    BY Zenon DEF TailInit
  <2>2. 0 <= Len(<<>>)
    OBVIOUS
  <2> QED
    BY <2>1, <2>2, Zenon DEF InOrder, Reading
<1>2. TailTyped /\ TailTyped' /\ TailInv /\ [TailNext]_tailVars => TailInv'
  <2> SUFFICES ASSUME TailTyped, TailTyped', TailInv, [TailNext]_tailVars PROVE TailInv'
    BY Zenon
  <2>1. CASE UNCHANGED tailVars
    BY <2>1, Zenon
    DEF tailVars, TailInv, InOrder, Window, Shows, Reading, Listening, Connected
  <2>2. CASE TailNext
    BY <2>2, WorldKeepsTail, EdgeKeepsTail, NodeKeepsTail, Zenon DEF TailNext
  <2> QED
    BY <2>1, <2>2, Zenon
<1> QED
  BY <1>1, <1>2, TailTypes, PTL DEF TailSpec

\* Over a connection that stands, a viewer of a file that is not truncated is
\* shown its last lines and then each line that is written, without a gap, a
\* repetition or a line out of order, for any number of lines, files and
\* connections (TailFile, PodFileExporter.go).
THEOREM ShownIsTheTail == TailSpec => []ShownIsTail
<1>1. TailTyped /\ TailInv => ShownIsTail
  <2> SUFFICES ASSUME TailTyped, TailInv, NEW s \in Sessions, Connected(s), viewer = "watching",
                      node[s] \in {"pass", "read"}, opened[s] \notin cut
               PROVE  LET mine == shown[s][opened[s]]
                          sent == pos[s] - Len(app[s])
                          k == Len(mine)
                      IN /\ k <= sent
                         /\ k >= (IF sent < KeepLines THEN sent ELSE KeepLines)
                         /\ \A i \in 1 .. k : mine[i] = files[opened[s]][sent - k + i]
    BY Zenon DEF ShownIsTail
  <2> DEFINE mine == shown[s][opened[s]]
             sent == pos[s] - Len(app[s])
  <2>1. IsEnd(mine, files[opened[s]], sent) /\ Enough(mine, sent)
    BY Zenon DEF TailInv, Window, Shows, Reading, Listening
  <2>2. mine \in Seq(Lines)
    <3>1. opened[s] \in 1 .. Len(files) /\ Len(files) \in Nat /\ Len(files) <= MaxFiles
      BY NodeTypesAre, Zenon DEF TailTyped, Reading
    <3>2. opened[s] \in 1 .. MaxFiles
      BY <3>1
    <3> QED
      BY <3>2, NodeTypesAre, ZenonT(30)
  <2>3. Len(mine) \in Nat
    BY <2>2, LinesAreInts, Zenon
  <2> HIDE DEF mine, sent
  <2>4. Len(mine) <= sent /\ Len(mine) >= (IF sent < KeepLines THEN sent ELSE KeepLines)
    BY <2>1, <2>3 DEF IsEnd, Enough
  <2> QED
    BY <2>1, <2>4, Zenon DEF IsEnd, mine, sent
<1> QED
  BY <1>1, TailTypes, TailInvariant, PTL

\* A connection that the node has seen end is one that was left or broken.
ClosedWasLeft ==
    \A s \in Sessions :
        /\ s \in closed => s < session \/ (s = session /\ edge # "relay")
        /\ node[s] = "crashed" => s \in closed

\* The panic on the nil fileInfo of an opener that gave up ends the daemon of a
\* node only after the connection was left or broken, whatever happens to the
\* file.
THEOREM CrashesOnlyWhenLeft == TailSpec => []CrashOnlyWhenLeft
<1>1. TailInit => ClosedWasLeft
  BY Zenon DEF TailInit, ClosedWasLeft
<1>2. TailTyped /\ TailInv /\ ClosedWasLeft /\ [TailNext]_tailVars => ClosedWasLeft'
  <2> SUFFICES ASSUME TailTyped, TailInv, ClosedWasLeft, [TailNext]_tailVars,
                      NEW s \in Sessions
               PROVE  /\ s \in closed' => s < session' \/ (s = session' /\ edge' # "relay")
                      /\ node'[s] = "crashed" => s \in closed'
    BY Zenon DEF ClosedWasLeft
  <2>1. session \in Nat /\ node \in [Sessions -> NodeStates]
    BY DEF TailTyped, TailTypeOK, NodeStates
  <2>2. /\ s \in closed => s < session \/ (s = session /\ edge # "relay")
        /\ node[s] = "crashed" => s \in closed
    BY Zenon DEF ClosedWasLeft
  <2>3. CASE UNCHANGED tailVars \/ WorldStep \/ ViewerLeaves \/ EdgeEnds \/ LookUp \/ Resume
             \/ BreakSession
    <3>1. UNCHANGED <<session, closed, node>> /\ (edge' = "relay" => edge = "relay")
      BY <2>3, Zenon
      DEF tailVars, WorldStep, PodStarts, CreateFile, WriteLine, RemoveFile, TruncateFile,
          ViewerLeaves, EdgeEnds, LookUp, Resume, BreakSession, nodeVars
    <3> QED
      BY <2>2, <3>1, Zenon
  <2>4. CASE Dial
    <3>1. /\ session' = session + 1 /\ UNCHANGED closed
          /\ node' = [node EXCEPT ![session + 1] = "locate"]
      BY <2>4, Zenon DEF Dial
    <3>2. s \in closed => s < session'
      BY <2>1, <2>2, <3>1
    <3>3. node'[s] = "crashed" => node[s] = "crashed"
      BY <2>1, <3>1, Zenon
    <3> QED
      BY <2>2, <3>1, <3>2, <3>3, Zenon
  <2>5. ASSUME NEW d \in Sessions, SeesClose(d)
        PROVE  /\ s \in closed' => s < session' \/ (s = session' /\ edge' # "relay")
               /\ node'[s] = "crashed" => s \in closed'
    <3>1. /\ closed' = closed \cup {d} /\ UNCHANGED <<session, node, edge>>
          /\ node[d] # "none" /\ ~Connected(d)
      BY <2>5, Zenon DEF SeesClose, nodeVars
    <3>2. ~(session < d)
      BY <3>1, Zenon DEF TailInv, InOrder
    <3>3. d < session \/ (d = session /\ edge # "relay")
      <4>1. d < session \/ d = session
        BY <2>1, <3>2
      <4> QED
        BY <3>1, <4>1, Zenon DEF Connected
    <3> QED
      BY <2>2, <3>1, <3>3, Zenon
  <2>6. ASSUME NEW d \in Sessions, NodeStep(d)
        PROVE  /\ s \in closed' => s < session' \/ (s = session' /\ edge' # "relay")
               /\ node'[s] = "crashed" => s \in closed'
    <3>1. UNCHANGED <<session, closed, edge>>
      BY <2>6, Zenon
      DEF NodeStep, NodeEnds, Locate, BeginTail, OpenerGivesUp, OpenFile, ReadOldLine,
          SendOldLines, BeginPass, ReadLine, EndOfFile
    <3>2. node'[s] = "crashed" => node[s] = "crashed" \/ s \in closed
      BY <2>1, <2>6, Zenon
      DEF NodeStep, NodeEnds, Locate, BeginTail, OpenerGivesUp, OpenFile, ReadOldLine,
          SendOldLines, BeginPass, ReadLine, EndOfFile
    <3> QED
      BY <2>2, <3>1, <3>2, Zenon
  <2> QED
    BY <2>3, <2>4, <2>5, <2>6, Zenon DEF TailNext, EdgeStep
<1>3. ClosedWasLeft => CrashOnlyWhenLeft
  BY Zenon DEF ClosedWasLeft, CrashOnlyWhenLeft
<1> QED
  BY <1>1, <1>2, <1>3, TailTypes, TailInvariant, PTL DEF TailSpec
=============================================================================
