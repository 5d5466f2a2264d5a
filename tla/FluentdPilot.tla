---------------------------- MODULE FluentdPilot ----------------------------
(***************************************************************************)
(* pilot/pilot.go with pilot/fluentd_piloter.go.  Fluentd, unlike filebeat,   *)
(* reads its configuration directory only when its worker starts, so every    *)
(* change of the directory has to be followed by a reload, which one          *)
(* goroutine does on request; the configuration of a container that stopped   *)
(* is removed by a timer 15 minutes later.  The main goroutine lists the      *)
(* containers, the event goroutine follows docker, the watchdog restarts      *)
(* fluentd.  A panic in any goroutine ends the daemon, where the model stops. *)
(***************************************************************************)
EXTENDS Integers, Sequences, FiniteSets, Functions

CONSTANTS
    Containers,   \* all of them have a log label
    MaxStarts,    \* bound on the starts of all containers together
    MaxDeaths     \* bound on the times fluentd dies

ASSUME FluentdAssumption == MaxStarts \in Nat /\ MaxDeaths \in Nat

VARIABLES
    docker,       \* each container: "new", "running" or "exited"
    starts,       \* how often each was started
    events,       \* docker's events that the event goroutine has not received
    confs,        \* containers with a file in FLUENTD_CONF_DIR
    failed,       \* containers for which newContainer returned an error
    listing,      \* main goroutine: "boot", "each" (it holds the mutex), "up"
    todo,         \* containers of the listing still to process
    writer,       \* both goroutines in newContainer: "idle", "write" or "try"
    subject,      \* and the container they are at
    timers,       \* removals waiting for their 15 minutes, for each container
    removed,      \* removals done whose tryReload is to come
    reloader,     \* doReload: "back", "wait", "asked", "sleep", "pid", "signal",
                  \* "check", or "panic"
    fluentd,      \* the global: "nil", "unstarted" (no Process) or "started"
    alive,        \* the supervisor process runs
    watchdog,     \* the goroutine of Start: "waiting", "cleared", "assigned"
    deaths,
    hup,          \* a SIGHUP the supervisor has not acted on
    fresh,        \* the worker is not the one the first pgrep reported
    loaded,       \* the configurations the worker read when it started
    refused       \* a reload was turned away since then

pilotVars == <<confs, failed, listing, todo, writer, subject, timers, removed>>
world == <<docker, starts, events>>
procVars == <<fluentd, alive, watchdog, deaths>>
workerVars == <<hup, fresh, loaded, refused>>
fluentdVars == <<world, pilotVars, reloader, procVars, workerVars>>

Goroutines == {"main", "event"}
Locked == reloader \in {"sleep", "pid", "signal", "check"}

\* Types of the variables, and the mutex of Pilot: the listing and a reload are
\* never inside at once.
FluentdTypeOK ==
    /\ docker \in [Containers -> {"new", "running", "exited"}]
    /\ starts \in [Containers -> 0 .. MaxStarts]
    /\ \A i \in DOMAIN events :
          events[i] \in [action : {"start", "die"}, id : Containers]
    /\ confs \subseteq Containers /\ failed \subseteq Containers
    /\ listing \in {"boot", "each", "up"} /\ todo \subseteq Containers
    /\ writer \in [Goroutines -> {"idle", "write", "try"}]
    /\ subject \in [Goroutines -> Containers]
    /\ timers \in [Containers -> 0 .. MaxStarts] /\ removed \in Nat
    /\ reloader \in {"back", "wait", "asked", "sleep", "pid", "signal", "check", "panic"}
    /\ fluentd \in {"nil", "unstarted", "started"} /\ alive \in BOOLEAN
    /\ watchdog \in {"waiting", "cleared", "assigned"} /\ deaths \in 0 .. MaxDeaths
    /\ hup \in BOOLEAN /\ fresh \in BOOLEAN /\ loaded \subseteq Containers
    /\ refused \in BOOLEAN
    /\ (listing = "each" => ~Locked)

\* watch, lines 113-141, after cleanConfigs, Start and the subscription.
FluentdInit ==
    /\ \E running \in {S \in SUBSET Containers : Cardinality(S) <= MaxStarts} :
          /\ docker = [c \in Containers |-> IF c \in running THEN "running" ELSE "new"]
          /\ starts = [c \in Containers |-> IF c \in running THEN 1 ELSE 0]
    /\ events = <<>> /\ confs = {} /\ failed = {} /\ listing = "boot" /\ todo = {}
    /\ writer = [g \in Goroutines |-> "idle"]
    /\ subject = [g \in Goroutines |-> CHOOSE c \in Containers : TRUE]
    /\ timers = [c \in Containers |-> 0] /\ removed = 0
    /\ reloader = "back" /\ fluentd = "started" /\ alive = TRUE
    /\ watchdog = "waiting" /\ deaths = 0
    /\ hup = FALSE /\ fresh = FALSE /\ loaded = {} /\ refused = FALSE

-----------------------------------------------------------------------------
(* Docker and fluentd.                                                       *)
ContainerStarts(c) ==
    /\ docker[c] # "running"
    /\ SumFunctionOnSet(starts, Containers) < MaxStarts
    /\ docker' = [docker EXCEPT ![c] = "running"]
    /\ starts' = [starts EXCEPT ![c] = @ + 1]
    /\ events' = Append(events, [action |-> "start", id |-> c])
    /\ UNCHANGED <<pilotVars, reloader, procVars, workerVars>>

ContainerDies(c) ==
    /\ docker[c] = "running"
    /\ docker' = [docker EXCEPT ![c] = "exited"]
    /\ events' = Append(events, [action |-> "die", id |-> c])
    /\ UNCHANGED <<starts, pilotVars, reloader, procVars, workerVars>>

FluentdDies ==
    /\ alive /\ deaths < MaxDeaths
    /\ alive' = FALSE /\ deaths' = deaths + 1 /\ hup' = FALSE
    /\ UNCHANGED <<world, pilotVars, reloader, fluentd, watchdog, fresh, loaded, refused>>

\* A worker starts and reads the directory.
WorkerStarts ==
    /\ loaded' = confs /\ refused' = FALSE /\ fresh' = TRUE /\ hup' = FALSE

WorkerReloads ==
    /\ hup /\ alive /\ WorkerStarts
    /\ UNCHANGED <<world, pilotVars, reloader, procVars>>

-----------------------------------------------------------------------------
(* The requests for a reload.                                                *)
\* Mutant: without the default case the sender waits for doReload.
tryReloadBlocks ==
    /\ reloader = "wait" /\ reloader' = "asked" /\ UNCHANGED refused

\* The channel has no buffer: the send succeeds when doReload is receiving.
tryReload ==
    IF reloader = "wait" THEN reloader' = "asked" /\ UNCHANGED refused
                         ELSE refused' = TRUE /\ UNCHANGED reloader

\* newContainer of goroutine g writes the file, or fails on the way to it.
NewContainer(g) ==
    /\ writer[g] = "write"
    /\ \/ /\ confs' = confs \cup {subject[g]}
          /\ writer' = [writer EXCEPT ![g] = "try"] /\ UNCHANGED failed
       \/ /\ failed' = failed \cup {subject[g]}
          /\ writer' = [writer EXCEPT ![g] = "idle"] /\ UNCHANGED confs
    /\ UNCHANGED <<world, listing, todo, subject, timers, removed, reloader,
                   procVars, workerVars>>

AskReload(g) ==
    /\ writer[g] = "try" /\ tryReload
    /\ writer' = [writer EXCEPT ![g] = "idle"]
    /\ UNCHANGED <<world, confs, failed, listing, todo, subject, timers, removed,
                   procVars, hup, fresh, loaded>>

-----------------------------------------------------------------------------
(* The main goroutine lists the containers under the mutex.                  *)
ListContainers ==
    /\ listing = "boot" /\ ~Locked
    /\ listing' = "each" /\ todo' = {c \in Containers : docker[c] = "running"}
    /\ UNCHANGED <<world, confs, failed, writer, subject, timers, removed, reloader,
                   procVars, workerVars>>

\* Mutant: a listed container is passed over.
ListNextForgets(c) ==
    /\ listing = "each" /\ writer["main"] = "idle" /\ c \in todo
    /\ todo' = todo \ {c}
    /\ UNCHANGED <<world, confs, failed, listing, writer, subject, timers, removed,
                   reloader, procVars, workerVars>>

ListNext(c) ==
    /\ listing = "each" /\ writer["main"] = "idle" /\ c \in todo
    /\ todo' = todo \ {c}
    /\ IF c \in confs THEN UNCHANGED <<writer, subject>>
       ELSE /\ writer' = [writer EXCEPT !["main"] = "write"]
            /\ subject' = [subject EXCEPT !["main"] = c]
    /\ UNCHANGED <<world, confs, failed, listing, timers, removed, reloader, procVars,
                   workerVars>>

ListDone ==
    /\ listing = "each" /\ writer["main"] = "idle" /\ todo = {}
    /\ listing' = "up"
    /\ UNCHANGED <<world, confs, failed, todo, writer, subject, timers, removed,
                   reloader, procVars, workerVars>>

-----------------------------------------------------------------------------
(* The event goroutine.                                                      *)
Receive(action) ==
    /\ writer["event"] = "idle" /\ events # <<>> /\ Head(events).action = action
    /\ events' = Tail(events)

\* A file that is there already, if only until its timer ends, is left alone.
StartEvent ==
    /\ Receive("start")
    /\ LET c == Head(events).id IN
       IF c \in confs THEN UNCHANGED <<writer, subject>>
       ELSE /\ writer' = [writer EXCEPT !["event"] = "write"]
            /\ subject' = [subject EXCEPT !["event"] = c]
    /\ UNCHANGED <<docker, starts, confs, failed, listing, todo, timers, removed,
                   reloader, procVars, workerVars>>

\* Mutant: no timer is set.
DieEventForgets ==
    /\ Receive("die")
    /\ UNCHANGED <<docker, starts, pilotVars, reloader, procVars, workerVars>>

\* delContainer sets the timer of the removal.
DieEvent ==
    /\ Receive("die")
    /\ timers' = [timers EXCEPT ![Head(events).id] = @ + 1]
    /\ UNCHANGED <<docker, starts, confs, failed, listing, todo, writer, subject,
                   removed, reloader, procVars, workerVars>>

\* clean, lines 434-441, 15 minutes after the event.  No goroutine takes that
\* long over a container that it listed or inspected.
Clean(c) ==
    /\ timers[c] > 0
    /\ c \notin todo /\ \A g \in Goroutines : writer[g] # "idle" => subject[g] # c
    /\ timers' = [timers EXCEPT ![c] = @ - 1]
    /\ confs' = confs \ {c}
    /\ removed' = removed + (IF c \in confs THEN 1 ELSE 0)
    /\ UNCHANGED <<world, failed, listing, todo, writer, subject, reloader, procVars,
                   workerVars>>

CleanReload ==
    /\ removed > 0 /\ removed' = removed - 1 /\ tryReload
    /\ UNCHANGED <<world, confs, failed, listing, todo, writer, subject, timers,
                   procVars, hup, fresh, loaded>>

-----------------------------------------------------------------------------
(* doReload, reload and FluentdPiloter.Reload.                               *)
Ready ==
    /\ reloader = "back" /\ reloader' = "wait"
    /\ UNCHANGED <<world, pilotVars, procVars, workerVars>>

\* Mutant: the reload does not take the mutex.
LockFree ==
    /\ reloader = "asked" /\ reloader' = "sleep"
    /\ UNCHANGED <<world, pilotVars, procVars, workerVars>>

\* The mutex, then the rest of the 30 seconds since the last reload.
Lock ==
    /\ reloader = "asked" /\ listing # "each"
    /\ reloader' = "sleep"
    /\ UNCHANGED <<world, pilotVars, procVars, workerVars>>

CheckStarted ==
    /\ reloader = "sleep"
    /\ reloader' = IF fluentd = "nil" THEN "back" ELSE "pid"
    /\ UNCHANGED <<world, pilotVars, procVars, workerVars>>

\* fluentd.Process.Pid, then the first pgrep; without a Process this panics.
ReadPid ==
    /\ reloader = "pid"
    /\ IF fluentd # "started" THEN reloader' = "panic" /\ UNCHANGED fresh
                              ELSE reloader' = "signal" /\ fresh' = ~alive
    /\ UNCHANGED <<world, pilotVars, procVars, hup, loaded, refused>>

\* The global is read again for the signal.
Signal ==
    /\ reloader = "signal"
    /\ IF fluentd # "started" THEN reloader' = "panic" /\ UNCHANGED hup
                              ELSE reloader' = "check" /\ hup' = alive
    /\ UNCHANGED <<world, pilotVars, procVars, fresh, loaded, refused>>

\* Mutant: a worker that did not follow the signal is left running.
KillWorkerNever ==
    /\ reloader = "check" /\ reloader' = "back"
    /\ UNCHANGED <<world, pilotVars, procVars, workerVars>>

\* Five seconds later a worker that is still the same one is killed, and the
\* supervisor starts another.
KillWorker ==
    /\ reloader = "check" /\ reloader' = "back"
    /\ IF ~fresh /\ alive THEN WorkerStarts ELSE UNCHANGED workerVars
    /\ UNCHANGED <<world, pilotVars, procVars>>

-----------------------------------------------------------------------------
(* FluentdPiloter.Start and its goroutine.                                   *)
WaitReturns ==
    /\ watchdog = "waiting" /\ ~alive
    /\ fluentd' = "nil" /\ watchdog' = "cleared"
    /\ UNCHANGED <<world, pilotVars, reloader, alive, deaths, workerVars>>

Restart ==
    /\ watchdog = "cleared"
    /\ fluentd' = "unstarted" /\ watchdog' = "assigned"
    /\ UNCHANGED <<world, pilotVars, reloader, alive, deaths, workerVars>>

\* A start that fails leaves the command without a Process, and Wait returns
\* at once.
Exec ==
    /\ watchdog = "assigned" /\ watchdog' = "waiting"
    /\ \/ fluentd' = "started" /\ alive' = TRUE /\ WorkerStarts
       \/ UNCHANGED <<fluentd, alive, workerVars>>
    /\ UNCHANGED <<world, pilotVars, reloader, deaths>>

-----------------------------------------------------------------------------
World == (\E c \in Containers : ContainerStarts(c) \/ ContainerDies(c)) \/ FluentdDies
MainStep ==
    ListContainers \/ (\E c \in Containers : ListNext(c)) \/ ListDone
    \/ NewContainer("main") \/ AskReload("main")
EventStep == StartEvent \/ DieEvent \/ NewContainer("event") \/ AskReload("event")
TimerStep == (\E c \in Containers : Clean(c)) \/ CleanReload
ReloadStep == Ready \/ Lock \/ CheckStarted \/ ReadPid \/ Signal \/ KillWorker
WatchdogStep == WaitReturns \/ Restart \/ Exec

FluentdNext ==
    /\ reloader # "panic"
    /\ World \/ WorkerReloads \/ MainStep \/ EventStep \/ TimerStep \/ ReloadStep
       \/ WatchdogStep

FluentdSpec == FluentdInit /\ [][FluentdNext]_fluentdVars

\* Every goroutine of the daemon is scheduled, and its timers end.
Goes == {"main", "event", "reload", "watchdog"}
Goroutine(g) ==
    /\ reloader # "panic"
    /\ CASE g = "main" -> MainStep [] g = "event" -> EventStep
         [] g = "reload" -> ReloadStep [] g = "watchdog" -> WatchdogStep
Timer(c) == reloader # "panic" /\ Clean(c)
TimerEnd == reloader # "panic" /\ CleanReload
FairFluentdSpec ==
    /\ FluentdSpec
    /\ \A g \in Goes : WF_fluentdVars(Goroutine(g))
    /\ \A c \in Containers : WF_fluentdVars(Timer(c))
    /\ WF_fluentdVars(TimerEnd)

-----------------------------------------------------------------------------
\* While no request is on its way and none is being served, the worker has
\* read exactly the files that are there, unless a request was turned away
\* since it started ("Another load is pending", tryReload): the pgrep and kill
\* of Reload make up for a signal fluentd does not follow, and a restart for a
\* reload that found no process.
UnloadedWasRefused ==
    /\ reloader \in {"back", "wait"} /\ alive /\ removed = 0
    /\ \A g \in Goroutines : writer[g] # "try"
    => loaded = confs \/ refused

\* A running container that was started once, and whose start the daemon has
\* taken note of, has its configuration: only the timer of an earlier life of
\* the container (delContainer's 15 minutes) takes it away.
KeptWhileRunning ==
    \A c \in Containers \ failed :
       /\ docker[c] = "running" /\ starts[c] = 1 /\ listing = "up"
       /\ \A i \in DOMAIN events : events[i].id # c
       /\ \A g \in Goroutines : writer[g] = "write" => subject[g] # c
       => c \in confs

\* doReload comes back for the next request: processAllContainers, which holds
\* the mutex reload needs, never waits for doReload in turn.
ReloadReturns == [](reloader = "asked" => <>(reloader \in {"wait", "panic"}))

\* The configuration of a container that stays down is removed.
StoppedRemoved ==
    <>[](\/ reloader = "panic"
         \/ \A c \in Containers : docker[c] = "exited" => c \notin confs)
=============================================================================
