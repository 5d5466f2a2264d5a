---------------------------- MODULE FilebeatPilot ----------------------------
(***************************************************************************)
(* pilot/pilot.go with pilot/filebeat_piloter.go: the daemon writes one      *)
(* filebeat configuration per running container that asks for log           *)
(* collection, and takes it away once the container has exited and its log   *)
(* is read.  The main goroutine lists the containers once, the event          *)
(* goroutine follows docker's events, and watcher goroutines scan the         *)
(* configurations of exited containers.  Every container of the model has a   *)
(* log label; one without has no part in this.                               *)
(***************************************************************************)
EXTENDS Integers, Sequences, FiniteSets

CONSTANTS
    Containers,
    Path,       \* the log path in the configuration of each container
    AutoMount,       \* the paths for which isAutoMountPath holds
    Watchers,   \* goroutines that run FilebeatPiloter.watch
    MaxLines,   \* bound on the length of a log file
    MaxEvents,  \* a container is restarted only while fewer events are waiting
    Faults      \* what may happen besides: see the actions

ASSUME ConstantsAssumption ==
    /\ AutoMount \subseteq {Path[c] : c \in Containers}
    /\ \A c, d \in Containers : Path[c] = Path[d] /\ Path[c] \in AutoMount => c = d
    /\ MaxLines \in Nat /\ MaxEvents \in Nat
    /\ Faults \subseteq {"restart", "lossy", "crash", "filebeat", "error"}

VARIABLES
    docker,     \* each container: "new", "running", "exited" or "gone"
    size,       \* length of each log file, NoFile if there is none
    offset,     \* filebeat's registry: how far each file is read, or Unknown
    events,     \* docker events that the event goroutine has not received
    conf,       \* containers whose configuration file exists
    links,      \* containers with symbolic links below SYMLINK_LOGS_BASE
    watchContainer,
    mpc,        \* main goroutine: "boot", "list", "each", "write", "up"
    listed,     \* containerIDs: the containers of the listing
    mtodo,      \* those of them still to process
    mcur,       \* the container that the main goroutine has inspected
    epc, ecur,  \* event goroutine: "idle" or "write", and its container
    spc,        \* watcher goroutines: "off", "idle", "paths", "range", "remove"
    states,     \* the registry as each scan read it
    configPaths,\* paths of configurations that are not watched, for each scan
    left,       \* containers that each range over watchContainer must produce
    scur        \* the container each scan is about to remove

vars == <<docker, size, offset, events, conf, links, watchContainer, mpc, listed,
          mtodo, mcur, epc, ecur, spc, states, configPaths, left, scur>>
world == <<docker, size, offset>>
mainVars == <<mpc, listed, mtodo, mcur>>
files == <<conf, links>>
eventVars == <<epc, ecur>>
scanVars == <<spc, states, configPaths, left, scur>>

Paths == {Path[c] : c \in Containers}
NoFile == -1
Unknown == -1
None == "none"

-----------------------------------------------------------------------------
(* Docker, the containers and filebeat.                                      *)
\* Docker tells the daemon once it has subscribed.
Emit(e, c) ==
    events' = IF mpc = "boot" THEN events
              ELSE Append(events, [action |-> e, id |-> c])

Start(c) ==
    /\ \/ docker[c] = "new"
       \/ docker[c] = "exited" /\ "restart" \in Faults /\ Len(events) < MaxEvents
    /\ docker' = [docker EXCEPT ![c] = "running"]
    /\ size' = [size EXCEPT ![Path[c]] = IF @ = NoFile THEN 0 ELSE @]
    /\ Emit("start", c)
    /\ UNCHANGED <<offset, files, watchContainer, mainVars, eventVars,
                   scanVars>>

Die(c) ==
    /\ docker[c] = "running"
    /\ docker' = [docker EXCEPT ![c] = "exited"]
    /\ Emit("die", c)
    /\ UNCHANGED <<size, offset, files, watchContainer, mainVars, eventVars, scanVars>>

\* Docker removes the container's own log; a bind-mounted host path stays.
Destroy(c) ==
    /\ docker[c] = "exited"
    /\ docker' = [docker EXCEPT ![c] = "gone"]
    /\ size' = [size EXCEPT ![Path[c]] = IF Path[c] \in AutoMount THEN NoFile ELSE @]
    /\ Emit("destroy", c)
    /\ UNCHANGED <<offset, files, watchContainer, mainVars, eventVars,
                   scanVars>>

Log(c) ==
    /\ docker[c] = "running" /\ size[Path[c]] < MaxLines
    /\ size' = [size EXCEPT ![Path[c]] = @ + 1]
    /\ UNCHANGED <<docker, offset, events, files, watchContainer,
                   mainVars, eventVars, scanVars>>

\* filebeat looks every second at the configurations and reads their files.
Harvest(p) ==
    /\ mpc # "boot" /\ \E c \in conf : Path[c] = p
    /\ offset[p] < size[p]
    /\ offset' = [offset EXCEPT ![p] = @ + 1]
    /\ UNCHANGED <<docker, size, events, files, watchContainer, mainVars,
                   eventVars, scanVars>>

-----------------------------------------------------------------------------
(* What both goroutines of pilot.go use.                                     *)
exists(c) == c \in conf

createVolumeSymlink(c) == links \cup {c}
removeVolumeSymlink(S) == links \ S

\* newContainer: the links, then the configuration; either may fail.
newContainer(c) ==
    \/ conf' = conf \cup {c} /\ links' = createVolumeSymlink(c)
    \/ "error" \in Faults /\ conf' = conf /\ links' \in {links, createVolumeSymlink(c)}

-----------------------------------------------------------------------------
(* The main goroutine.                                                       *)
\* watch, lines 113-157: clear the configurations, start filebeat and the
\* goroutines, subscribe to the events.
Boot ==
    /\ mpc = "boot"
    /\ conf' = {}
    /\ \E w \in Watchers : spc' = [v \in Watchers |-> IF v = w THEN "idle" ELSE "off"]
    /\ mpc' = "list"
    /\ UNCHANGED <<world, events, links, watchContainer, listed, mtodo, mcur,
                   eventVars, states, configPaths, left, scur>>

\* processAllContainers, lines 224-229.
List ==
    /\ mpc = "list"
    /\ \/ /\ mpc' = "each"
          /\ listed' = {c \in Containers : docker[c] = "running"}
          /\ mtodo' = listed'
       \/ "error" \in Faults /\ mpc' = "up" /\ UNCHANGED <<listed, mtodo>>
    /\ UNCHANGED <<world, events, files, watchContainer, mcur, eventVars, scanVars>>

\* Mutant: the inspected container is not handed on to newContainer.
ListEachForgets(c) ==
    /\ mpc = "each" /\ c \in mtodo
    /\ mtodo' = mtodo \ {c}
    /\ mpc' = "write"
    /\ UNCHANGED <<listed, mcur, world, events, files, watchContainer, eventVars,
                   scanVars>>

\* Lines 241-250: skip a container that has a configuration or cannot be
\* inspected; otherwise newContainer writes one in a later step.
ListEach(c) ==
    /\ mpc = "each" /\ c \in mtodo
    /\ mtodo' = mtodo \ {c}
    /\ IF exists(c) \/ docker[c] = "gone"
       THEN UNCHANGED <<mpc, mcur>>
       ELSE mpc' = "write" /\ mcur' = c
    /\ UNCHANGED <<listed, world, events, files, watchContainer, eventVars, scanVars>>

ListWrite ==
    /\ mpc = "write"
    /\ newContainer(mcur)
    /\ mpc' = "each" /\ mcur' = None
    /\ UNCHANGED <<world, events, watchContainer, listed, mtodo, eventVars, scanVars>>

\* Mutant: the daemon subscribes to the events after the listing.
ListEndThenSubscribe ==
    /\ mpc = "each" /\ mtodo = {}
    /\ links' = links \cap listed
    /\ mpc' = "up"
    /\ events' = <<>>
    /\ UNCHANGED <<world, conf, watchContainer, listed, mtodo, mcur, eventVars,
                   scanVars>>

\* Mutant: the listing does not end with processSymlink.
ListEndKeepsLinks ==
    /\ mpc = "each" /\ mtodo = {}
    /\ mpc' = "up"
    /\ UNCHANGED <<world, events, files, watchContainer, listed, mtodo, mcur,
                   eventVars, scanVars>>

\* processSymlink, lines 260-268: the links of containers that were not listed go.
ListEnd ==
    /\ mpc = "each" /\ mtodo = {}
    /\ links' = removeVolumeSymlink(Containers \ listed)
    /\ mpc' = "up"
    /\ UNCHANGED <<world, events, conf, watchContainer, listed, mtodo, mcur,
                   eventVars, scanVars>>

-----------------------------------------------------------------------------
(* The event goroutine.                                                      *)
\* processEvent: start and restart, lines 457-465.
EventStart ==
    /\ mpc # "boot" /\ epc = "idle" /\ events # <<>>
    /\ LET c == Head(events).id IN
       /\ Head(events).action = "start"
       /\ IF exists(c) \/ docker[c] = "gone"
          THEN UNCHANGED eventVars
          ELSE epc' = "write" /\ ecur' = c
    /\ events' = Tail(events)
    /\ UNCHANGED <<world, files, watchContainer, mainVars, scanVars>>

EventWrite ==
    /\ epc = "write"
    /\ newContainer(ecur)
    /\ epc' = "idle" /\ ecur' = None
    /\ UNCHANGED <<world, events, watchContainer, mainVars, scanVars>>

feed(c) == watchContainer \cup {c}

\* processEvent: destroy and die, through delContainer and feed.
EventDie ==
    /\ mpc # "boot" /\ epc = "idle" /\ events # <<>>
    /\ Head(events).action \in {"die", "destroy"}
    /\ links' = removeVolumeSymlink({Head(events).id})
    /\ watchContainer' = feed(Head(events).id)
    /\ events' = Tail(events)
    /\ UNCHANGED <<world, conf, mainVars, eventVars, scanVars>>

\* Line 154: after an error of the stream the goroutine subscribes again; what
\* docker sent in between is lost.
Resubscribe ==
    /\ "lossy" \in Faults
    /\ mpc # "boot" /\ epc = "idle" /\ events # <<>>
    /\ events' = <<>>
    /\ UNCHANGED <<world, files, watchContainer, mainVars, eventVars, scanVars>>

\* The process ends, as main does when the stream is at its end (line 151), and
\* is started again.
Crash ==
    /\ "crash" \in Faults /\ mpc # "boot"
    /\ mpc' = "boot" /\ listed' = {} /\ mtodo' = {} /\ mcur' = None
    /\ epc' = "idle" /\ ecur' = None
    /\ spc' = [w \in Watchers |-> "off"]
    /\ states' = [w \in Watchers |-> [p \in Paths |-> Unknown]]
    /\ configPaths' = [w \in Watchers |-> {}]
    /\ left' = [w \in Watchers |-> {}]
    /\ scur' = [w \in Watchers |-> None]
    /\ watchContainer' = {}
    /\ events' = <<>>
    /\ UNCHANGED <<world, files>>

-----------------------------------------------------------------------------
(* The watchers.                                                             *)
\* Start, lines 255-272: when filebeat exits it is started again, and with it
\* one more watcher.
FilebeatExit(w) ==
    /\ "filebeat" \in Faults /\ mpc # "boot" /\ spc[w] = "off"
    /\ spc' = [spc EXCEPT ![w] = "idle"]
    /\ UNCHANGED <<world, events, files, watchContainer, mainVars, eventVars,
                   states, configPaths, left, scur>>

\* scan, line 100: the registry is read; a scan that cannot read it is over.
ScanRegistry(w) ==
    /\ spc[w] = "idle"
    /\ spc' = [spc EXCEPT ![w] = "paths"]
    /\ states' = [states EXCEPT ![w] = offset]
    /\ UNCHANGED <<world, events, files, watchContainer, mainVars, eventVars,
                   configPaths, left, scur>>

loadConfigPaths == {Path[c] : c \in conf \ watchContainer}

\* Line 105, and the start of the loop of line 106.
ScanPaths(w) ==
    /\ spc[w] = "paths"
    /\ spc' = [spc EXCEPT ![w] = "range"]
    /\ configPaths' = [configPaths EXCEPT ![w] = loadConfigPaths]
    /\ left' = [left EXCEPT ![w] = watchContainer]
    /\ UNCHANGED <<world, events, files, watchContainer, mainVars, eventVars,
                   states, scur>>

\* Mutant: the last line of the file may be missing.
UnreadButOne(w, p) ==
    size[p] # NoFile /\ states[w][p] # Unknown /\ states[w][p] + 1 < size[p]

\* A file that is gone or that the registry does not know counts as read.
Unread(w, p) == size[p] # NoFile /\ states[w][p] # Unknown /\ states[w][p] < size[p]

canRemoveConf(w, c) ==
    Unread(w, Path[c]) => Path[c] \notin AutoMount /\ Path[c] \in configPaths[w]

\* Mutant: an entry that cannot be removed yet is dropped from the map.
ScanVisitDrops(w, c) ==
    /\ spc[w] = "range" /\ c \in watchContainer
    /\ left' = [left EXCEPT ![w] = @ \ {c}]
    /\ IF c \in conf /\ canRemoveConf(w, c)
       THEN /\ spc' = [spc EXCEPT ![w] = "remove"]
            /\ scur' = [scur EXCEPT ![w] = c]
            /\ UNCHANGED watchContainer
       ELSE /\ watchContainer' = watchContainer \ {c}
            /\ UNCHANGED <<spc, scur>>
    /\ UNCHANGED <<world, events, files, mainVars, eventVars, states, configPaths>>

\* Lines 107-112 for one entry of the map; entries that come in during the
\* loop may or may not be produced.
ScanVisit(w, c) ==
    /\ spc[w] = "range" /\ c \in watchContainer
    /\ left' = [left EXCEPT ![w] = @ \ {c}]
    /\ \/ /\ c \notin conf
          /\ watchContainer' = watchContainer \ {c}
          /\ UNCHANGED <<spc, scur>>
       \/ /\ c \in conf /\ canRemoveConf(w, c)
          /\ spc' = [spc EXCEPT ![w] = "remove"]
          /\ scur' = [scur EXCEPT ![w] = c]
          /\ UNCHANGED watchContainer
       \/ /\ c \in conf /\ ~canRemoveConf(w, c) /\ c \in left[w]
          /\ UNCHANGED <<watchContainer, spc, scur>>
    /\ UNCHANGED <<world, events, files, mainVars, eventVars, states, configPaths>>

\* Lines 113-117: the entry stays when another watcher was first.
ScanRemove(w) ==
    /\ spc[w] = "remove"
    /\ conf' = conf \ {scur[w]}
    /\ watchContainer' = IF scur[w] \in conf THEN watchContainer \ {scur[w]}
                         ELSE watchContainer
    /\ spc' = [spc EXCEPT ![w] = "range"]
    /\ scur' = [scur EXCEPT ![w] = None]
    /\ UNCHANGED <<links, world, events, mainVars, eventVars, states, configPaths, left>>

ScanEnd(w) ==
    /\ spc[w] = "range" /\ left[w] \cap watchContainer = {}
    /\ spc' = [spc EXCEPT ![w] = "idle"]
    /\ states' = [states EXCEPT ![w] = [p \in Paths |-> Unknown]]
    /\ configPaths' = [configPaths EXCEPT ![w] = {}]
    /\ left' = [left EXCEPT ![w] = {}]
    /\ UNCHANGED <<world, events, files, watchContainer, mainVars, eventVars, scur>>

-----------------------------------------------------------------------------
Init ==
    /\ docker \in [Containers -> {"new", "running"}]
    /\ size = [p \in Paths |-> IF \E c \in Containers : Path[c] = p /\ docker[c] = "running"
                              THEN 0 ELSE NoFile]
    /\ offset = [p \in Paths |-> Unknown]
    /\ events = <<>>
    /\ conf = {} /\ links = {} /\ watchContainer = {}
    /\ mpc = "boot" /\ listed = {} /\ mtodo = {} /\ mcur = None
    /\ epc = "idle" /\ ecur = None
    /\ spc = [w \in Watchers |-> "off"]
    /\ states = [w \in Watchers |-> [p \in Paths |-> Unknown]]
    /\ configPaths = [w \in Watchers |-> {}]
    /\ left = [w \in Watchers |-> {}]
    /\ scur = [w \in Watchers |-> None]

Environment ==
    \/ \E c \in Containers : Start(c) \/ Die(c) \/ Destroy(c) \/ Log(c)
    \/ \E w \in Watchers : FilebeatExit(w)
    \/ Resubscribe \/ Crash

Main == Boot \/ List \/ (\E c \in Containers : ListEach(c)) \/ ListWrite \/ ListEnd

Events == EventStart \/ EventWrite \/ EventDie

Scan(w) ==
    \/ ScanRegistry(w) \/ ScanPaths(w) \/ ScanRemove(w) \/ ScanEnd(w)
    \/ \E c \in Containers : ScanVisit(w, c)

Next ==
    \/ Environment \/ Main \/ Events
    \/ \E p \in Paths : Harvest(p)
    \/ \E w \in Watchers : Scan(w)

Spec == Init /\ [][Next]_vars

(***************************************************************************)
(* Fairness: the scheduler runs the goroutines, the scan timer keeps firing, *)
(* and filebeat goes on reading.  Nothing is owed by the containers.         *)
(***************************************************************************)
Fairness ==
    /\ WF_vars(Main) /\ WF_vars(Events)
    /\ \A p \in Paths : WF_vars(Harvest(p))
    /\ \A w \in Watchers : WF_vars(Scan(w))

FairSpec == Spec /\ Fairness

-----------------------------------------------------------------------------
\* Every variable of the model stays in its range.
TypeOK ==
    /\ docker \in [Containers -> {"new", "running", "exited", "gone"}]
    /\ size \in [Paths -> -1 .. MaxLines] /\ offset \in [Paths -> -1 .. MaxLines]
    /\ events \in Seq([action : {"start", "die", "destroy"}, id : Containers])
    /\ conf \subseteq Containers /\ links \subseteq Containers
    /\ watchContainer \subseteq Containers /\ listed \subseteq Containers
    /\ mpc \in {"boot", "list", "each", "write", "up"}
    /\ mtodo \subseteq Containers
    /\ mpc = "write" => mcur \in Containers
    /\ epc \in {"idle", "write"}
    /\ epc = "write" => ecur \in Containers
    /\ spc \in [Watchers -> {"off", "idle", "paths", "range", "remove"}]
    /\ states \in [Watchers -> [Paths -> -1 .. MaxLines]]
    /\ configPaths \in [Watchers -> SUBSET Paths]
    /\ left \in [Watchers -> SUBSET Containers]
    /\ scur \in [Watchers -> Containers \cup {None}]
    /\ \A w \in Watchers : spc[w] = "remove" => scur[w] \in Containers

\* The daemon has taken in everything that docker told it.
CaughtUp == mpc = "up" /\ events = <<>> /\ epc = "idle"

\* Once the daemon has caught up, every running container has a configuration:
\* none slips through between the subscription, the listing and the events, and
\* no scan takes the configuration of a running container.
RunningCollected ==
    CaughtUp => \A c \in Containers : docker[c] = "running" => c \in conf

\* Once the daemon has caught up, the links of a container that is gone are gone,
\* also when it went while the daemon was down (lines 260-268).  The exception is
\* a container of the listing: it can be inspected before its end and linked
\* after it.
StaleLinksGone ==
    CaughtUp => \A c \in links : docker[c] = "gone" => c \in listed

\* When a scan is about to remove the configuration of an exited container, the
\* log that its copy of the registry knew is read to the end, although the copy,
\* the listing of the paths and the test of the file are steps of their own and
\* two watchers may scan at once (lines 100-119 and 138-150).
RemovalAfterRead ==
    \A w \in Watchers :
        LET c == scur[w] IN
        /\ spc[w] = "remove"
        /\ docker[c] = "exited" /\ Path[c] \in AutoMount /\ states[w][Path[c]] # Unknown
        => offset[Path[c]] = size[Path[c]]

\* The configuration of an exited container that is on the list of the scans is
\* removed at last: filebeat gets to the end of the log, or another container
\* takes care of the path, or the file is gone.
WatchedRemoved ==
    \A c \in Containers :
        c \in watchContainer /\ docker[c] \in {"exited", "gone"} ~> c \notin conf
=============================================================================
