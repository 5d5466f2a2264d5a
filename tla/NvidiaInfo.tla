----------------------------- MODULE NvidiaInfo -----------------------------
(***************************************************************************)
(* gpu/nvidia/NvidiaInfo.go with Service/GpuInfoService.go: every viewer of   *)
(* a container's GPUs has a websocket handler that calls Info every five      *)
(* seconds.  The calls share the map GpuDeviceMap of device handles without   *)
(* a lock.  Access to a Go map while another goroutine writes it may end the  *)
(* daemon, or go unnoticed.                                                  *)
(***************************************************************************)
EXTENDS Integers, Sequences, FiniteSets, Functions

CONSTANTS
    Viewers,
    UUIDs,        \* devices named by a GPU- uuid
    Indexes,      \* devices named by their number
    Unknown,      \* devices for which nvml has no handle
    Asked         \* index: the devices of each viewer's container, a sequence

Devices == UUIDs \cup Indexes

ASSUME InfoAssumption ==
    /\ UUIDs \cap Indexes = {} /\ Unknown \subseteq Devices
    /\ \A v \in Viewers : Asked[v] \in Seq(Devices)

VARIABLES
    GpuDeviceMap, \* devices whose handle is in the map
    made,         \* how often the map was made: "nil", "once" or "again"
    viewing,      \* each handler: "begin", "make", "look", "found", "store",
                  \* "stored", "astray", "query", "send", "sleep", "end"
    rest,         \* the devices that its call of Info has still to do
    devH,         \* the handle it queries: a device, or "zero"
    res,          \* the result so far: device -> what was read through the handle
    shown,        \* what the viewer was last sent about each device
    gone,         \* viewers that have left
    fatal         \* the runtime found concurrent use of the map

infoVars == <<GpuDeviceMap, made, viewing, rest, devH, res, shown, gone, fatal>>

Readings == {"none", "zero", "real"}

\* Types of the variables; GpuDeviceMap never holds a device without a handle.
InfoTypeOK ==
    /\ GpuDeviceMap \subseteq Devices \ Unknown
    /\ made \in {"nil", "once", "again"}
    /\ viewing \in [Viewers -> {"begin", "make", "look", "found", "store", "stored",
                                "astray", "query", "send", "sleep", "end"}]
    /\ \A v \in Viewers : rest[v] \in Seq(Devices)
    /\ devH \in [Viewers -> Devices \cup {"zero"}]
    /\ res \in [Viewers -> [Devices -> Readings]]
    /\ shown \in [Viewers -> [Devices -> Readings]]
    /\ gone \subseteq Viewers /\ fatal \in BOOLEAN

Nothing == [d \in Devices |-> "none"]

InfoInit ==
    /\ GpuDeviceMap = {} /\ made = "nil"
    /\ viewing = [v \in Viewers |-> "begin"]
    /\ rest = [v \in Viewers |-> <<>>]
    /\ devH = [v \in Viewers |-> "zero"]
    /\ res = [v \in Viewers |-> Nothing] /\ shown = [v \in Viewers |-> Nothing]
    /\ gone = {} /\ fatal = FALSE

Go(v, pc) == viewing' = [viewing EXCEPT ![v] = pc]

\* A handler whose container has no device answers NoContent.  An upgrade that
\* fails leaves a nil connection: like a viewer who has left, it ends the handler
\* at the first message.  Info first tests GpuDeviceMap for nil.
BeginView(v) ==
    /\ viewing[v] = "begin"
    /\ IF Asked[v] = <<>> THEN Go(v, "end") /\ UNCHANGED <<rest, gone>>
       ELSE /\ Go(v, IF made = "nil" THEN "make" ELSE "look")
            /\ rest' = [rest EXCEPT ![v] = Asked[v]]
            /\ gone' \in {gone, gone \cup {v}}
    /\ UNCHANGED <<GpuDeviceMap, made, devH, res, shown, fatal>>

\* The map is made after the test, by every handler that saw nil.  A write that
\* is under way goes to the map that was.
MakeMap(v) ==
    /\ viewing[v] = "make"
    /\ made' = IF made = "nil" THEN "once" ELSE "again"
    /\ GpuDeviceMap' = {}
    /\ viewing' = [u \in Viewers |-> IF u = v THEN "look"
                                     ELSE IF viewing[u] = "stored" THEN "astray"
                                     ELSE viewing[u]]
    /\ UNCHANGED <<rest, devH, res, shown, gone, fatal>>

\* The runtime may notice that another goroutine is writing the map.
Access(v) ==
    \/ UNCHANGED fatal
    \/ /\ \E w \in Viewers \ {v} : viewing[w] = "stored"
       /\ fatal' = TRUE

\* Mutant: nvml is asked every time.
LookUpDeviceAlways(v) ==
    /\ viewing[v] = "look" /\ rest[v] # <<>> /\ Access(v)
    /\ LET d == Head(rest[v]) IN
       IF d \notin Unknown THEN Go(v, "store") ELSE Go(v, "end")
    /\ UNCHANGED <<GpuDeviceMap, made, rest, devH, res, shown, gone>>

\* The map has the handle, or nvml is asked for it; a uuid that nvml does not
\* know is left to the nvidia-smi command.
LookUpDevice(v) ==
    /\ viewing[v] = "look" /\ rest[v] # <<>> /\ Access(v)
    /\ LET d == Head(rest[v]) IN
       CASE d \in GpuDeviceMap ->
              Go(v, "found") /\ UNCHANGED <<rest, res>>
         [] d \notin GpuDeviceMap /\ d \notin Unknown ->
              Go(v, "store") /\ UNCHANGED <<rest, res>>
         [] d \in Unknown \cap UUIDs ->
              \/ /\ res' = [res EXCEPT ![v][d] = "real"]
                 /\ rest' = [rest EXCEPT ![v] = Tail(@)]
                 /\ UNCHANGED viewing
              \/ Go(v, "end") /\ UNCHANGED <<rest, res>>
         [] OTHER -> Go(v, "end") /\ UNCHANGED <<rest, res>>
    /\ UNCHANGED <<GpuDeviceMap, made, devH, shown, gone>>

\* The handle is read from the map a second time, which may be a new one.
ReadHandle(v) ==
    /\ viewing[v] = "found" /\ Access(v) /\ Go(v, "query")
    /\ devH' = [devH EXCEPT ![v] =
                   IF Head(rest[v]) \in GpuDeviceMap THEN Head(rest[v]) ELSE "zero"]
    /\ UNCHANGED <<GpuDeviceMap, made, rest, res, shown, gone>>

\* The write of the map takes two steps: the writing flag of the runtime is set
\* in the first and cleared in the second.
StoreHandle(v) ==
    /\ viewing[v] = "store" /\ Access(v) /\ Go(v, "stored")
    /\ UNCHANGED <<GpuDeviceMap, made, rest, devH, res, shown, gone>>

\* Mutant: the handle of a new device is used but not kept.
HandleStoredNot(v) ==
    /\ viewing[v] \in {"stored", "astray"}
    /\ devH' = [devH EXCEPT ![v] = IF Head(rest[v]) \in UUIDs THEN "zero" ELSE Head(rest[v])]
    /\ Go(v, "query")
    /\ UNCHANGED <<GpuDeviceMap, made, rest, res, shown, gone, fatal>>

\* For a uuid the handle is kept in a devH of the inner block, and the one that
\* is queried next is still the zero value.
HandleStored(v) ==
    /\ \/ /\ viewing[v] = "stored"
          /\ GpuDeviceMap' = GpuDeviceMap \cup {Head(rest[v])}
       \/ viewing[v] = "astray" /\ UNCHANGED GpuDeviceMap
    /\ devH' = [devH EXCEPT ![v] = IF Head(rest[v]) \in UUIDs THEN "zero" ELSE Head(rest[v])]
    /\ Go(v, "query")
    /\ UNCHANGED <<made, rest, res, shown, gone, fatal>>

Query(v) ==
    /\ viewing[v] = "query"
    /\ LET d == Head(rest[v]) IN
       res' = [res EXCEPT ![v][d] = IF devH[v] = d THEN "real" ELSE "zero"]
    /\ rest' = [rest EXCEPT ![v] = Tail(@)]
    /\ Go(v, "look")
    /\ UNCHANGED <<GpuDeviceMap, made, devH, shown, gone, fatal>>

InfoReturns(v) ==
    /\ viewing[v] = "look" /\ rest[v] = <<>>
    /\ Go(v, "send")
    /\ UNCHANGED <<GpuDeviceMap, made, rest, devH, res, shown, gone, fatal>>

SendInfo(v) ==
    /\ viewing[v] = "send"
    /\ IF v \in gone THEN Go(v, "end") /\ UNCHANGED shown
       ELSE Go(v, "sleep") /\ shown' = [shown EXCEPT ![v] = res[v]]
    /\ UNCHANGED <<GpuDeviceMap, made, rest, devH, res, gone, fatal>>

Again(v) ==
    /\ viewing[v] = "sleep" /\ Go(v, "look")
    /\ rest' = [rest EXCEPT ![v] = Asked[v]] /\ res' = [res EXCEPT ![v] = Nothing]
    /\ UNCHANGED <<GpuDeviceMap, made, devH, shown, gone, fatal>>

Leave(v) ==
    /\ v \notin gone /\ gone' = gone \cup {v}
    /\ UNCHANGED <<GpuDeviceMap, made, viewing, rest, devH, res, shown, fatal>>

Handler(v) ==
    \/ BeginView(v) \/ MakeMap(v) \/ LookUpDevice(v) \/ ReadHandle(v)
    \/ StoreHandle(v) \/ HandleStored(v) \/ Query(v) \/ InfoReturns(v) \/ SendInfo(v) \/ Again(v)

InfoNext == ~fatal /\ \E v \in Viewers : Handler(v) \/ Leave(v)

InfoSpec == InfoInit /\ [][InfoNext]_infoVars

\* A handler is a goroutine, and its sleep ends.
ViewerServed(v) == ~fatal /\ Handler(v)
FairInfoSpec == InfoSpec /\ \A v \in Viewers : WF_infoVars(ViewerServed(v))

-----------------------------------------------------------------------------
\* A viewer sees the empty reading that the shadowed devH of Info causes at most
\* once for a device: after one message about a device every later one has its
\* true values, whatever the other viewers do to the map meanwhile, unless two of
\* them made the map.
EmptyOnlyFirst ==
    [][\A v \in Viewers, d \in Devices :
          /\ viewing[v] = "send" /\ viewing'[v] = "sleep"
          /\ made = "once" /\ shown[v][d] # "none"
          => shown'[v][d] = "real"]_infoVars

\* Once every device that is asked for is known, or nvml has no handle for it,
\* and neither a write nor the making of the map is under way, the map is never
\* written again, and the handlers' unlocked use of it cannot end the daemon: the
\* danger is over after the first reading of the last new device.
Settled ==
    /\ made # "nil"
    /\ \A v \in Viewers : Range(Asked[v]) \subseteq GpuDeviceMap \cup Unknown
    /\ \A v \in Viewers : viewing[v] \notin {"make", "store", "stored"}
SettledStays == [][Settled => Settled' /\ (fatal' = fatal)]_infoVars

\* The handler of a viewer who has left ends.
ViewEnds ==
    <>[](fatal \/ \A v \in Viewers : v \in gone => viewing[v] = "end")
=============================================================================
