------------------------------ MODULE AtlasInfo ------------------------------
(***************************************************************************)
(* gpu/atlas/AtlasInfo.go with gpu/atlas/dcmi/dcmi.go.  Every call of InfoAll *)
(* loads libdcmi.so, asks it about the cards and lets it go; calls of several *)
(* handlers overlap and share the one handle dcmiHandle.  The dynamic linker  *)
(* counts the loads and unmaps the library when the count is back at zero.    *)
(***************************************************************************)
EXTENDS Integers, FiniteSets

CONSTANTS
    Callers,      \* handlers that call InfoAll
    MaxLoads      \* bound on the loads that failures can leave behind

ASSUME AtlasAssumption == IsFiniteSet(Callers) /\ MaxLoads \in Nat

VARIABLES
    dcmiHandle,   \* "null" or "lib"
    loads,        \* the linker's count for the library
    inside,       \* callers between DcInit and DcShutDown
    loadFailed    \* dlopen has failed since the daemon started

atlasVars == <<dcmiHandle, loads, inside, loadFailed>>

\* Types of the variables; the library is not unloaded more often than loaded.
AtlasTypeOK ==
    /\ dcmiHandle \in {"null", "lib"} /\ loads \in Nat
    /\ inside \subseteq Callers /\ loadFailed \in BOOLEAN

\* After the init of the package, which loaded the library and let it go.
AtlasInit ==
    dcmiHandle = "lib" /\ loads = 0 /\ inside = {} /\ loadFailed = FALSE

\* Mutant: a handle that is there is taken for a loaded library.
DcInitOnce(u) ==
    /\ u \notin inside /\ inside' = inside \cup {u}
    /\ IF dcmiHandle = "lib" THEN UNCHANGED <<dcmiHandle, loads, loadFailed>>
       ELSE dcmiHandle' = "lib" /\ loads' = loads + 1 /\ UNCHANGED loadFailed

\* InfoAll goes on whether or not the library could be loaded.
DcInit(u) ==
    /\ u \notin inside /\ inside' = inside \cup {u}
    /\ \/ /\ loads < MaxLoads
          /\ dcmiHandle' = "lib" /\ loads' = loads + 1 /\ UNCHANGED loadFailed
       \/ dcmiHandle' = "null" /\ loadFailed' = TRUE /\ UNCHANGED loads

\* Deferred: also when the calls of the library fail.  The handle stays.
DcShutDown(u) ==
    /\ u \in inside /\ inside' = inside \ {u}
    /\ loads' = IF dcmiHandle = "null" \/ loads = 0 THEN loads ELSE loads - 1
    /\ UNCHANGED <<dcmiHandle, loadFailed>>

AtlasNext == \E u \in Callers : DcInit(u) \/ DcShutDown(u)
AtlasSpec == AtlasInit /\ [][AtlasNext]_atlasVars

\* As long as dlopen has not failed, the library is mapped exactly while some
\* caller is between DcInit and DcShutDown: no overlap of handlers unmaps it
\* under a running call, and none leaves it mapped.
LoadedWhileInside == ~loadFailed => loads = Cardinality(inside)
=============================================================================
