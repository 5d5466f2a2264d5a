---------------------------- MODULE QuotaControl ----------------------------
(***************************************************************************)
(* quota/ProjectQuota.go: the controller that gives every user directory    *)
(* below the base directory an XFS project id and sets the disk limit of    *)
(* that project.  HTTP handlers run SetDirQuota, GetDirQuota and ReleaseDir *)
(* concurrently; each critical section of the code is one action, and what  *)
(* the code does outside a lock is an action of its own.  The file system   *)
(* and its quota table survive a restart of the daemon, the id map and the  *)
(* id counter do not: NewControl rebuilds them by scanning the disk.        *)
(***************************************************************************)
EXTENDS Integers, FiniteSets

CONSTANTS
    Paths,      \* directories below the base directory that calls name
    Base,       \* the base directory (Control.relBasePath)
    Parent,     \* the directory that holds each path
    Threads,    \* handler goroutines
    Ops,        \* operations that clients call, within {"set", "release"}
    Sizes,      \* Quota.Size values that clients ask for, in bytes
    BaseID,     \* project id of the base directory
    Offset,     \* 10000 in the code: ids start above BaseID + Offset
    MaxID       \* bound on project ids (the code's uint32 allows 2^32 - 1)

ASSUME ConstantsAssumption ==
    /\ Base \notin Paths
    /\ Parent \in [Paths -> Paths \cup {Base}]
    /\ \A p \in Paths : Parent[p] # Base => Parent[Parent[p]] = Base
    /\ Ops \subseteq {"set", "release"}
    /\ Sizes \subseteq Nat
    /\ BaseID \in Nat
    /\ Offset \in Nat \ {0}
    /\ MaxID \in Nat
    /\ BaseID + Offset < MaxID

VARIABLES
    fs,             \* what each path is on disk: "none", "dir" or "file"
    projid,         \* project id of each directory on disk, 0 for none
    limit,          \* hard limit of each project in 512-byte blocks, 0 for none
    quotas,         \* Control.quotas, 0 where the map has no entry
    nextProjectID,  \* pquotaState.nextProjectID
    up,             \* NewControl has returned and the handlers use its result
    pc,             \* where each goroutine is in its call, "idle" between calls
    arg,            \* targetPath of the call, Base between calls
    size,           \* quota.Size of the call
    pid,            \* projectID of the call, 0 while !ok
    granted         \* history: the size of the last SetDirQuota that succeeded
                    \* on the directory now at each path, Unset if none

Unset == -1

diskVars == <<fs, projid, limit, granted>>
memVars == <<quotas, nextProjectID, up>>
callVars == <<pc, arg, size, pid>>
vars == <<fs, projid, limit, quotas, nextProjectID, up, pc, arg, size, pid,
          granted>>

IDs == 0 .. MaxID
MinProjectID == BaseID + Offset

TopLevel == {p \in Paths : Parent[p] = Base}

(***************************************************************************)
(* The file system.  A new directory inherits the project id of the one     *)
(* that holds it: setProjectID raises the inherit flag together with the id.*)
(***************************************************************************)
ProjectOf(d) == IF d = Base THEN BaseID ELSE projid[d]

IsDir(d) == IF d = Base THEN TRUE ELSE fs[d] = "dir"

Children(d) == {p \in Paths : Parent[p] = d}
Below(d) == {p \in Paths : p = d \/ Parent[p] = d}

\* The ancestors of p, p first, that MkdirAll has to create (two levels).
Missing(p) == {d \in {p, Parent[p]} \ {Base} : fs[d] = "none"}

Inherited(d) ==
    IF d # Base /\ fs[d] = "none" THEN ProjectOf(Parent[d]) ELSE ProjectOf(d)

Created(p) ==
    /\ fs' = [d \in Paths |-> IF d \in Missing(p) THEN "dir" ELSE fs[d]]
    /\ projid' = [d \in Paths |->
                    IF d \in Missing(p) THEN Inherited(Parent[d]) ELSE projid[d]]

Removed(S) ==
    /\ fs' = [d \in Paths |-> IF d \in S THEN "none" ELSE fs[d]]
    /\ projid' = [d \in Paths |-> IF d \in S THEN 0 ELSE projid[d]]
    /\ granted' = [d \in Paths |-> IF d \in S THEN Unset ELSE granted[d]]

-----------------------------------------------------------------------------
Return(t) ==
    /\ pc' = [pc EXCEPT ![t] = "idle"]
    /\ arg' = [arg EXCEPT ![t] = Base]
    /\ size' = [size EXCEPT ![t] = 0]
    /\ pid' = [pid EXCEPT ![t] = 0]

\* Lines 89-91: the map is read under the read lock; ok is pid # 0.
SetLookup(t, p, s) ==
    /\ up /\ pc[t] = "idle" /\ "set" \in Ops
    /\ pc' = [pc EXCEPT ![t] = "stat"]
    /\ arg' = [arg EXCEPT ![t] = p]
    /\ size' = [size EXCEPT ![t] = s]
    /\ pid' = [pid EXCEPT ![t] = quotas[p]]
    /\ UNCHANGED <<diskVars, memVars>>

AfterMkdir(t) == IF pid[t] = 0 THEN "assign" ELSE "limit"

\* Lines 92-98: a path that is a file ends the call.
SetStat(t) ==
    /\ pc[t] = "stat"
    /\ \/ fs[arg[t]] = "file" /\ Return(t)
       \/ /\ fs[arg[t]] # "file"
          /\ pc' = [pc EXCEPT ![t] = IF fs[arg[t]] = "none" THEN "mkdir"
                                     ELSE AfterMkdir(t)]
          /\ UNCHANGED <<arg, size, pid>>
    /\ UNCHANGED <<diskVars, memVars>>

\* Line 94: the error of MkdirAll is dropped.
SetMkdir(t) ==
    /\ pc[t] = "mkdir"
    /\ pc' = [pc EXCEPT ![t] = AfterMkdir(t)]
    /\ \/ /\ \A d \in {arg[t], Parent[arg[t]]} \ {Base} : fs[d] # "file"
          /\ Created(arg[t])
       \/ UNCHANGED <<fs, projid>>
    /\ UNCHANGED <<limit, granted, memVars, arg, size, pid>>

\* Mutant: the increment of line 114 is missing.
SetAssignSameID(t) ==
    /\ pc[t] = "assign"
    /\ fs[arg[t]] = "dir"
    /\ projid' = [projid EXCEPT ![arg[t]] = nextProjectID]
    /\ pid' = [pid EXCEPT ![t] = nextProjectID]
    /\ pc' = [pc EXCEPT ![t] = "record"]
    /\ UNCHANGED <<fs, limit, granted, quotas, nextProjectID, up, arg, size>>

\* Lines 101-115, under the lock of the id counter.
SetAssign(t) ==
    /\ pc[t] = "assign"
    /\ \/ /\ fs[arg[t]] = "dir" /\ nextProjectID < MaxID
          /\ projid' = [projid EXCEPT ![arg[t]] = nextProjectID]
          /\ pid' = [pid EXCEPT ![t] = nextProjectID]
          /\ nextProjectID' = nextProjectID + 1
          /\ pc' = [pc EXCEPT ![t] = "record"]
          /\ UNCHANGED <<arg, size>>
       \/ /\ Return(t)
          /\ UNCHANGED <<projid, nextProjectID>>
    /\ UNCHANGED <<fs, limit, granted, quotas, up>>

\* Lines 117-119, under the lock of the map.
SetRecord(t) ==
    /\ pc[t] = "record"
    /\ quotas' = [quotas EXCEPT ![arg[t]] = pid[t]]
    /\ pc' = [pc EXCEPT ![t] = "limit"]
    /\ UNCHANGED <<diskVars, nextProjectID, up, arg, size, pid>>

Blocks(s) == s \div 512

\* Line 126 and setProjectQuota: the call may fail and then changes nothing.
SetLimit(t) ==
    /\ pc[t] = "limit"
    /\ Return(t)
    /\ \/ /\ limit' = [limit EXCEPT ![pid[t]] = Blocks(size[t])]
          /\ granted' = [granted EXCEPT ![arg[t]] = size[t]]
       \/ UNCHANGED <<limit, granted>>
    /\ UNCHANGED <<fs, projid, memVars>>

\* Lines 129-165: the quota that a call answers, Unset for an error.
GetDirQuota(p) ==
    IF quotas[p] = 0 \/ fs[p] = "none" THEN Unset ELSE 512 * limit[quotas[p]]

-----------------------------------------------------------------------------

\* Lines 169-177: an unknown path and a path below the first level are refused.
ReleaseLookup(t, p) ==
    /\ up /\ pc[t] = "idle" /\ "release" \in Ops
    /\ quotas[p] # 0 /\ p \in TopLevel
    /\ pc' = [pc EXCEPT ![t] = "remove"]
    /\ arg' = [arg EXCEPT ![t] = p]
    /\ UNCHANGED <<diskVars, memVars, size, pid>>

\* Line 178: RemoveAll takes away the whole tree, or fails part of the way.
ReleaseRemove(t) ==
    /\ pc[t] = "remove"
    /\ Return(t)
    /\ \/ Removed(Below(arg[t]))
       \/ \E S \in SUBSET Children(arg[t]) : Removed(S)
    /\ UNCHANGED <<limit, memVars>>

-----------------------------------------------------------------------------
\* checkProjID and the loops of findNextProjectID: the first level, and the
\* second level below directories without a project of their own.
Scanned ==
    {p \in Paths : /\ fs[p] = "dir"
                   /\ \/ p \in TopLevel
                      \/ /\ Parent[p] \in TopLevel
                         /\ projid[Parent[p]] \in {0, BaseID}}

\* Mutant: checkProjID leaves the counter at the highest id it saw.
IsHighestUsedID(n) ==
    /\ \A p \in Scanned : projid[p] <= n
    /\ n = MinProjectID + 1 \/ \E p \in Scanned : projid[p] = n

\* n is where checkProjID leaves the counter that updateMinProjID started.
IsFirstFreeID(n) ==
    /\ \A p \in Scanned : projid[p] < n
    /\ n = MinProjectID + 1 \/ \E p \in Scanned : projid[p] + 1 = n

\* Mutant: updateMinProjID starts the counter at the probed id.
NewControlFromProbedID ==
    /\ ~up
    /\ limit' = [limit EXCEPT ![MinProjectID] = 0]
    /\ quotas' = [p \in Paths |-> IF p \in Scanned THEN projid[p] ELSE 0]
    /\ \E n \in MinProjectID .. MaxID + 1 :
          /\ \A p \in Scanned : projid[p] < n
          /\ n = MinProjectID \/ \E p \in Scanned : projid[p] + 1 = n
          /\ nextProjectID' = n
    /\ up' = TRUE
    /\ UNCHANGED <<fs, projid, granted, callVars>>

\* Mutant: the scan finds the ids but does not fill the map (line 371).
NewControlEmptyMap ==
    /\ ~up
    /\ limit' = [limit EXCEPT ![MinProjectID] = 0]
    /\ quotas' = [p \in Paths |-> 0]
    /\ \E n \in MinProjectID + 1 .. MaxID + 1 :
          IsFirstFreeID(n) /\ nextProjectID' = n
    /\ up' = TRUE
    /\ UNCHANGED <<fs, projid, granted, callVars>>

\* NewControl: probe the quota call on MinProjectID, start the counter above
\* it, then scan.
NewControl ==
    /\ ~up
    /\ limit' = [limit EXCEPT ![MinProjectID] = 0]
    /\ quotas' = [p \in Paths |-> IF p \in Scanned THEN projid[p] ELSE 0]
    /\ \E n \in MinProjectID + 1 .. MaxID + 1 :
          IsFirstFreeID(n) /\ nextProjectID' = n
    /\ up' = TRUE
    /\ UNCHANGED <<fs, projid, granted, callVars>>

\* The daemon dies at any point: memory and running calls are gone.
Crash ==
    /\ up
    /\ up' = FALSE
    /\ quotas' = [p \in Paths |-> 0]
    /\ nextProjectID' = 1
    /\ pc' = [t \in Threads |-> "idle"]
    /\ arg' = [t \in Threads |-> Base]
    /\ size' = [t \in Threads |-> 0]
    /\ pid' = [t \in Threads |-> 0]
    /\ UNCHANGED diskVars

\* A container makes or removes a directory inside one it has mounted.
UserMkdir(p) ==
    /\ fs[p] = "none" /\ Parent[p] # Base /\ IsDir(Parent[p])
    /\ Created(p)
    /\ UNCHANGED <<limit, granted, memVars, callVars>>

UserRmdir(p) ==
    /\ fs[p] = "dir" /\ Parent[p] # Base
    /\ Removed(Below(p))
    /\ UNCHANGED <<limit, memVars, callVars>>

-----------------------------------------------------------------------------
Init ==
    /\ fs \in [Paths -> {"none", "dir", "file"}]
    /\ \A p \in Paths : fs[p] # "none" => IsDir(Parent[p])
    /\ projid = [p \in Paths |-> IF fs[p] = "dir" THEN BaseID ELSE 0]
    /\ limit = [i \in IDs |-> 0]
    /\ quotas = [p \in Paths |-> 0]
    /\ nextProjectID = 1
    /\ up = FALSE
    /\ pc = [t \in Threads |-> "idle"]
    /\ arg = [t \in Threads |-> Base]
    /\ size = [t \in Threads |-> 0]
    /\ pid = [t \in Threads |-> 0]
    /\ granted = [p \in Paths |-> Unset]

SetDirQuota(t) ==
    \/ \E p \in Paths, s \in Sizes : SetLookup(t, p, s)
    \/ SetStat(t) \/ SetMkdir(t) \/ SetAssign(t) \/ SetRecord(t) \/ SetLimit(t)

ReleaseDir(t) == (\E p \in Paths : ReleaseLookup(t, p)) \/ ReleaseRemove(t)

Next ==
    \/ NewControl
    \/ Crash
    \/ \E t \in Threads : SetDirQuota(t) \/ ReleaseDir(t)
    \/ \E p \in Paths : UserMkdir(p) \/ UserRmdir(p)

Spec == Init /\ [][Next]_vars

-----------------------------------------------------------------------------
\* Every variable of the model stays in its range.
TypeOK ==
    /\ fs \in [Paths -> {"none", "dir", "file"}]
    /\ projid \in [Paths -> IDs]
    /\ limit \in [IDs -> Nat]
    /\ quotas \in [Paths -> IDs]
    /\ nextProjectID \in 1 .. MaxID + 1
    /\ up \in BOOLEAN
    /\ pc \in [Threads -> {"idle", "stat", "mkdir", "assign", "record",
                           "limit", "remove"}]
    /\ arg \in [Threads -> Paths \cup {Base}]
    /\ \A t \in Threads : pc[t] # "idle" => arg[t] \in Paths
    /\ size \in [Threads -> Nat]
    /\ pid \in [Threads -> IDs]
    /\ granted \in [Paths -> Nat \cup {Unset}]

\* A project that belongs to one directory and not to the whole base directory.
OwnID(i) == i \notin {0, BaseID}

\* The limit that a call of SetDirQuota is about to set (line 126) belongs to
\* the project of no other directory that the restart scan can see, whatever
\* calls, releases and restarts went before: one user's call never moves the
\* limit of another user's directory.
Isolation ==
    \A t \in Threads, q \in Scanned :
        /\ pc[t] \in {"record", "limit"}
        /\ OwnID(pid[t])
        /\ projid[q] = pid[t]
        => q = arg[t]

\* No two paths of the id map (lines 118 and 371), and no two scanned
\* directories on disk, share a project other than the base directory's.
DistinctProjects ==
    \A p, q \in Paths :
        p # q => /\ quotas[p] = quotas[q] => ~OwnID(quotas[p])
                 /\ {p, q} \subseteq Scanned /\ projid[p] = projid[q]
                       => ~OwnID(projid[p])

\* NewControl tests the quota call by clearing the limit of MinProjectID (line
\* 524): that id is never handed out, so the probe of a restart takes away
\* the limit of no directory and of no call in progress.
ProbeHarmless ==
    /\ \A p \in Paths : MinProjectID \notin {projid[p], quotas[p]}
    /\ \A t \in Threads : pid[t] # MinProjectID

\* The limit in force on a directory is the one that the last successful
\* SetDirQuota on it asked for, in whole 512-byte blocks (lines 122-126), in
\* every state and so also after a crash in the middle of a call.
GrantedInForce ==
    \A p \in Paths :
        fs[p] = "dir" /\ granted[p] # Unset =>
            projid[p] # 0 /\ limit[projid[p]] = Blocks(granted[p])

\* The same between calls: once every call has returned, the limit in force on
\* a directory is the one that the last successful call asked for.
GrantedAtRest == (\A t \in Threads : pc[t] = "idle") => GrantedInForce

\* The quota that GetDirQuota answers, taken from the project that the id map
\* names, is the limit of the project that the directory on disk is in.
ReportedInForce ==
    \A p \in Paths :
        fs[p] = "dir" /\ GetDirQuota(p) # Unset
            => GetDirQuota(p) = 512 * limit[projid[p]]

\* What SetDirQuota granted is in force and is what GetDirQuota answers.
QuotaHonoured == GrantedInForce /\ ReportedInForce
=============================================================================
