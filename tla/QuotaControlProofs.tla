------------------------- MODULE QuotaControlProofs -------------------------
(***************************************************************************)
(* Proofs about QuotaControl, for every tree of directories, every number   *)
(* of concurrent calls and every id range that ConstantsAssumption allows.  *)
(* An own id (OwnID) is tied to one path: wherever it occurs, in the map,   *)
(* in a running call or on a directory the scan can see, the path is the    *)
(* same.  Directories the scan cannot see are left out: they may carry any  *)
(* id, and a directory the scan could not see never becomes visible again.  *)
(***************************************************************************)
EXTENDS QuotaControl, TLAPS

LegalID(i) == i \in {0, BaseID} \/ i > MinProjectID

\* Ids are those of the base directory or lie above the probed one.
IDRange ==
    /\ \A p \in Paths : LegalID(projid[p]) /\ LegalID(quotas[p])
    /\ \A t \in Threads : LegalID(pid[t])

\* What is not a directory has no project.
DirOnly == \A p \in Paths : fs[p] # "dir" => projid[p] = 0

\* Without a controller there is no map and no call.
DownIsEmpty ==
    ~up => /\ \A p \in Paths : quotas[p] = 0
           /\ \A t \in Threads : pid[t] = 0 /\ pc[t] = "idle"

IdleHasNoID == \A t \in Threads : pc[t] = "idle" => pid[t] = 0

\* The counter is above every id that the controller knows or could find.
BelowNext ==
    up => /\ nextProjectID > MinProjectID
          /\ \A p \in Paths : quotas[p] < nextProjectID
          /\ \A t \in Threads : pid[t] < nextProjectID
          /\ \A p \in Scanned : projid[p] < nextProjectID

\* An own id names one path.
OnePath ==
    /\ \A p, q \in Scanned : projid[p] = projid[q] /\ OwnID(projid[p]) => p = q
    /\ \A p, q \in Paths : quotas[p] = quotas[q] /\ OwnID(quotas[p]) => p = q
    /\ \A p \in Paths, q \in Scanned :
          quotas[p] = projid[q] /\ OwnID(quotas[p]) => p = q
    /\ \A t \in Threads, q \in Scanned :
          pid[t] = projid[q] /\ OwnID(pid[t]) => arg[t] = q
    /\ \A t \in Threads, q \in Paths :
          pid[t] = quotas[q] /\ OwnID(pid[t]) => arg[t] = q
    /\ \A t, u \in Threads : pid[t] = pid[u] /\ OwnID(pid[t]) => arg[t] = arg[u]

IInv ==
    /\ TypeOK
    /\ IDRange
    /\ DirOnly
    /\ DownIsEmpty
    /\ IdleHasNoID
    /\ BelowNext
    /\ OnePath

-----------------------------------------------------------------------------
\* A host whose directories are all in the base project satisfies the invariant.
LEMMA InitIInv == Init => IInv
<1> SUFFICES ASSUME Init PROVE IInv
  BY Zenon
<1> USE ConstantsAssumption DEF ConstantsAssumption, MinProjectID
<1>1. TypeOK
  <2>1. up \in BOOLEAN
    BY Zenon DEF Init
  <2>2. /\ projid \in [Paths -> IDs]
        /\ limit \in [IDs -> Nat]
        /\ quotas \in [Paths -> IDs]
        /\ nextProjectID \in 1 .. MaxID + 1
        /\ pid \in [Threads -> IDs]
    BY DEF Init, IDs
  <2>3. /\ pc \in [Threads -> {"idle", "stat", "mkdir", "assign", "record",
                               "limit", "remove"}]
        /\ arg \in [Threads -> Paths \cup {Base}]
        /\ \A t \in Threads : pc[t] # "idle" => arg[t] \in Paths
        /\ size \in [Threads -> Nat]
    BY Zenon DEF Init
  <2>4. granted \in [Paths -> Nat \cup {Unset}]
    BY Zenon DEF Init
  <2> QED
    BY <2>1, <2>2, <2>3, <2>4, Zenon DEF Init, TypeOK
<1>2. IDRange /\ DirOnly /\ DownIsEmpty /\ IdleHasNoID
  BY Zenon DEF Init, IDRange, LegalID, DirOnly, DownIsEmpty, IdleHasNoID
<1>3. BelowNext /\ OnePath
  BY Zenon DEF Init, BelowNext, OnePath, OwnID, Scanned
<1> QED
  BY <1>1, <1>2, <1>3, Zenon DEF IInv

\* A call keeps the id it has, forgets it, or takes the one its path has in
\* the map.
CallsKeepIDs ==
    \A u \in Threads :
        \/ pid'[u] = 0
        \/ pid'[u] = pid[u] /\ arg'[u] = arg[u]
        \/ arg'[u] \in Paths /\ pid'[u] = quotas[arg'[u]]

\* The scan sees no own id it would not have seen at that place before.
DiskKeepsIDs ==
    \A p \in Paths :
        /\ LegalID(projid'[p])
        /\ p \in Scanned' => \/ p \in Scanned /\ projid'[p] = projid[p]
                             \/ projid'[p] \in {0, BaseID}

\* Steps that hand out no id keep every own id at its path.
LEMMA KeepIDs ==
    ASSUME IInv, CallsKeepIDs, DiskKeepsIDs, TypeOK',
           UNCHANGED <<quotas, nextProjectID, up>>
    PROVE  IDRange' /\ BelowNext' /\ OnePath'
<1> USE ConstantsAssumption DEF ConstantsAssumption, MinProjectID
<1>1. Scanned \subseteq Paths /\ Scanned' \subseteq Paths
  BY Zenon DEF Scanned
<1>2. IDRange'
  BY Zenon DEF IInv, TypeOK, IDRange, LegalID, CallsKeepIDs, DiskKeepsIDs
<1>3. BelowNext'
  <2> SUFFICES ASSUME up'
               PROVE  /\ nextProjectID' > MinProjectID
                      /\ \A p \in Paths : quotas'[p] < nextProjectID'
                      /\ \A t \in Threads : pid'[t] < nextProjectID'
                      /\ \A p \in Scanned' : projid'[p] < nextProjectID'
    BY Zenon DEF BelowNext
  <2>1. /\ nextProjectID > MinProjectID
        /\ \A p \in Paths : quotas[p] < nextProjectID
        /\ \A t \in Threads : pid[t] < nextProjectID
        /\ \A p \in Scanned : projid[p] < nextProjectID
    BY Zenon DEF IInv, BelowNext
  <2>2. nextProjectID \in Nat
    BY DEF IInv, TypeOK
  <2>3. \A t \in Threads : pid'[t] < nextProjectID'
    BY <2>1, <2>2 DEF CallsKeepIDs
  <2>4. \A p \in Scanned' : projid'[p] < nextProjectID'
    BY <1>1, <2>1, <2>2 DEF DiskKeepsIDs
  <2> QED
    BY <2>1, <2>3, <2>4, Zenon
<1>4. \A p, q \in Scanned' :
         projid'[p] = projid'[q] /\ OwnID(projid'[p]) => p = q
  BY <1>1, Zenon DEF IInv, OnePath, OwnID, DiskKeepsIDs
<1>5. \A p \in Paths, q \in Scanned' :
         quotas'[p] = projid'[q] /\ OwnID(quotas'[p]) => p = q
  BY <1>1 DEF IInv, OnePath, OwnID, DiskKeepsIDs
<1>6. \A t \in Threads, q \in Scanned' :
         pid'[t] = projid'[q] /\ OwnID(pid'[t]) => arg'[t] = q
  BY <1>1 DEF IInv, OnePath, OwnID, CallsKeepIDs, DiskKeepsIDs
<1>7. \A t \in Threads, q \in Paths :
         pid'[t] = quotas'[q] /\ OwnID(pid'[t]) => arg'[t] = q
  BY DEF IInv, OnePath, OwnID, CallsKeepIDs
<1>8. \A t, u \in Threads :
         pid'[t] = pid'[u] /\ OwnID(pid'[t]) => arg'[t] = arg'[u]
  BY DEF IInv, OnePath, OwnID, CallsKeepIDs
<1> QED
  BY <1>2, <1>3, <1>4, <1>5, <1>6, <1>7, <1>8, Zenon DEF IInv, OnePath, OwnID

\* The end of a call.
LEMMA ReturnStep ==
    ASSUME TypeOK, IdleHasNoID, NEW t \in Threads, Return(t)
    PROVE  /\ CallsKeepIDs
           /\ pc' \in [Threads -> {"idle", "stat", "mkdir", "assign", "record",
                                   "limit", "remove"}]
           /\ arg' \in [Threads -> Paths \cup {Base}]
           /\ \A u \in Threads : pc'[u] # "idle" => arg'[u] \in Paths
           /\ size' \in [Threads -> Nat]
           /\ pid' \in [Threads -> IDs]
           /\ IdleHasNoID'
BY ConstantsAssumption
   DEF ConstantsAssumption, TypeOK, IdleHasNoID, Return, CallsKeepIDs, IDs

\* Nothing moves on disk.
LEMMA SameDisk ==
    ASSUME IInv, UNCHANGED <<fs, projid>>
    PROVE  DiskKeepsIDs /\ DirOnly'
BY Zenon DEF IInv, IDRange, DiskKeepsIDs, DirOnly, Scanned

-----------------------------------------------------------------------------
\* Steps of a call that touch neither the disk's projects nor the map.
LEMMA LookupIInv ==
    ASSUME IInv, NEW t \in Threads, NEW p \in Paths, NEW s \in Sizes,
           SetLookup(t, p, s)
    PROVE  IInv'
<1> USE ConstantsAssumption
    DEF ConstantsAssumption, SetLookup, diskVars, memVars
<1>1. TypeOK' /\ CallsKeepIDs
  BY DEF IInv, TypeOK, CallsKeepIDs
<1>2. DownIsEmpty' /\ IdleHasNoID'
  BY Zenon DEF IInv, TypeOK, DownIsEmpty, IdleHasNoID
<1> QED
  BY <1>1, <1>2, SameDisk, KeepIDs, Zenon DEF IInv

\* SetDirQuota looks for the directory (lines 92-98).
LEMMA StatIInv ==
    ASSUME IInv, NEW t \in Threads, SetStat(t)
    PROVE  IInv'
<1> USE DEF SetStat, diskVars, memVars
<1>1. up
  BY Zenon DEF IInv, DownIsEmpty
<1>2. CASE Return(t)
  <2>1. TypeOK' /\ CallsKeepIDs /\ IdleHasNoID'
    BY <1>2, ReturnStep, Zenon DEF IInv, TypeOK
  <2> QED
    BY <1>1, <2>1, SameDisk, KeepIDs, Zenon DEF IInv, DownIsEmpty
<1>3. CASE UNCHANGED <<arg, size, pid>>
  <2>1. TypeOK' /\ CallsKeepIDs
    BY <1>3, Zenon DEF IInv, TypeOK, CallsKeepIDs, Return, AfterMkdir
  <2>2. IdleHasNoID'
    BY <1>3, Zenon DEF IInv, TypeOK, IdleHasNoID, Return, AfterMkdir
  <2> QED
    BY <1>1, <2>1, <2>2, SameDisk, KeepIDs, Zenon DEF IInv, DownIsEmpty
<1> QED
  BY <1>2, <1>3, Zenon

\* SetDirQuota sets the limit of a project (line 126).
LEMMA LimitIInv ==
    ASSUME IInv, NEW t \in Threads, SetLimit(t)
    PROVE  IInv'
<1> USE DEF SetLimit, memVars
<1>1. up
  BY Zenon DEF IInv, DownIsEmpty
<1>2. CallsKeepIDs /\ IdleHasNoID'
  BY ReturnStep, Zenon DEF IInv
<1>3. limit' \in [IDs -> Nat] /\ granted' \in [Paths -> Nat \cup {Unset}]
  BY DEF IInv, TypeOK, Blocks
<1>4. TypeOK'
  BY <1>3, ReturnStep, Zenon DEF IInv, TypeOK
<1> QED
  BY <1>1, <1>2, <1>4, SameDisk, KeepIDs, Zenon DEF IInv, DownIsEmpty

\* ReleaseDir looks the path up in the map (lines 169-177).
LEMMA ReleaseLookupIInv ==
    ASSUME IInv, NEW t \in Threads, NEW p \in Paths, ReleaseLookup(t, p)
    PROVE  IInv'
<1> USE DEF ReleaseLookup, diskVars, memVars
<1>1. TypeOK' /\ CallsKeepIDs
  BY Zenon DEF IInv, TypeOK, IdleHasNoID, CallsKeepIDs
<1>2. DownIsEmpty' /\ IdleHasNoID'
  BY Zenon DEF IInv, TypeOK, DownIsEmpty, IdleHasNoID
<1> QED
  BY <1>1, <1>2, SameDisk, KeepIDs, Zenon DEF IInv

-----------------------------------------------------------------------------
\* New directories inherit, so an own id comes only to places below one.
LEMMA CreatedStep ==
    ASSUME IInv, NEW p \in Paths, Created(p)
    PROVE  /\ fs' \in [Paths -> {"none", "dir", "file"}]
           /\ projid' \in [Paths -> IDs]
           /\ DiskKeepsIDs
           /\ DirOnly'
<1> USE ConstantsAssumption DEF ConstantsAssumption
<1>1. \A d \in Missing(p) :
         /\ d \in Paths
         /\ Inherited(Parent[d]) =
               IF Parent[d] # Base /\ fs[Parent[d]] # "none"
               THEN projid[Parent[d]] ELSE BaseID
  BY Zenon DEF Missing, Inherited, ProjectOf
<1>2. BaseID \in IDs
  BY DEF IDs
<1>3. fs' \in [Paths -> {"none", "dir", "file"}] /\ projid' \in [Paths -> IDs]
  BY <1>1, <1>2 DEF IInv, TypeOK, Created
<1>4. DirOnly'
  BY Zenon DEF IInv, TypeOK, DirOnly, Created
<1>5. \A d \in Paths : LegalID(projid'[d])
  BY <1>1 DEF IInv, TypeOK, IDRange, LegalID, Created
<1>6. ASSUME NEW d \in Paths, d \in Scanned'
      PROVE  \/ d \in Scanned /\ projid'[d] = projid[d]
             \/ projid'[d] \in {0, BaseID}
  <2>1. CASE d \notin Missing(p)
    <3>1. fs[d] = "dir" /\ projid'[d] = projid[d]
      BY <1>6, <2>1, Zenon DEF IInv, TypeOK, Created, Scanned
    <3>2. CASE d \in TopLevel
      BY <3>1, <3>2, Zenon DEF Scanned
    <3>3. CASE Parent[d] \in TopLevel /\ projid'[Parent[d]] \in {0, BaseID}
      <4>1. Parent[d] \in Paths
        BY <3>3, Zenon DEF TopLevel
      <4>2. CASE Parent[d] \in Missing(p)
        BY <3>1, <3>3, <4>1, <4>2, Zenon DEF IInv, DirOnly, Missing, Scanned
      <4>3. CASE Parent[d] \notin Missing(p)
        BY <3>1, <3>3, <4>1, <4>3, Zenon DEF IInv, TypeOK, Created, Scanned
      <4> QED
        BY <4>2, <4>3, Zenon
    <3> QED
      BY <1>6, <3>2, <3>3, Zenon DEF Scanned
  <2>2. CASE d \in Missing(p)
    <3>1. projid'[d] = IF Parent[d] # Base /\ fs[Parent[d]] # "none"
                       THEN projid[Parent[d]] ELSE BaseID
      BY <1>1, <2>2, Zenon DEF Created
    <3>2. CASE Parent[d] # Base /\ fs[Parent[d]] # "none"
      <4>1. Parent[d] \in Paths /\ Parent[d] \notin Missing(p)
        BY <3>2, Zenon DEF Missing
      <4>2. projid'[Parent[d]] = projid[Parent[d]]
        BY <4>1, Zenon DEF Created
      <4>3. projid'[Parent[d]] \in {0, BaseID}
        BY <1>6, <3>2, Zenon DEF Scanned, TopLevel
      <4> QED
        BY <3>1, <3>2, <4>2, <4>3, Zenon
    <3> QED
      BY <3>1, <3>2, Zenon
  <2> QED
    BY <2>1, <2>2, Zenon
<1> QED
  BY <1>3, <1>4, <1>5, <1>6, Zenon DEF DiskKeepsIDs

\* A removal takes the directories inside with the one it removes.
LEMMA RemovedStep ==
    ASSUME IInv, NEW S \in SUBSET Paths, Removed(S),
           \A p \in Paths : Parent[p] \in S => p \in S
    PROVE  /\ fs' \in [Paths -> {"none", "dir", "file"}]
           /\ projid' \in [Paths -> IDs]
           /\ granted' \in [Paths -> Nat \cup {Unset}]
           /\ DiskKeepsIDs
           /\ DirOnly'
<1> USE ConstantsAssumption DEF ConstantsAssumption
<1>1. /\ fs' \in [Paths -> {"none", "dir", "file"}]
      /\ projid' \in [Paths -> IDs]
      /\ granted' \in [Paths -> Nat \cup {Unset}]
  BY DEF IInv, TypeOK, Removed, IDs
<1>2. DirOnly' /\ \A d \in Paths : LegalID(projid'[d])
  BY Zenon DEF IInv, TypeOK, DirOnly, IDRange, LegalID, Removed
<1>3. ASSUME NEW d \in Paths, d \in Scanned'
      PROVE  d \in Scanned /\ projid'[d] = projid[d]
  BY <1>3, Zenon DEF IInv, TypeOK, Removed, Scanned, TopLevel
<1> QED
  BY <1>1, <1>2, <1>3, Zenon DEF DiskKeepsIDs

\* SetDirQuota creates the directory (line 94).
LEMMA MkdirIInv ==
    ASSUME IInv, NEW t \in Threads, SetMkdir(t)
    PROVE  IInv'
<1> USE DEF SetMkdir, memVars
<1>1. up
  BY Zenon DEF IInv, DownIsEmpty
<1>2. arg[t] \in Paths
  BY Zenon DEF IInv, TypeOK
<1>3. /\ fs' \in [Paths -> {"none", "dir", "file"}]
      /\ projid' \in [Paths -> IDs]
      /\ DiskKeepsIDs
      /\ DirOnly'
  BY <1>2, CreatedStep, SameDisk, Zenon DEF IInv, TypeOK
<1>4. TypeOK'
  BY <1>3, Zenon DEF IInv, TypeOK, AfterMkdir
<1>5. CallsKeepIDs
  BY Zenon DEF CallsKeepIDs
<1>6. IdleHasNoID'
  BY Zenon DEF IInv, TypeOK, IdleHasNoID, AfterMkdir
<1> QED
  BY <1>1, <1>3, <1>4, <1>5, <1>6, KeepIDs, Zenon DEF IInv, DownIsEmpty

\* ReleaseDir removes the directory tree (line 178).
LEMMA RemoveIInv ==
    ASSUME IInv, NEW t \in Threads, ReleaseRemove(t)
    PROVE  IInv'
<1> USE ConstantsAssumption DEF ConstantsAssumption, ReleaseRemove, memVars
<1>1. up /\ arg[t] \in Paths
  BY Zenon DEF IInv, TypeOK, DownIsEmpty
<1>2. PICK S \in SUBSET Paths :
         Removed(S) /\ \A p \in Paths : Parent[p] \in S => p \in S
  BY <1>1 DEF Below, Children
<1>3. TypeOK'
  BY <1>2, RemovedStep, ReturnStep, Zenon DEF IInv, TypeOK
<1> QED
  BY <1>1, <1>2, <1>3, RemovedStep, ReturnStep, KeepIDs, Zenon DEF IInv, DownIsEmpty

\* Directories come and go beside the daemon.
LEMMA UserIInv ==
    ASSUME IInv, NEW p \in Paths, UserMkdir(p) \/ UserRmdir(p)
    PROVE  IInv'
<1> USE ConstantsAssumption DEF ConstantsAssumption, memVars, callVars
<1>1. UNCHANGED <<quotas, nextProjectID, up, pc, arg, size, pid>>
  BY Zenon DEF UserMkdir, UserRmdir
<1>2. /\ TypeOK'
      /\ DiskKeepsIDs
      /\ DirOnly'
  <2>1. CASE UserMkdir(p)
    BY <1>1, <2>1, CreatedStep, Zenon DEF UserMkdir, IInv, TypeOK
  <2>2. CASE UserRmdir(p)
    <3>1. Removed(Below(p)) /\ Below(p) \in SUBSET Paths
      BY <2>2, Zenon DEF UserRmdir, Below
    <3>2. \A q \in Paths : Parent[q] \in Below(p) => q \in Below(p)
      BY <2>2, Zenon DEF UserRmdir, Below
    <3> QED
      BY <1>1, <2>2, <3>1, <3>2, RemovedStep, Zenon DEF UserRmdir, IInv, TypeOK
  <2> QED
    BY <2>1, <2>2, Zenon
<1>3. CallsKeepIDs /\ DownIsEmpty' /\ IdleHasNoID'
  BY <1>1, Zenon DEF IInv, CallsKeepIDs, DownIsEmpty, IdleHasNoID
<1> QED
  BY <1>1, <1>2, <1>3, KeepIDs, Zenon DEF IInv

-----------------------------------------------------------------------------
\* The id handed out is above every id in use, so it is nobody else's.
LEMMA AssignIInv ==
    ASSUME IInv, NEW t \in Threads, SetAssign(t)
    PROVE  IInv'
<1> USE ConstantsAssumption DEF ConstantsAssumption
<1>1. up /\ arg[t] \in Paths
  BY Zenon DEF SetAssign, IInv, TypeOK, DownIsEmpty
<1>2. CASE Return(t) /\ UNCHANGED <<projid, nextProjectID>>
  <2>1. TypeOK'
    BY <1>2, ReturnStep, Zenon DEF SetAssign, IInv, TypeOK
  <2> QED
    BY <1>1, <1>2, <2>1, ReturnStep, SameDisk, KeepIDs, Zenon
    DEF SetAssign, IInv, DownIsEmpty
<1>3. CASE /\ fs[arg[t]] = "dir" /\ nextProjectID < MaxID
           /\ projid' = [projid EXCEPT ![arg[t]] = nextProjectID]
           /\ pid' = [pid EXCEPT ![t] = nextProjectID]
           /\ nextProjectID' = nextProjectID + 1
           /\ pc' = [pc EXCEPT ![t] = "record"]
           /\ UNCHANGED <<arg, size>>
  <2>1. UNCHANGED <<fs, limit, granted, quotas, up>>
    BY Zenon DEF SetAssign
  <2>2. nextProjectID \in IDs /\ nextProjectID > MinProjectID
    BY <1>1, <1>3 DEF IInv, TypeOK, BelowNext, IDs
  <2>3. MinProjectID \in Nat /\ MinProjectID > BaseID /\ MinProjectID > 0
    BY DEF MinProjectID
  <2>4. /\ projid' \in [Paths -> IDs]
        /\ pid' \in [Threads -> IDs]
        /\ nextProjectID' \in 1 .. MaxID + 1
    <3>1. projid' \in [Paths -> IDs]
      BY <1>3, <2>2, Zenon DEF IInv, TypeOK
    <3>2. pid' \in [Threads -> IDs]
      BY <1>3, <2>2, Zenon DEF IInv, TypeOK
    <3>3. nextProjectID' \in 1 .. MaxID + 1
      BY <1>3, <2>2 DEF IInv, TypeOK
    <3> QED
      BY <3>1, <3>2, <3>3, Zenon
  <2>5. TypeOK'
    BY <1>1, <1>3, <2>1, <2>4, ZenonT(30) DEF IInv, TypeOK
  <2>6. IDRange' /\ DirOnly' /\ DownIsEmpty' /\ IdleHasNoID'
    BY <1>1, <1>3, <2>1, <2>2
    DEF IInv, TypeOK, IDRange, LegalID, DirOnly, DownIsEmpty, IdleHasNoID
  \* What the scan sees shrinks, but for the directory of the call.
  <2>7. ASSUME NEW p \in Scanned'
        PROVE  /\ p \in Paths
               /\ \/ p \in Scanned /\ projid'[p] = projid[p]
                  \/ p = arg[t] /\ projid'[p] = nextProjectID
    <3>1. p \in Paths /\ fs[p] = "dir"
      BY <2>1, <2>7, Zenon DEF Scanned
    <3>2. CASE p = arg[t]
      BY <1>3, <3>1, <3>2, Zenon DEF IInv, TypeOK
    <3>3. CASE p # arg[t]
      <4>1. projid'[p] = projid[p]
        BY <1>3, <3>1, <3>3, Zenon DEF IInv, TypeOK
      <4>2. projid'[Parent[p]] \in {0, BaseID} /\ Parent[p] \in Paths =>
               projid[Parent[p]] \in {0, BaseID}
        BY <1>1, <1>3, <2>2, <2>3 DEF IInv, TypeOK, IDs
      <4> QED
        BY <2>1, <2>7, <3>1, <4>1, <4>2, Zenon DEF Scanned, TopLevel
    <3> QED
      BY <3>2, <3>3, Zenon
  <2>8. /\ \A p \in Paths : quotas[p] < nextProjectID
        /\ \A u \in Threads : pid[u] < nextProjectID
        /\ \A p \in Scanned : projid[p] < nextProjectID
    BY <1>1, Zenon DEF IInv, BelowNext
  <2>9. /\ \A p \in Paths : quotas[p] \in Nat /\ projid[p] \in Nat
        /\ \A u \in Threads : pid[u] \in Nat
        /\ Scanned \subseteq Paths
        /\ nextProjectID \in Nat
    BY DEF IInv, TypeOK, IDs, Scanned
  <2>10. BelowNext'
    <3>1. \A p \in Paths : quotas'[p] < nextProjectID'
      BY <1>3, <2>1, <2>8, <2>9
    <3>2. \A u \in Threads : pid'[u] < nextProjectID'
      BY <1>3, <2>8, <2>9 DEF IInv, TypeOK
    <3>3. \A p \in Scanned' : projid'[p] < nextProjectID'
      BY <1>3, <2>7, <2>8, <2>9
    <3>4. nextProjectID' > MinProjectID
      BY <1>3, <2>2, <2>3, <2>9, SMTT(30)
    <3> QED
      BY <3>1, <3>2, <3>3, <3>4, Zenon DEF BelowNext, MinProjectID
  <2>11. OnePath'
    <3>1. \A u \in Threads : \/ pid'[u] = pid[u] /\ arg'[u] = arg[u]
                             \/ pid'[u] = nextProjectID /\ arg'[u] = arg[t]
      BY <1>3, Zenon DEF IInv, TypeOK
    <3>2. \A p \in Paths : quotas[p] # nextProjectID
      BY <2>8, <2>9
    <3>3. \A u \in Threads : pid[u] # nextProjectID
      BY <2>8, <2>9
    <3>4. \A p \in Scanned : projid[p] # nextProjectID
      BY <2>8, <2>9
    <3>5. \A p, q \in Scanned' :
             projid'[p] = projid'[q] /\ OwnID(projid'[p]) => p = q
      BY <2>7, <3>4, SMTT(30) DEF IInv, OnePath, OwnID
    <3>6. \A p \in Paths, q \in Scanned' :
             quotas'[p] = projid'[q] /\ OwnID(quotas'[p]) => p = q
      BY <2>1, <2>7, <3>2, SMTT(30) DEF IInv, OnePath, OwnID
    <3>7. \A u \in Threads, q \in Scanned' :
             pid'[u] = projid'[q] /\ OwnID(pid'[u]) => arg'[u] = q
      BY <2>7, <3>1, <3>3, <3>4, SMTT(30) DEF IInv, OnePath, OwnID
    <3>8. \A u \in Threads, q \in Paths :
             pid'[u] = quotas'[q] /\ OwnID(pid'[u]) => arg'[u] = q
      BY <2>1, <3>1, <3>2, SMTT(30) DEF IInv, OnePath, OwnID
    <3>9. \A u, v \in Threads :
             pid'[u] = pid'[v] /\ OwnID(pid'[u]) => arg'[u] = arg'[v]
      BY <3>1, <3>3 DEF IInv, OnePath, OwnID
    <3> QED
      BY <2>1, <3>5, <3>6, <3>7, <3>8, <3>9, Zenon DEF IInv, OnePath, OwnID
  <2> QED
    BY <2>5, <2>6, <2>10, <2>11, Zenon DEF IInv
<1> QED
  BY <1>2, <1>3, Zenon DEF SetAssign

\* The map takes over an id that the call already ties to the path.
LEMMA RecordIInv ==
    ASSUME IInv, NEW t \in Threads, SetRecord(t)
    PROVE  IInv'
<1> USE DEF SetRecord, diskVars
<1>1. up /\ arg[t] \in Paths
  BY Zenon DEF IInv, TypeOK, DownIsEmpty
<1>2. TypeOK'
  BY <1>1, Zenon DEF IInv, TypeOK
<1>3. \A p \in Paths : \/ quotas'[p] = quotas[p]
                       \/ p = arg[t] /\ quotas'[p] = pid[t]
  BY Zenon DEF IInv, TypeOK
<1>4. Scanned' = Scanned
  BY Zenon DEF Scanned
<1>5. IDRange' /\ DirOnly' /\ DownIsEmpty' /\ IdleHasNoID'
  BY <1>1, <1>3, Zenon
  DEF IInv, TypeOK, IDRange, LegalID, DirOnly, DownIsEmpty, IdleHasNoID
<1>6. BelowNext'
  BY <1>1, <1>3, <1>4, Zenon DEF IInv, BelowNext
<1>7. OnePath'
  BY <1>3, <1>4 DEF IInv, OnePath, OwnID, Scanned
<1> QED
  BY <1>2, <1>5, <1>6, <1>7, Zenon DEF IInv

\* The process ends and forgets the map and the counter.
LEMMA CrashIInv ==
    ASSUME IInv, Crash
    PROVE  IInv'
<1> USE ConstantsAssumption DEF ConstantsAssumption, Crash, diskVars
<1>1. TypeOK'
  <2>1. /\ quotas' \in [Paths -> IDs]
        /\ nextProjectID' \in 1 .. MaxID + 1
        /\ pid' \in [Threads -> IDs]
    BY DEF IDs
  <2>2. up' \in BOOLEAN
    BY Zenon
  <2> QED
    BY <2>1, <2>2, Zenon DEF IInv, TypeOK
<1>2. IDRange' /\ DirOnly' /\ DownIsEmpty' /\ IdleHasNoID' /\ BelowNext'
  BY Zenon DEF IInv, IDRange, LegalID, DirOnly, DownIsEmpty, IdleHasNoID, BelowNext
<1>3. Scanned' = Scanned
  BY Zenon DEF Scanned
<1>4. OnePath'
  BY <1>3, Zenon DEF IInv, OnePath, OwnID, Scanned
<1> QED
  BY <1>1, <1>2, <1>4, Zenon DEF IInv

\* The scan starts the counter above every id it sees.
LEMMA NewControlIInv ==
    ASSUME IInv, NewControl
    PROVE  IInv'
<1> USE ConstantsAssumption DEF ConstantsAssumption
<1>1. UNCHANGED <<fs, projid, granted, pc, arg, size, pid>>
  BY Zenon DEF NewControl, callVars
<1>2. PICK n \in MinProjectID + 1 .. MaxID + 1 :
         IsFirstFreeID(n) /\ nextProjectID' = n
  BY Zenon DEF NewControl
<1>3. /\ \A t \in Threads : pid[t] = 0 /\ pc[t] = "idle"
      /\ up' = TRUE
      /\ quotas' = [p \in Paths |-> IF p \in Scanned THEN projid[p] ELSE 0]
      /\ limit' = [limit EXCEPT ![MinProjectID] = 0]
  BY Zenon DEF NewControl, IInv, DownIsEmpty
<1>4. Scanned \subseteq Paths /\ Scanned' = Scanned
  BY <1>1, Zenon DEF Scanned
<1>5. n \in Nat /\ n > MinProjectID /\ n > 0 /\ n \in 1 .. MaxID + 1
  BY <1>2 DEF MinProjectID
<1>6. TypeOK'
  <2>1. quotas' \in [Paths -> IDs] /\ limit' \in [IDs -> Nat]
    <3>1. 0 \in IDs
      BY DEF IDs
    <3>2. quotas' \in [Paths -> IDs]
      BY <1>3, <3>1, Zenon DEF IInv, TypeOK
    <3>3. limit' \in [IDs -> Nat]
      BY <1>3, Zenon DEF IInv, TypeOK
    <3> QED
      BY <3>2, <3>3, Zenon
  <2>2. up' \in BOOLEAN
    BY <1>3, Zenon
  <2> QED
    BY <1>1, <1>2, <1>5, <2>1, <2>2, Zenon DEF IInv, TypeOK
<1>7. IDRange' /\ DirOnly' /\ DownIsEmpty' /\ IdleHasNoID'
  BY <1>1, <1>3, <1>4, Zenon
  DEF IInv, IDRange, LegalID, DirOnly, DownIsEmpty, IdleHasNoID
<1>8. BelowNext'
  <2>1. \A p \in Scanned' : projid'[p] < nextProjectID'
    BY <1>1, <1>2, <1>4, Zenon DEF IsFirstFreeID
  <2>2. \A p \in Paths : quotas'[p] < nextProjectID'
    BY <1>1, <1>2, <1>3, <1>4, <1>5, <2>1, Zenon
  <2>3. \A t \in Threads : pid'[t] < nextProjectID'
    BY <1>1, <1>2, <1>3, <1>5, Zenon
  <2> QED
    BY <1>2, <1>5, <2>1, <2>2, <2>3, Zenon DEF BelowNext, MinProjectID
<1>9. OnePath'
  BY <1>1, <1>3, <1>4, Zenon DEF IInv, OnePath, OwnID, Scanned
<1> QED
  BY <1>6, <1>7, <1>8, <1>9, Zenon DEF IInv

-----------------------------------------------------------------------------
\* The inductive invariant: every own id belongs to one path, in every
\* behaviour with any number of calls, releases, crashes and restarts.
THEOREM Invariance == Spec => []IInv
<1>1. Init => IInv
  BY InitIInv, Zenon
<1>2. IInv /\ [Next]_vars => IInv'
  <2> SUFFICES ASSUME IInv, [Next]_vars PROVE IInv'
    BY Zenon
  <2>1. CASE NewControl
    BY <2>1, NewControlIInv, Zenon
  <2>2. CASE Crash
    BY <2>2, CrashIInv, Zenon
  <2>3. ASSUME NEW t \in Threads, SetDirQuota(t)
        PROVE  IInv'
    BY <2>3, LookupIInv, StatIInv, MkdirIInv, AssignIInv, RecordIInv, LimitIInv, Zenon
    DEF SetDirQuota
  <2>4. ASSUME NEW t \in Threads, ReleaseDir(t)
        PROVE  IInv'
    BY <2>4, ReleaseLookupIInv, RemoveIInv, Zenon DEF ReleaseDir
  <2>5. ASSUME NEW p \in Paths, UserMkdir(p) \/ UserRmdir(p)
        PROVE  IInv'
    BY <2>5, UserIInv, Zenon
  <2>6. CASE UNCHANGED vars
    BY <2>6, Zenon DEF vars, IInv, TypeOK, IDRange, DirOnly, DownIsEmpty, IdleHasNoID,
                BelowNext, OnePath, Scanned
  <2> QED
    BY <2>1, <2>2, <2>3, <2>4, <2>5, <2>6, Zenon DEF Next
<1> QED
  BY <1>1, <1>2, PTL DEF Spec

\* Every variable of the model stays in its range.
THEOREM TypeCorrect == Spec => []TypeOK
<1>1. IInv => TypeOK
  BY Zenon DEF IInv
<1> QED
  BY <1>1, Invariance, PTL

\* SetDirQuota never sets the limit of the project of another directory.
THEOREM CallsAreIsolated == Spec => []Isolation
<1>1. IInv => Isolation
  BY Zenon DEF IInv, OnePath, Isolation
<1> QED
  BY <1>1, Invariance, PTL

\* The map of the controller, and the directories that a restart finds, give
\* each directory a project of its own.
THEOREM ProjectsAreDistinct == Spec => []DistinctProjects
<1>1. IInv => DistinctProjects
  BY Zenon DEF IInv, OnePath, DistinctProjects
<1> QED
  BY <1>1, Invariance, PTL

\* The project id that NewControl probes is no directory's.
THEOREM ProbeIsHarmless == Spec => []ProbeHarmless
<1>1. IInv => ProbeHarmless
  <2>1. MinProjectID \in Nat /\ MinProjectID # 0 /\ MinProjectID # BaseID
    BY ConstantsAssumption DEF ConstantsAssumption, MinProjectID
  <2>2. ~LegalID(MinProjectID)
    BY <2>1 DEF LegalID
  <2> QED
    BY <2>2, Zenon DEF IInv, IDRange, ProbeHarmless
<1> QED
  BY <1>1, Invariance, PTL

-----------------------------------------------------------------------------
\* The host on which the limits are kept: one call at a time, nothing released,
\* every directory directly below a base directory that has no project.  On
\* each of the other hosts TLC finds a limit that is lost.
Serial ==
    /\ \A t, u \in Threads : t = u
    /\ "release" \notin Ops
    /\ \A p \in Paths : Parent[p] = Base
    /\ BaseID = 0

\* A limit granted is that of a project of the directory's own.
GrantKept ==
    \A p \in Paths :
        granted[p] # Unset => projid[p] # 0 /\ limit[projid[p]] = Blocks(granted[p])

\* The map names the project the directory is in, except between the two
\* critical sections of the call that gives it one.
MapFollows ==
    up => \A p \in Paths :
             \/ quotas[p] = projid[p]
             \/ quotas[p] = 0 /\ \E t \in Threads : pc[t] = "record" /\ arg[t] = p

\* A call holds the project of its directory.
CallHolds ==
    \A t \in Threads :
        /\ pc[t] # "remove"
        /\ pc[t] # "idle" => pid[t] = projid[arg[t]]
        /\ pc[t] \in {"mkdir", "assign"} => pid[t] = 0
        /\ pc[t] = "mkdir" => fs[arg[t]] = "none"
        /\ pc[t] \in {"record", "limit"} => pid[t] # 0

Settled == GrantKept /\ MapFollows /\ CallHolds

\* On such a host the scan sees every directory.
LEMMA SerialScan ==
    ASSUME Serial PROVE Scanned = {p \in Paths : fs[p] = "dir"}
  BY Zenon DEF Serial, Scanned, TopLevel

LEMMA SerialInit ==
    ASSUME Serial, Init PROVE Settled
  BY Zenon DEF Init, Settled, GrantKept, MapFollows, CallHolds

\* The first critical section and the look at the path: the call takes the
\* project of its directory from the map.
LEMMA SerialLookup ==
    ASSUME Serial, IInv, Settled, NEW t \in Threads,
           (\E p \in Paths, s \in Sizes : SetLookup(t, p, s)) \/ SetStat(t)
    PROVE  Settled'
<1>1. \A u \in Threads : u = t
  BY Zenon DEF Serial
<1>2. ASSUME NEW p \in Paths, NEW s \in Sizes, SetLookup(t, p, s) PROVE Settled'
  <2>1. /\ pc'[t] = "stat" /\ arg'[t] = p /\ pid'[t] = quotas[p] /\ pc[t] = "idle" /\ up
        /\ UNCHANGED <<fs, projid, limit, granted, quotas, up>>
    BY <1>2, Zenon DEF SetLookup, IInv, TypeOK, diskVars, memVars
  <2>2. \A q \in Paths : quotas[q] = projid[q]
    BY <1>1, <2>1, Zenon DEF Settled, MapFollows
  <2>3. GrantKept' /\ MapFollows'
    BY <2>1, <2>2, Zenon DEF Settled, GrantKept, MapFollows
  <2>4. CallHolds'
    BY <1>1, <2>1, <2>2, Zenon DEF CallHolds
  <2> QED
    BY <2>3, <2>4, Zenon DEF Settled
<1>3. CASE SetStat(t)
  <2>1. pc[t] = "stat" /\ UNCHANGED <<fs, projid, limit, granted, quotas, up>>
    BY <1>3, Zenon DEF SetStat, diskVars, memVars
  <2>2. GrantKept' /\ MapFollows'
    <3>1. \A q \in Paths : up => quotas[q] = projid[q]
      BY <1>1, <2>1, Zenon DEF Settled, MapFollows
    <3> QED
      BY <2>1, <3>1, Zenon DEF Settled, GrantKept, MapFollows
  <2>3. arg[t] \in Paths /\ fs[arg[t]] \in {"none", "dir", "file"}
    BY <2>1, Zenon DEF IInv, TypeOK
  <2>4. CASE pc'[t] = "idle"
    BY <1>1, <2>2, <2>4, Zenon DEF Settled, CallHolds
  <2>5. CASE pc'[t] # "idle"
    <3>1. /\ pc'[t] = IF fs[arg[t]] = "none" THEN "mkdir" ELSE AfterMkdir(t)
          /\ UNCHANGED <<arg, pid>>
      BY <1>3, <2>5, Zenon DEF SetStat, Return, IInv, TypeOK
    <3>2. fs[arg[t]] = "none" => pid[t] = 0
      <4>1. pid[t] = projid[arg[t]]
        BY <2>1, Zenon DEF Settled, CallHolds
      <4> QED
        BY <2>3, <4>1, Zenon DEF IInv, DirOnly
    <3>3. /\ pc'[t] \in {"mkdir", "assign", "limit"}
          /\ pc'[t] \in {"mkdir", "assign"} => pid[t] = 0
          /\ pc'[t] = "mkdir" => fs[arg[t]] = "none"
          /\ pc'[t] = "limit" => pid[t] # 0
      BY <3>1, <3>2, Zenon DEF AfterMkdir
    <3> QED
      <4>1. pid[t] = projid[arg[t]]
        BY <2>1, Zenon DEF Settled, CallHolds
      <4>2. CallHolds'
        BY <1>1, <2>1, <3>1, <3>3, <4>1, Zenon DEF CallHolds
      <4> QED
        BY <2>2, <4>2, Zenon DEF Settled
  <2> QED
    BY <2>4, <2>5, Zenon
<1> QED
  BY <1>2, <1>3, Zenon

\* A directory is made in no project.
LEMMA SerialMkdir ==
    ASSUME Serial, IInv, Settled, NEW t \in Threads, SetMkdir(t)
    PROVE  Settled'
<1>1. \A u \in Threads : u = t
  BY Zenon DEF Serial
<1>2. /\ pc[t] = "mkdir" /\ pid[t] = 0 /\ pc'[t] = "assign"
      /\ UNCHANGED <<limit, granted, quotas, up, arg, pid>>
  BY Zenon DEF SetMkdir, memVars, IInv, TypeOK, Settled, CallHolds,
               AfterMkdir
<1>3. arg[t] \in Paths /\ fs[arg[t]] = "none" /\ projid[arg[t]] = 0
  BY <1>2, Zenon DEF IInv, TypeOK, Settled, CallHolds
<1>4. \A q \in Paths : projid'[q] = projid[q]
  <2>1. CASE UNCHANGED <<fs, projid>>
    BY <2>1, Zenon
  <2>2. CASE Created(arg[t])
    <3> SUFFICES ASSUME NEW q \in Paths PROVE projid'[q] = projid[q]
      BY Zenon
    <3>1. projid'[q] = IF q \in Missing(arg[t]) THEN Inherited(Parent[q]) ELSE projid[q]
      BY <2>2, Zenon DEF Created
    <3>2. CASE q \in Missing(arg[t])
      <4>1. Parent[q] = Base /\ fs[q] = "none"
        BY <3>2, Zenon DEF Serial, Missing
      <4>2. Inherited(Base) = 0
        BY Zenon DEF Inherited, ProjectOf, Serial
      <4>3. projid[q] = 0
        BY <4>1, Zenon DEF IInv, DirOnly
      <4> QED
        BY <3>1, <3>2, <4>1, <4>2, <4>3, Zenon
    <3> QED
      BY <3>1, <3>2, Zenon
  <2> QED
    BY <2>1, <2>2, Zenon DEF SetMkdir
<1>5. GrantKept'
  BY <1>2, <1>4, Zenon DEF Settled, GrantKept
<1>6. MapFollows'
  <2>1. \A q \in Paths : up => quotas[q] = projid[q]
    BY <1>1, <1>2, Zenon DEF Settled, MapFollows
  <2> QED
    BY <1>2, <1>4, <2>1, Zenon DEF MapFollows
<1>7. CallHolds'
  BY <1>1, <1>2, <1>3, <1>4, Zenon DEF CallHolds
<1> QED
  BY <1>5, <1>6, <1>7, Zenon DEF Settled

\* A directory is given a project at most once, and before any limit.
LEMMA SerialAssign ==
    ASSUME Serial, IInv, Settled, NEW t \in Threads, SetAssign(t)
    PROVE  Settled'
<1>1. \A u \in Threads : u = t
  BY Zenon DEF Serial
<1>2. /\ pc[t] = "assign" /\ arg[t] \in Paths /\ projid[arg[t]] = 0
      /\ UNCHANGED <<fs, limit, granted, quotas, up>>
  <2>1. pc[t] = "assign" /\ UNCHANGED <<fs, limit, granted, quotas, up>>
    BY Zenon DEF SetAssign
  <2>2. arg[t] \in Paths
    BY <2>1, Zenon DEF IInv, TypeOK
  <2>3. projid[arg[t]] = 0
    BY <2>1, Zenon DEF Settled, CallHolds
  <2> QED
    BY <2>1, <2>2, <2>3, Zenon
<1>3. \A q \in Paths : up => quotas[q] = projid[q]
  BY <1>1, <1>2, Zenon DEF Settled, MapFollows
<1>4. granted[arg[t]] = Unset
  BY <1>2, Zenon DEF Settled, GrantKept
<1>5. CASE pc'[t] = "idle"
  <2>1. UNCHANGED projid
    BY <1>5, Zenon DEF SetAssign, IInv, TypeOK
  <2> QED
    BY <1>1, <1>2, <1>3, <1>5, <2>1, Zenon
    DEF Settled, GrantKept, MapFollows, CallHolds
<1>6. CASE pc'[t] # "idle"
  <2>1. /\ projid' = [projid EXCEPT ![arg[t]] = nextProjectID]
        /\ pid'[t] = nextProjectID /\ pc'[t] = "record" /\ UNCHANGED arg
    BY <1>6, Zenon DEF SetAssign, Return, IInv, TypeOK
  <2>2. nextProjectID # 0
    BY DEF IInv, TypeOK
  <2>3. /\ projid'[arg[t]] = nextProjectID
        /\ \A q \in Paths : q # arg[t] => projid'[q] = projid[q]
    BY <1>2, <2>1, Zenon DEF IInv, TypeOK
  <2>4. GrantKept'
    <3> SUFFICES ASSUME NEW q \in Paths, granted[q] # Unset
                 PROVE  projid'[q] # 0 /\ limit[projid'[q]] = Blocks(granted[q])
      BY <1>2, Zenon DEF GrantKept
    <3>1. q # arg[t]
      BY <1>4, Zenon
    <3> QED
      BY <2>3, <3>1, Zenon DEF Settled, GrantKept
  <2>5. MapFollows'
    BY <1>2, <1>3, <2>1, <2>3, Zenon DEF MapFollows
  <2>6. CallHolds'
    BY <1>1, <2>1, <2>2, <2>3, Zenon DEF CallHolds
  <2> QED
    BY <2>4, <2>5, <2>6, Zenon DEF Settled
<1> QED
  BY <1>5, <1>6, Zenon

LEMMA SerialRecord ==
    ASSUME Serial, IInv, Settled, NEW t \in Threads, SetRecord(t)
    PROVE  Settled'
<1>1. \A u \in Threads : u = t
  BY Zenon DEF Serial
<1>2. /\ pc[t] = "record" /\ arg[t] \in Paths /\ pc'[t] = "limit"
      /\ UNCHANGED <<fs, projid, limit, granted, up, arg, pid>>
      /\ quotas' = [quotas EXCEPT ![arg[t]] = pid[t]]
  BY Zenon DEF SetRecord, IInv, TypeOK, diskVars
<1>3. /\ quotas'[arg[t]] = projid[arg[t]]
      /\ \A q \in Paths : q # arg[t] => quotas'[q] = quotas[q]
  <2>1. pid[t] = projid[arg[t]] /\ quotas \in [Paths -> IDs]
    BY <1>2, Zenon DEF IInv, TypeOK, Settled, CallHolds
  <2> QED
    BY <1>2, <2>1, Zenon
<1>4. MapFollows'
  <2> SUFFICES ASSUME up, NEW q \in Paths PROVE quotas'[q] = projid[q]
    BY <1>2, Zenon DEF MapFollows
  <2>1. CASE q = arg[t]
    BY <1>3, <2>1, Zenon
  <2>2. CASE q # arg[t]
    <3>1. quotas[q] = projid[q]
      BY <1>1, <2>2, Zenon DEF Settled, MapFollows
    <3> QED
      BY <1>3, <2>2, <3>1, Zenon
  <2> QED
    BY <2>1, <2>2, Zenon
<1>5. GrantKept'
  BY <1>2, Zenon DEF Settled, GrantKept
<1>6. CallHolds'
  <2>1. pid[t] = projid[arg[t]] /\ pid[t] # 0
    BY <1>2, Zenon DEF Settled, CallHolds
  <2> QED
    BY <1>1, <1>2, <2>1, Zenon DEF CallHolds
<1> QED
  BY <1>4, <1>5, <1>6, Zenon DEF Settled

\* The limit that is set is that of the call's directory and of no other.
LEMMA SerialLimit ==
    ASSUME Serial, IInv, Settled, NEW t \in Threads, SetLimit(t)
    PROVE  Settled'
<1>1. \A u \in Threads : u = t
  BY Zenon DEF Serial
<1>2. /\ pc[t] = "limit" /\ arg[t] \in Paths /\ pid[t] = projid[arg[t]] /\ pid[t] # 0
      /\ pid[t] \in IDs /\ pc'[t] = "idle" /\ UNCHANGED <<fs, projid, quotas, up>>
  BY Zenon DEF SetLimit, Return, memVars, IInv, TypeOK, Settled, CallHolds
<1>3. \A q \in Paths : projid[q] = pid[t] => q = arg[t]
  <2> SUFFICES ASSUME NEW q \in Paths, projid[q] = pid[t] PROVE q = arg[t]
    BY Zenon
  <2>1. q \in Scanned
    BY <1>2, SerialScan, Zenon DEF IInv, DirOnly
  <2> QED
    BY <1>2, <2>1, Zenon DEF IInv, OnePath, OwnID, Serial
<1>4. GrantKept'
  <2>1. CASE UNCHANGED <<limit, granted>>
    BY <1>2, <2>1, Zenon DEF Settled, GrantKept
  <2>2. CASE /\ limit' = [limit EXCEPT ![pid[t]] = Blocks(size[t])]
             /\ granted' = [granted EXCEPT ![arg[t]] = size[t]]
    <3>1. limit'[pid[t]] = Blocks(size[t]) /\ granted'[arg[t]] = size[t]
      BY <1>2, <2>2, Zenon DEF IInv, TypeOK
    <3>2. \A q \in Paths : q # arg[t] =>
             granted'[q] = granted[q] /\ limit'[projid[q]] = limit[projid[q]]
      BY <1>2, <1>3, <2>2, Zenon DEF IInv, TypeOK
    <3> SUFFICES ASSUME NEW q \in Paths, granted'[q] # Unset
                 PROVE  projid[q] # 0 /\ limit'[projid[q]] = Blocks(granted'[q])
      BY <1>2, Zenon DEF GrantKept
    <3>3. CASE q = arg[t]
      BY <1>2, <3>1, <3>3, Zenon
    <3>4. CASE q # arg[t]
      <4>1. granted[q] # Unset /\ granted'[q] = granted[q]
        BY <3>2, <3>4, Zenon
      <4>2. projid[q] # 0 /\ limit[projid[q]] = Blocks(granted[q])
        BY <4>1, Zenon DEF Settled, GrantKept
      <4> QED
        BY <3>2, <3>4, <4>1, <4>2, Zenon
    <3> QED
      BY <3>3, <3>4, Zenon
  <2> QED
    BY <2>1, <2>2, Zenon DEF SetLimit
<1>5. MapFollows'
  BY <1>1, <1>2, Zenon DEF Settled, MapFollows
<1>6. CallHolds'
  BY <1>1, <1>2, Zenon DEF CallHolds
<1> QED
  BY <1>4, <1>5, <1>6, Zenon DEF Settled

\* A restart finds the projects on disk again and clears no limit in use.
LEMMA SerialRestart ==
    ASSUME Serial, IInv, Settled, NewControl \/ Crash
    PROVE  Settled'
<1>1. CASE Crash
  BY <1>1, Zenon DEF Crash, Settled, GrantKept, MapFollows, CallHolds, diskVars
<1>2. CASE NewControl
  <2>1. /\ limit' = [limit EXCEPT ![MinProjectID] = 0]
        /\ UNCHANGED <<fs, projid, granted, pc, arg, pid>>
        /\ ~up
    BY <1>2, Zenon DEF NewControl, callVars
  <2>2. \A q \in Paths : quotas'[q] = projid'[q]
    BY <1>2, <2>1, SerialScan, Zenon DEF NewControl, IInv, DirOnly
  <2>3. MinProjectID \in Nat /\ MinProjectID # 0 /\ MinProjectID # BaseID
    BY ConstantsAssumption DEF ConstantsAssumption, MinProjectID
  <2>4. ~LegalID(MinProjectID)
    BY <2>3 DEF LegalID
  <2>5. \A q \in Paths : limit'[projid[q]] = limit[projid[q]]
    BY <2>1, <2>4, Zenon DEF IInv, TypeOK, IDRange
  <2>6. \A t \in Threads : pc'[t] = "idle"
    BY <2>1, Zenon DEF IInv, DownIsEmpty
  <2> QED
    BY <2>1, <2>2, <2>5, <2>6, Zenon DEF Settled, GrantKept, MapFollows, CallHolds
<1> QED
  BY <1>1, <1>2, Zenon

\* Where calls come one at a time, nothing is released and all directories are
\* directly below a base directory without a project, the limit in force on a
\* directory is always the one the last successful SetDirQuota asked for, and
\* GetDirQuota answers the limit in force, however often the daemon crashes, at
\* whatever point of a call.
THEOREM LimitsAreHonoured ==
    ASSUME Serial PROVE Spec => []QuotaHonoured
<1>1. Init => Settled
  BY SerialInit, Zenon
<1>2. IInv /\ Settled /\ [Next]_vars => Settled'
  <2> SUFFICES ASSUME IInv, Settled, [Next]_vars PROVE Settled'
    BY Zenon
  <2>1. CASE NewControl \/ Crash
    BY <2>1, SerialRestart, Zenon
  <2>2. ASSUME NEW t \in Threads, SetDirQuota(t)
        PROVE  Settled'
    BY <2>2, SerialLookup, SerialMkdir, SerialAssign, SerialRecord, SerialLimit, Zenon
    DEF SetDirQuota
  <2>3. ASSUME NEW t \in Threads PROVE ~ReleaseDir(t)
    BY Zenon DEF ReleaseDir, ReleaseLookup, ReleaseRemove, Serial, Settled, CallHolds
  <2>4. ASSUME NEW p \in Paths PROVE ~UserMkdir(p) /\ ~UserRmdir(p)
    BY Zenon DEF UserMkdir, UserRmdir, Serial
  <2>5. CASE UNCHANGED vars
    BY <2>5, Zenon DEF vars, Settled, GrantKept, MapFollows, CallHolds
  <2> QED
    BY <2>1, <2>2, <2>3, <2>4, <2>5, Zenon DEF Next
<1>3. IInv /\ Settled => QuotaHonoured
  <2> SUFFICES ASSUME IInv, Settled PROVE GrantedInForce /\ ReportedInForce
    BY Zenon DEF QuotaHonoured
  <2>1. GrantedInForce
    BY Zenon DEF Settled, GrantKept, GrantedInForce
  <2>2. ASSUME NEW p \in Paths, GetDirQuota(p) # Unset
        PROVE  GetDirQuota(p) = 512 * limit[projid[p]]
    <3>1. quotas[p] # 0 /\ GetDirQuota(p) = 512 * limit[quotas[p]]
      BY <2>2, Zenon DEF GetDirQuota
    <3>2. quotas[p] = projid[p]
      BY <3>1, Zenon DEF Settled, MapFollows, CallHolds, IInv, DownIsEmpty, TypeOK
    <3> QED
      BY <3>1, <3>2, Zenon
  <2> QED
    BY <2>1, <2>2, Zenon DEF ReportedInForce
<1> QED
  BY <1>1, <1>2, <1>3, Invariance, PTL DEF Spec
=============================================================================
