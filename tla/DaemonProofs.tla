---------------------------- MODULE DaemonProofs ----------------------------
(***************************************************************************)
(* What goroutines of the daemon share without a lock, for any number of     *)
(* them: checkGpuExec of the GPU check, dcmiHandle of the Atlas library, the *)
(* sockets of a tunnel of the HTTP proxy, and the map of Nvidia handles with *)
(* the readings taken through it.                                            *)
(***************************************************************************)
EXTENDS GpuCheck, NvidiaInfo, AtlasInfo, Tunnel, FiniteSetTheorems, TLAPS

\* A global that is set belongs to a request that has set it and will clear it
\* or find it cleared, unless a check has reported an error line.
SetByOne ==
    checkGpuExec # NilExec =>
        \/ \E r \in Checks : checking[r] \in {"set", "running"}
        \/ \E r \in Checks : verdict[r] = "error"

\* Types of the variables of GpuCheck.
LEMMA CheckTyped == CheckSpec => []CheckTypeOK
<1>1. CheckInit => CheckTypeOK
  BY Zenon DEF CheckInit, CheckTypeOK
<1>2. CheckTypeOK /\ [CheckNext]_checkVars => CheckTypeOK'
  <2> SUFFICES ASSUME CheckTypeOK, [CheckNext]_checkVars
               PROVE  CheckTypeOK'
    BY Zenon
  <2>1. CASE UNCHANGED checkVars
    BY <2>1, Zenon DEF checkVars, CheckTypeOK
  <2>2. ASSUME NEW r \in Checks, TestExec(r)
        PROVE  CheckTypeOK'
    BY <2>2, Zenon DEF TestExec, Conclude, CheckTypeOK
  <2>3. ASSUME NEW r \in Checks, SetExec(r)
        PROVE  CheckTypeOK'
    BY <2>3, Zenon DEF SetExec, CheckTypeOK
  <2>4. ASSUME NEW r \in Checks, RunExec(r)
        PROVE  CheckTypeOK'
    BY <2>4, ZenonT(30) DEF RunExec, Conclude, CheckTypeOK
  <2>5. ASSUME NEW r \in Checks, ExecEnds(r)
        PROVE  CheckTypeOK'
    BY <2>5, Zenon DEF ExecEnds, Conclude, CheckTypeOK
  <2>6. QED
    BY <2>1, <2>2, <2>3, <2>4, <2>5, Zenon DEF CheckNext
<1>3. QED
  BY <1>1, <1>2, PTL DEF CheckSpec

\* GpuCheckExecutor.CheckGpu: whatever the number of requests and the way
\* their accesses to checkGpuExec interleave, only an error line leaves the
\* global set when no request is under way.
THEOREM CheckNeverSticks == CheckSpec => []BlockedOnlyByError
<1>1. CheckInit => SetByOne
  BY Zenon DEF CheckInit, SetByOne
<1>2. CheckTypeOK /\ SetByOne /\ [CheckNext]_checkVars => SetByOne'
  <2> SUFFICES ASSUME CheckTypeOK, SetByOne, [CheckNext]_checkVars
               PROVE  SetByOne'
    BY Zenon
  <2>1. CASE UNCHANGED checkVars
    BY <2>1, Zenon DEF checkVars, SetByOne
  <2>2. ASSUME NEW r \in Checks, TestExec(r)
        PROVE  SetByOne'
    BY <2>2, Zenon DEF TestExec, Conclude, CheckTypeOK, SetByOne
  <2>3. ASSUME NEW r \in Checks, SetExec(r)
        PROVE  SetByOne'
    BY <2>3, Zenon DEF SetExec, CheckTypeOK, SetByOne
  <2>4. ASSUME NEW r \in Checks, RunExec(r)
        PROVE  SetByOne'
    BY <2>4, Zenon DEF RunExec, Conclude, CheckTypeOK, SetByOne
  <2>5. ASSUME NEW r \in Checks, ExecEnds(r)
        PROVE  SetByOne'
    BY <2>5, Zenon DEF ExecEnds, Conclude, CheckTypeOK, SetByOne
  <2>6. QED
    BY <2>1, <2>2, <2>3, <2>4, <2>5, Zenon DEF CheckNext
<1>3. SetByOne => BlockedOnlyByError
  BY Zenon DEF SetByOne, BlockedOnlyByError
<1>4. QED
  BY <1>1, <1>2, <1>3, CheckTyped, PTL DEF CheckSpec

-----------------------------------------------------------------------------
\* Without a failed dlopen the handle is there from the init of the package on.
HandleStays == ~loadFailed => dcmiHandle = "lib"

AtlasInv == AtlasTypeOK /\ HandleStays /\ LoadedWhileInside

\* DcInit and DcShutDown: for any number of overlapping calls of InfoAll the
\* library is mapped exactly while one of them is inside, as long as dlopen has
\* not failed.
THEOREM LibraryStaysMapped == AtlasSpec => []LoadedWhileInside
<1>1. AtlasInit => AtlasInv
  <2>1. Cardinality({}) = 0
    BY FS_EmptySet, Zenon
  <2>2. AtlasInit => AtlasTypeOK
    <3>1. AtlasInit => loads \in Nat /\ dcmiHandle \in {"null", "lib"} /\ inside \subseteq Callers
      BY DEF AtlasInit
    <3>2. AtlasInit => loadFailed \in BOOLEAN
      BY Zenon DEF AtlasInit
    <3>3. QED
      BY <3>1, <3>2, Zenon DEF AtlasTypeOK
  <2>3. AtlasInit => HandleStays
    BY Zenon DEF AtlasInit, HandleStays
  <2>4. AtlasInit => LoadedWhileInside
    BY <2>1, Zenon DEF AtlasInit, LoadedWhileInside
  <2>5. QED
    BY <2>2, <2>3, <2>4, Zenon DEF AtlasInv
<1>2. AtlasInv /\ [AtlasNext]_atlasVars => AtlasInv'
  <2> SUFFICES ASSUME AtlasInv, [AtlasNext]_atlasVars
               PROVE  AtlasInv'
    BY Zenon
  <2>0. IsFiniteSet(inside) /\ Cardinality(inside) \in Nat
    BY AtlasAssumption, FS_Subset, FS_CardinalityType, Zenon
       DEF AtlasInv, AtlasTypeOK, AtlasAssumption
  <2>1. CASE UNCHANGED atlasVars
    BY <2>1, Zenon DEF atlasVars, AtlasInv, AtlasTypeOK, HandleStays, LoadedWhileInside
  <2>2. ASSUME NEW u \in Callers, DcInit(u)
        PROVE  AtlasInv'
    <3>1. Cardinality(inside') = Cardinality(inside) + 1
      <4>1. u \notin inside /\ inside' = inside \cup {u}
        BY <2>2, Zenon DEF DcInit
      <4>2. Cardinality(inside \cup {u}) = Cardinality(inside) + 1
        BY <2>0, <4>1, FS_AddElement, Zenon
      <4>3. QED
        BY <4>1, <4>2, Zenon
    <3>2. AtlasTypeOK' /\ HandleStays'
      <4>1. loads' \in Nat /\ dcmiHandle' \in {"null", "lib"} /\ inside' \subseteq Callers
        BY <2>2 DEF DcInit, AtlasInv, AtlasTypeOK
      <4>2. loadFailed' \in BOOLEAN
        BY <2>2, Zenon DEF DcInit, AtlasInv, AtlasTypeOK
      <4>3. HandleStays'
        BY <2>2, Zenon DEF DcInit, HandleStays
      <4>4. QED
        BY <4>1, <4>2, <4>3, Zenon DEF AtlasTypeOK
    <3>3. LoadedWhileInside'
      BY <2>0, <2>2, <3>1 DEF DcInit, AtlasInv, AtlasTypeOK, LoadedWhileInside
    <3>4. QED
      BY <3>2, <3>3, Zenon DEF AtlasInv
  <2>3. ASSUME NEW u \in Callers, DcShutDown(u)
        PROVE  AtlasInv'
    <3>1. Cardinality(inside') = Cardinality(inside) - 1
      BY <2>0, <2>3, FS_RemoveElement, Zenon DEF DcShutDown
    <3>2. Cardinality(inside) # 0
      BY <2>0, <2>3, FS_EmptySet, Zenon DEF DcShutDown
    <3>3. AtlasTypeOK' /\ HandleStays'
      BY <2>3 DEF DcShutDown, AtlasInv, AtlasTypeOK, HandleStays
    <3>4. LoadedWhileInside'
      BY <2>0, <2>3, <3>1, <3>2, Zenon
      DEF DcShutDown, AtlasInv, AtlasTypeOK, HandleStays, LoadedWhileInside
    <3>5. QED
      BY <3>3, <3>4, Zenon DEF AtlasInv
  <2>4. QED
    BY <2>1, <2>2, <2>3, Zenon DEF AtlasNext
<1>3. AtlasInv => LoadedWhileInside
  BY Zenon DEF AtlasInv
<1>4. QED
  BY <1>1, <1>2, <1>3, PTL DEF AtlasSpec

-----------------------------------------------------------------------------
\* What holds of one tunnel: its copiers and its sockets follow its handler.
TunnelInv(t) ==
    /\ tun[t] \in {"none", "decode", "dial", "panicked"} =>
          cause[t] = "none" /\ \A w \in Ways : copier[t][w] = "none"
    /\ tun[t] \in {"none", "decode", "dial"} =>
          \A w \in Ways : sent[t][w] = 0 /\ held[t][w] = 0 /\ passed[t][w] = 0
    /\ tun[t] \in {"decode", "dial"} => open[t]["up"]
    /\ tun[t] = "bound" =>
          cause[t] = "none" /\ \A w \in Ways : copier[t][w] = "run" /\ open[t][w]
    /\ tun[t] = "closing" => cause[t] # "none"
    /\ tun[t] = "over" =>
          /\ \A w \in Ways : ~open[t][w]
          /\ cause[t] = "none" => \A w \in Ways : copier[t][w] = "none"
    /\ cause[t] # "none" =>
          /\ copier[t][cause[t]] = "done"
          /\ ended[t][Other(cause[t])] \/ passed[t][cause[t]] = sent[t][cause[t]]
    /\ \A w \in Ways : passed[t][w] + held[t][w] <= sent[t][w]

\* The inductive invariant of Tunnel.
TunnelsInv == TunnelTypeOK /\ \A t \in Tunnels : TunnelInv(t)

\* A tunnel that a step leaves alone keeps its invariant.
LEMMA TunnelUnmoved ==
    ASSUME NEW t \in Tunnels, TunnelInv(t),
           tun'[t] = tun[t], open'[t] = open[t], sent'[t] = sent[t], held'[t] = held[t],
           passed'[t] = passed[t], ended'[t] = ended[t], copier'[t] = copier[t],
           cause'[t] = cause[t]
    PROVE  TunnelInv(t)'
  BY DEF TunnelInv

\* Setting one way of one tunnel.
LEMMA SetWay ==
    ASSUME NEW S, NEW f \in [Tunnels -> [Ways -> S]], NEW t \in Tunnels, NEW w \in Ways,
           NEW v \in S
    PROVE  [f EXCEPT ![t][w] = v] \in [Tunnels -> [Ways -> S]]
  BY Zenon

\* The counters of one way.
LEMMA Counters ==
    ASSUME TunnelTypeOK, NEW t \in Tunnels, NEW w \in Ways
    PROVE  /\ sent[t][w] \in Nat /\ held[t][w] \in Nat /\ passed[t][w] \in Nat
           /\ sent[t][w] <= MaxChunks /\ held[t][w] \in {0, 1}
<1>1. /\ sent[t][w] \in 0 .. MaxChunks /\ held[t][w] \in {0, 1}
      /\ passed[t][w] \in 0 .. MaxChunks
  BY Zenon DEF TunnelTypeOK
<1>. QED  BY <1>1, TunnelAssumption DEF TunnelAssumption

\* No tunnel is there when the proxy starts.
LEMMA TunnelsInit == TunnelInit => TunnelsInv
  BY TunnelAssumption DEF TunnelInit, TunnelsInv, TunnelTypeOK, TunnelInv, PerWay, Ways,
     Other, Kinds, TunnelAssumption

\* A connection is accepted.
LEMMA AcceptInv ==
    ASSUME TunnelsInv, NEW t \in Tunnels, Accept(t)
    PROVE  TunnelsInv'
<1>1. TunnelTypeOK'
  BY Zenon DEF TunnelsInv, TunnelTypeOK, Accept, flowVars, Ways
<1>2. TunnelInv(t)'
  BY DEF TunnelsInv, TunnelTypeOK, TunnelInv, Accept, flowVars, Ways, Other
<1>3. ASSUME NEW u \in Tunnels, u # t PROVE TunnelInv(u)'
  BY <1>3, TunnelUnmoved, Zenon DEF TunnelsInv, TunnelTypeOK, Accept, flowVars
<1>. QED  BY <1>1, <1>2, <1>3, Zenon DEF TunnelsInv

\* The first read of a connection, which may panic or close it.
LEMMA DecodeInv ==
    ASSUME TunnelsInv, NEW t \in Tunnels, Decode(t)
    PROVE  TunnelsInv'
<1>1. TunnelTypeOK'
  <2>1. tun' \in [Tunnels -> {"none", "decode", "dial", "bound", "closing", "over", "panicked"}]
    BY Zenon DEF TunnelsInv, TunnelTypeOK, Decode
  <2>2. open' = open \/ CloseBoth(t)
    BY Zenon DEF Decode
  <2>3. open' \in [Tunnels -> [Ways -> BOOLEAN]]
    <3>1. open \in [Tunnels -> [Ways -> BOOLEAN]]
      BY Zenon DEF TunnelsInv, TunnelTypeOK
    <3>2. [w \in Ways |-> FALSE] \in [Ways -> BOOLEAN]
      BY Zenon
    <3>. QED  BY <2>2, <3>1, <3>2, Zenon DEF CloseBoth
  <2>. QED  BY <2>1, <2>3, Zenon DEF TunnelsInv, TunnelTypeOK, Decode, flowVars
<1>2. TunnelInv(t)'
  BY DEF TunnelsInv, TunnelTypeOK, TunnelInv, Decode, CloseBoth, flowVars, Ways, Other
<1>3. ASSUME NEW u \in Tunnels, u # t PROVE TunnelInv(u)'
  BY <1>3, TunnelUnmoved, Zenon DEF TunnelsInv, TunnelTypeOK, Decode, CloseBoth, flowVars
<1>. QED  BY <1>1, <1>2, <1>3, Zenon DEF TunnelsInv

\* A dial that fails closes the client's connection.
LEMMA DialFailsInv ==
    ASSUME TunnelsInv, NEW t \in Tunnels, DialFails(t)
    PROVE  TunnelsInv'
<1>1. TunnelTypeOK'
  BY Zenon DEF TunnelsInv, TunnelTypeOK, DialFails, CloseBoth, flowVars, Ways
<1>2. TunnelInv(t)'
  BY DEF TunnelsInv, TunnelTypeOK, TunnelInv, DialFails, CloseBoth, flowVars, Ways, Other
<1>3. ASSUME NEW u \in Tunnels, u # t PROVE TunnelInv(u)'
  BY <1>3, TunnelUnmoved, Zenon DEF TunnelsInv, TunnelTypeOK, DialFails, CloseBoth, flowVars
<1>. QED  BY <1>1, <1>2, <1>3, Zenon DEF TunnelsInv

\* The dial succeeds: both copiers start, and one chunk has been passed on.
LEMMA ConnectInv ==
    ASSUME TunnelsInv, NEW t \in Tunnels, Connect(t)
    PROVE  TunnelsInv'
<1>. DEFINE x == IF first[t] = "connect" THEN "down" ELSE "up"
<1>0. x \in Ways /\ 1 \in 0 .. MaxChunks
  BY TunnelAssumption DEF Ways, TunnelAssumption
<1>a. /\ sent' = [sent EXCEPT ![t][x] = 1]
      /\ passed' = [passed EXCEPT ![t][x] = 1]
  BY Zenon DEF Connect
<1>. HIDE DEF x
<1>1. TunnelTypeOK'
  <2>1. sent' \in [Tunnels -> [Ways -> 0 .. MaxChunks]]
    BY <1>0, <1>a, SetWay, Zenon DEF TunnelsInv, TunnelTypeOK
  <2>2. passed' \in [Tunnels -> [Ways -> 0 .. MaxChunks]]
    BY <1>0, <1>a, SetWay, Zenon DEF TunnelsInv, TunnelTypeOK
  <2>3. open' \in [Tunnels -> [Ways -> BOOLEAN]]
    BY Zenon DEF TunnelsInv, TunnelTypeOK, Connect, Ways
  <2>4. copier' \in [Tunnels -> [Ways -> {"none", "run", "done"}]]
    BY Zenon DEF TunnelsInv, TunnelTypeOK, Connect
  <2>5. tun' \in [Tunnels -> {"none", "decode", "dial", "bound", "closing", "over", "panicked"}]
    BY Zenon DEF TunnelsInv, TunnelTypeOK, Connect
  <2>. QED  BY <2>1, <2>2, <2>3, <2>4, <2>5, Zenon DEF TunnelsInv, TunnelTypeOK, Connect
<1>2. TunnelInv(t)'
  <2>1. tun[t] = "dial" /\ tun'[t] = "bound" /\ cause'[t] = cause[t]
    BY Zenon DEF TunnelsInv, TunnelTypeOK, Connect
  <2>2. cause[t] = "none" /\ \A w \in Ways : sent[t][w] = 0 /\ held[t][w] = 0 /\ passed[t][w] = 0
    BY <2>1, Zenon DEF TunnelsInv, TunnelInv
  <2>3. \A w \in Ways : copier'[t][w] = "run"
    BY Zenon DEF TunnelsInv, TunnelTypeOK, Connect
  <2>4. \A w \in Ways : passed'[t][w] + held'[t][w] <= sent'[t][w]
    BY <1>0, <1>a, <2>2 DEF TunnelsInv, TunnelTypeOK, Connect
  <2>5. \A w \in Ways : open'[t][w]
    BY <2>1 DEF TunnelsInv, TunnelTypeOK, TunnelInv, Connect, Ways
  <2>. QED  BY <2>1, <2>2, <2>3, <2>4, <2>5, Zenon DEF TunnelInv
<1>3. ASSUME NEW u \in Tunnels, u # t PROVE TunnelInv(u)'
  BY <1>3, TunnelUnmoved, Zenon DEF TunnelsInv, TunnelTypeOK, Connect
<1>. QED  BY <1>1, <1>2, <1>3, Zenon DEF TunnelsInv

\* IoBind's handler closes both sockets.
LEMMA CloseTunnelInv ==
    ASSUME TunnelsInv, NEW t \in Tunnels, CloseTunnel(t)
    PROVE  TunnelsInv'
<1>1. TunnelTypeOK'
  BY Zenon DEF TunnelsInv, TunnelTypeOK, CloseTunnel, CloseBoth, flowVars, Ways
<1>2. TunnelInv(t)'
  BY DEF TunnelsInv, TunnelTypeOK, TunnelInv, CloseTunnel, CloseBoth, flowVars, Ways, Other
<1>3. ASSUME NEW u \in Tunnels, u # t PROVE TunnelInv(u)'
  BY <1>3, TunnelUnmoved, Zenon DEF TunnelsInv, TunnelTypeOK, CloseTunnel, CloseBoth, flowVars
<1>. QED  BY <1>1, <1>2, <1>3, Zenon DEF TunnelsInv

\* A copier reads a chunk.
LEMMA ReadChunkInv ==
    ASSUME TunnelsInv, NEW t \in Tunnels, NEW w \in Ways, ReadChunk(t, w)
    PROVE  TunnelsInv'
<1>1. TunnelTypeOK'
  BY Zenon DEF TunnelsInv, TunnelTypeOK, ReadChunk, Ways
<1>2. TunnelInv(t)'
  BY DEF TunnelsInv, TunnelTypeOK, TunnelInv, ReadChunk, Ways, Other
<1>3. ASSUME NEW u \in Tunnels, u # t PROVE TunnelInv(u)'
  BY <1>3, TunnelUnmoved, Zenon DEF TunnelsInv, TunnelTypeOK, ReadChunk
<1>. QED  BY <1>1, <1>2, <1>3, Zenon DEF TunnelsInv

\* Until the tunnel is released its copiers run on open sockets.
LEMMA RunningTunnel ==
    ASSUME TunnelsInv, NEW t \in Tunnels, NEW w \in Ways, copier[t][w] = "run",
           cause[t] = "none"
    PROVE  tun[t] = "bound" /\ \A x \in Ways : open[t][x]
  BY ZenonT(30) DEF TunnelsInv, TunnelTypeOK, TunnelInv

\* The copier that ends first has passed on all it was sent, or has lost the
\* peer it writes to.
LEMMA ReleaseInv ==
    ASSUME TunnelsInv, NEW t \in Tunnels, NEW w \in Ways, copier[t][w] = "run",
           passed[t][w] = sent[t][w] \/ ended[t][Other(w)] \/ cause[t] # "none",
           Release(t, w), UNCHANGED <<open, sent, held, passed, ended>>
    PROVE  TunnelInv(t)'
<1>1. /\ copier'[t][w] = "done"
      /\ \A x \in Ways : x # w => copier'[t][x] = copier[t][x]
      /\ cause'[t] = IF cause[t] = "none" THEN w ELSE cause[t]
      /\ tun'[t] = IF cause[t] = "none" THEN "closing" ELSE tun[t]
  BY Zenon DEF Release, TunnelsInv, TunnelTypeOK
<1>2. TunnelInv(t)
  BY Zenon DEF TunnelsInv
<1>3. CASE cause[t] = "none"
  <2>1. cause'[t] = w /\ tun'[t] = "closing" /\ w # "none"
    BY <1>1, <1>3, Zenon DEF Ways
  <2>. QED  BY <1>1, <1>2, <1>3, <2>1, Zenon DEF TunnelInv
<1>4. CASE cause[t] # "none"
  <2>0. cause[t] \in Ways /\ copier[t][cause[t]] = "done"
    BY <1>2, <1>4 DEF TunnelInv, TunnelsInv, TunnelTypeOK
  <2>1. cause'[t] = cause[t] /\ tun'[t] = tun[t] /\ copier'[t][cause[t]] = "done"
    BY <1>1, <1>4, <2>0, Zenon
  <2>2. tun[t] \in {"closing", "over"}
    BY <1>2, <1>4 DEF TunnelInv, TunnelsInv, TunnelTypeOK
  <2>. QED  BY <1>1, <1>2, <1>4, <2>1, <2>2, Zenon DEF TunnelInv
<1>. QED  BY <1>3, <1>4, Zenon

\* A copier whose read fails or finds the end has nothing left to pass on,
\* unless the tunnel was released before.
LEMMA ReadEndsInv ==
    ASSUME TunnelsInv, NEW t \in Tunnels, NEW w \in Ways, ReadEnds(t, w)
    PROVE  TunnelsInv'
<1>1. TunnelTypeOK'
  BY Zenon DEF TunnelsInv, TunnelTypeOK, ReadEnds, Release, flowVars, Ways
<1>2. TunnelInv(t)'
  <2>1. /\ copier[t][w] = "run" /\ UNCHANGED <<open, sent, held, passed, ended>>
        /\ ~open[t][w] \/ passed[t][w] = sent[t][w]
    BY Zenon DEF ReadEnds, flowVars
  <2>2. passed[t][w] = sent[t][w] \/ cause[t] # "none"
    BY <2>1, RunningTunnel, Zenon
  <2>. QED  BY <2>1, <2>2, ReleaseInv, Zenon DEF ReadEnds
<1>3. ASSUME NEW u \in Tunnels, u # t PROVE TunnelInv(u)'
  BY <1>3, TunnelUnmoved, Zenon DEF TunnelsInv, TunnelTypeOK, ReadEnds, Release, flowVars
<1>. QED  BY <1>1, <1>2, <1>3, Zenon DEF TunnelsInv

\* A copier writes the chunk it holds.
LEMMA WriteChunkInv ==
    ASSUME TunnelsInv, NEW t \in Tunnels, NEW w \in Ways, WriteChunk(t, w)
    PROVE  TunnelsInv'
<1>1. TunnelTypeOK'
  <2>1. passed[t][w] + 1 \in 0 .. MaxChunks
    <3>1. held[t][w] = 1 /\ passed[t][w] + held[t][w] <= sent[t][w]
      BY Zenon DEF TunnelsInv, TunnelInv, WriteChunk
    <3>. QED  BY <3>1, Counters, TunnelAssumption DEF TunnelsInv, TunnelAssumption
  <2>2. passed' \in [Tunnels -> [Ways -> 0 .. MaxChunks]]
    BY <2>1, SetWay, Zenon DEF TunnelsInv, TunnelTypeOK, WriteChunk
  <2>3. held' \in [Tunnels -> [Ways -> {0, 1}]]
    BY SetWay, Zenon DEF TunnelsInv, TunnelTypeOK, WriteChunk
  <2>. QED  BY <2>2, <2>3, Zenon DEF TunnelsInv, TunnelTypeOK, WriteChunk
<1>2. TunnelInv(t)'
  BY DEF TunnelsInv, TunnelTypeOK, TunnelInv, WriteChunk, Ways, Other
<1>3. ASSUME NEW u \in Tunnels, u # t PROVE TunnelInv(u)'
  BY <1>3, TunnelUnmoved, Zenon DEF TunnelsInv, TunnelTypeOK, WriteChunk
<1>. QED  BY <1>1, <1>2, <1>3, Zenon DEF TunnelsInv

\* A copier whose write fails has lost its peer, unless the tunnel was
\* released before.
LEMMA WriteFailsInv ==
    ASSUME TunnelsInv, NEW t \in Tunnels, NEW w \in Ways, WriteFails(t, w)
    PROVE  TunnelsInv'
<1>1. TunnelTypeOK'
  BY Zenon DEF TunnelsInv, TunnelTypeOK, WriteFails, Release, flowVars, Ways
<1>2. TunnelInv(t)'
  <2>1. /\ copier[t][w] = "run" /\ UNCHANGED <<open, sent, held, passed, ended>>
        /\ ~open[t][Other(w)] \/ ended[t][Other(w)]
    BY Zenon DEF WriteFails, flowVars
  <2>2. ended[t][Other(w)] \/ cause[t] # "none"
    BY <2>1, RunningTunnel, Zenon DEF Ways, Other
  <2>. QED  BY <2>1, <2>2, ReleaseInv, Zenon DEF WriteFails
<1>3. ASSUME NEW u \in Tunnels, u # t PROVE TunnelInv(u)'
  BY <1>3, TunnelUnmoved, Zenon DEF TunnelsInv, TunnelTypeOK, WriteFails, Release, flowVars
<1>. QED  BY <1>1, <1>2, <1>3, Zenon DEF TunnelsInv

\* A peer sends.
LEMMA SendsInv ==
    ASSUME TunnelsInv, NEW t \in Tunnels, NEW w \in Ways, Sends(t, w)
    PROVE  TunnelsInv'
<1>1. TunnelTypeOK'
  <2>1. sent[t][w] + 1 \in 0 .. MaxChunks
    BY Counters, TunnelAssumption DEF TunnelsInv, TunnelAssumption, Sends
  <2>2. sent' \in [Tunnels -> [Ways -> 0 .. MaxChunks]]
    BY <2>1, SetWay, Zenon DEF TunnelsInv, TunnelTypeOK, Sends
  <2>. QED  BY <2>2, Zenon DEF TunnelsInv, TunnelTypeOK, Sends
<1>2. TunnelInv(t)'
  <2>1. /\ tun[t] = "bound" /\ UNCHANGED <<tun, open, held, passed, ended, copier, cause>>
        /\ sent'[t][w] = sent[t][w] + 1
        /\ \A x \in Ways : x # w => sent'[t][x] = sent[t][x]
    BY Zenon DEF Sends, TunnelsInv, TunnelTypeOK
  <2>2. \A x \in Ways : passed[t][x] \in Nat /\ held[t][x] \in Nat /\ sent[t][x] \in Nat
    BY Counters, Zenon DEF TunnelsInv
  <2>3. \A x \in Ways : passed'[t][x] + held'[t][x] <= sent'[t][x]
    BY <2>1, <2>2 DEF TunnelsInv, TunnelInv
  <2>4. cause[t] = "none"
    BY <2>1, Zenon DEF TunnelsInv, TunnelInv
  <2>. QED  BY <2>1, <2>3, <2>4, Zenon DEF TunnelsInv, TunnelInv
<1>3. ASSUME NEW u \in Tunnels, u # t PROVE TunnelInv(u)'
  BY <1>3, TunnelUnmoved, Zenon DEF TunnelsInv, TunnelTypeOK, Sends
<1>. QED  BY <1>1, <1>2, <1>3, Zenon DEF TunnelsInv

\* A peer closes or fails.
LEMMA EndsInv ==
    ASSUME TunnelsInv, NEW t \in Tunnels, NEW w \in Ways, Ends(t, w)
    PROVE  TunnelsInv'
<1>1. TunnelTypeOK'
  BY Zenon DEF TunnelsInv, TunnelTypeOK, Ends, flowVars, Ways
<1>2. TunnelInv(t)'
  BY DEF TunnelsInv, TunnelTypeOK, TunnelInv, Ends, flowVars, Ways, Other
<1>3. ASSUME NEW u \in Tunnels, u # t PROVE TunnelInv(u)'
  BY <1>3, TunnelUnmoved, Zenon DEF TunnelsInv, TunnelTypeOK, Ends, flowVars
<1>. QED  BY <1>1, <1>2, <1>3, Zenon DEF TunnelsInv

\* Every step of the proxy keeps the invariant.
LEMMA TunnelStep == TunnelsInv /\ [TunnelNext]_tunVars => TunnelsInv'
<1>1. ASSUME TunnelsInv, AcceptFails PROVE TunnelsInv'
  <2>1. ASSUME NEW t \in Tunnels PROVE TunnelInv(t)'
    BY <1>1, TunnelUnmoved, Zenon DEF TunnelsInv, AcceptFails, flowVars
  <2>2. TunnelTypeOK'
    BY <1>1, Zenon DEF TunnelsInv, TunnelTypeOK, AcceptFails, flowVars
  <2>. QED  BY <2>1, <2>2, Zenon DEF TunnelsInv
<1>2. ASSUME TunnelsInv, UNCHANGED tunVars PROVE TunnelsInv'
  BY <1>2 DEF TunnelsInv, TunnelTypeOK, TunnelInv, tunVars
<1>. QED
  BY <1>1, <1>2, AcceptInv, DecodeInv, DialFailsInv, ConnectInv, CloseTunnelInv,
     ReadChunkInv, Zenon,
     ReadEndsInv, WriteChunkInv, WriteFailsInv, SendsInv, EndsInv
  DEF TunnelNext, HandlerStep, CopyStep

\* The invariant of the tunnels, for any number of them and of chunks.
THEOREM TunnelInvariant == TunnelSpec => []TunnelsInv
  BY TunnelsInit, TunnelStep, PTL DEF TunnelSpec

\* proxy/http.go with IoBind: however the two copiers of a tunnel and its peers
\* interleave, the copier that ends a tunnel has passed on all that it was sent
\* unless the peer it writes to has gone.
THEOREM FirstEndIsComplete == TunnelSpec => []FirstEndComplete
<1>1. TunnelsInv => FirstEndComplete
  BY Zenon DEF TunnelsInv, TunnelInv, FirstEndComplete
<1>. QED  BY <1>1, TunnelInvariant, PTL

\* A tunnel that is over, or whose two copiers are done, holds no socket; only a
\* handler that panicked keeps one.
THEOREM NoTunnelLeaks == TunnelSpec => []OnlyPanicsLeak
<1>1. TunnelsInv => OnlyPanicsLeak
  <2>. SUFFICES ASSUME TunnelsInv, NEW t \in Tunnels, tun[t] # "closing",
                       tun[t] = "over" \/ \A w \in Ways : copier[t][w] = "done"
                PROVE  \A w \in Ways : ~open[t][w]
    BY Zenon DEF OnlyPanicsLeak
  <2>1. TunnelInv(t) /\ tun[t] \in {"none", "decode", "dial", "bound", "over", "panicked"}
    BY Zenon DEF TunnelsInv, TunnelTypeOK
  <2>2. tun[t] = "over"
    BY <2>1, Zenon DEF TunnelInv, Ways
  <2>. QED  BY <2>1, <2>2, Zenon DEF TunnelInv
<1>. QED  BY <1>1, TunnelInvariant, PTL

-----------------------------------------------------------------------------
\* The devices that a call of Info has still to do, and what it has read.
Reading(v) ==
    /\ Range(rest[v]) \subseteq Range(Asked[v])
    /\ viewing[v] \in {"found", "store", "stored", "astray", "query"} => rest[v] # <<>>
    /\ viewing[v] \in {"store", "stored", "astray"} => Head(rest[v]) \notin Unknown
    /\ viewing[v] \in {"send", "sleep"} => rest[v] = <<>>
    /\ \A d \in Devices : res[v][d] # "none" \/ shown[v][d] # "none" => d \in Range(Asked[v])
    /\ viewing[v] \notin {"begin", "end"} =>
          \A d \in Range(Asked[v]) : d \in Range(rest[v]) \/ res[v][d] # "none"

\* Before the map is made nothing was read.
Unmade(v) ==
    made = "nil" =>
        viewing[v] \in {"begin", "make", "end"} /\ res[v] = Nothing /\ shown[v] = Nothing

\* While there was one map, a device that was read is in it, or has no handle,
\* and a device of which the viewer was told is read through its handle.
OneMap(v) ==
    made = "once" =>
        /\ viewing[v] # "astray"
        /\ viewing[v] \in {"found", "query"} => Head(rest[v]) \in GpuDeviceMap
        /\ viewing[v] \in {"store", "stored"} => shown[v][Head(rest[v])] = "none"
        /\ viewing[v] = "query" =>
              shown[v][Head(rest[v])] = "none" \/ devH[v] = Head(rest[v])
        /\ \A d \in Devices :
              /\ res[v][d] # "none" \/ shown[v][d] # "none" => d \in GpuDeviceMap \cup Unknown
              /\ viewing[v] # "sleep" /\ shown[v][d] # "none" => res[v][d] \in {"none", "real"}

\* What holds of one viewer.
ViewerInv(v) == Reading(v) /\ Unmade(v) /\ OneMap(v)

\* The inductive invariant of NvidiaInfo.
InfoInv ==
    /\ InfoTypeOK /\ rest \in [Viewers -> Seq(Devices)]
    /\ \A v \in Viewers : ViewerInv(v)

\* Setting what was read of one device.
LEMMA SetReading ==
    ASSUME NEW S, NEW f \in [Viewers -> [Devices -> S]], NEW v \in Viewers, NEW d \in Devices,
           NEW r \in S
    PROVE  [f EXCEPT ![v][d] = r] \in [Viewers -> [Devices -> S]]
  BY Zenon

\* A call of Info takes the devices one at a time from a list it copies.
LEMMA RangeOfRest ==
    ASSUME NEW s \in Seq(Devices), s # <<>>
    PROVE  /\ Head(s) \in Devices /\ Tail(s) \in Seq(Devices)
           /\ Range(s) = {Head(s)} \cup Range(Tail(s))
<1>1. /\ Head(s) = s[1] /\ Head(s) \in Devices /\ Tail(s) \in Seq(Devices)
      /\ Len(s) \in Nat /\ Len(s) >= 1 /\ Len(Tail(s)) = Len(s) - 1
      /\ \A i \in 1 .. Len(Tail(s)) : Tail(s)[i] = s[i + 1]
  OBVIOUS
<1>2. Range(s) = {s[i] : i \in 1 .. Len(s)}
  BY DEF Range
<1>3. Range(Tail(s)) = {Tail(s)[i] : i \in 1 .. Len(s) - 1}
  <2>1. DOMAIN Tail(s) = 1 .. Len(Tail(s))
    BY <1>1
  <2>. QED  BY <1>1, <2>1, Zenon DEF Range
<1>4. ASSUME NEW d \in Range(s) PROVE d \in {Head(s)} \cup Range(Tail(s))
  <2>1. PICK i \in 1 .. Len(s) : d = s[i]
    BY <1>2, <1>4, Zenon
  <2>2. CASE i = 1
    BY <1>1, <2>1, <2>2, Zenon
  <2>3. CASE i # 1
    <3>1. i - 1 \in 1 .. Len(s) - 1 /\ (i - 1) + 1 = i
      BY <1>1, <2>3
    <3>. QED  BY <1>1, <1>3, <2>1, <3>1, Zenon
  <2>. QED  BY <2>2, <2>3, Zenon
<1>5. ASSUME NEW d \in Range(Tail(s)) PROVE d \in Range(s)
  <2>1. PICK i \in 1 .. Len(s) - 1 : d = Tail(s)[i]
    BY <1>3, <1>5, Zenon
  <2>2. i + 1 \in 1 .. Len(s) /\ d = s[i + 1]
    BY <1>1, <2>1
  <2>. QED  BY <1>2, <2>2, Zenon
<1>6. Head(s) \in Range(s)
  BY <1>1, <1>2
<1>. QED  BY <1>1, <1>4, <1>5, <1>6, Zenon

\* A viewer that a step leaves alone.
LEMMA ViewerUnmoved ==
    ASSUME NEW v \in Viewers, ViewerInv(v), made' = made, GpuDeviceMap \subseteq GpuDeviceMap',
           viewing'[v] = viewing[v], rest'[v] = rest[v], devH'[v] = devH[v],
           res'[v] = res[v], shown'[v] = shown[v]
    PROVE  ViewerInv(v)'
<1>1. Reading(v)' /\ Unmade(v)'
  BY Zenon DEF ViewerInv, Reading, Unmade
<1>2. OneMap(v)'
  BY Zenon DEF ViewerInv, OneMap
<1>. QED  BY <1>1, <1>2, Zenon DEF ViewerInv

\* No viewer has asked yet.
LEMMA InfoInitInv == InfoInit => InfoInv
<1>. SUFFICES ASSUME InfoInit PROVE InfoInv
  BY Zenon
<1>1. InfoTypeOK /\ rest \in [Viewers -> Seq(Devices)]
  <2>1. Nothing \in [Devices -> Readings] /\ <<>> \in Seq(Devices)
    BY DEF Nothing, Readings
  <2>2. res \in [Viewers -> [Devices -> Readings]] /\ shown \in [Viewers -> [Devices -> Readings]]
        /\ rest \in [Viewers -> Seq(Devices)]
    BY <2>1, Zenon DEF InfoInit
  <2>3. fatal \in BOOLEAN
    BY Zenon DEF InfoInit
  <2>. QED  BY <2>2, <2>3, Zenon DEF InfoInit, InfoTypeOK
<1>2. \A v \in Viewers : ViewerInv(v)
  BY DEF InfoInit, ViewerInv, Reading, Unmade, OneMap, Nothing, Range
<1>. QED  BY <1>1, <1>2, Zenon DEF InfoInv

\* The handler starts.
LEMMA BeginViewInv ==
    ASSUME InfoInv, NEW v \in Viewers, BeginView(v)
    PROVE  InfoInv'
<1>1. rest \in [Viewers -> Seq(Devices)] /\ (rest[v] # <<>> => Head(rest[v]) \in Devices)
  BY RangeOfRest, Zenon DEF InfoInv
<1>2. InfoTypeOK' /\ rest' \in [Viewers -> Seq(Devices)]
  <2>1. rest' \in [Viewers -> Seq(Devices)]
    BY <1>1, InfoAssumption, Zenon DEF BeginView, InfoAssumption
  <2>2. gone' \subseteq Viewers
    BY Zenon DEF InfoInv, InfoTypeOK, BeginView
  <2>3. viewing' \in [Viewers -> {"begin", "make", "look", "found", "store", "stored",
                                  "astray", "query", "send", "sleep", "end"}]
    BY Zenon DEF InfoInv, InfoTypeOK, BeginView, Go
  <2>. QED  BY <2>1, <2>2, <2>3, Zenon DEF InfoInv, InfoTypeOK, BeginView
<1>3. Reading(v)'
  BY <1>1, RangeOfRest, ZenonT(30) DEF InfoInv, InfoTypeOK, ViewerInv, Reading, BeginView,
     Go, Nothing
<1>4. Unmade(v)'
  BY Zenon DEF InfoInv, InfoTypeOK, ViewerInv, Unmade, BeginView, Go, Nothing
<1>5. OneMap(v)'
  BY <1>1 DEF InfoInv, InfoTypeOK, ViewerInv, OneMap, Unmade, Reading, BeginView, Go,
     Nothing, Readings
<1>6. ASSUME NEW u \in Viewers, u # v PROVE ViewerInv(u)'
  BY <1>1, <1>6, ViewerUnmoved, Zenon DEF InfoInv, InfoTypeOK, BeginView, Go
<1>. QED  BY <1>2, <1>3, <1>4, <1>5, <1>6, Zenon DEF InfoInv, ViewerInv

\* The first access to the map.
LEMMA LookUpDeviceInv ==
    ASSUME InfoInv, NEW v \in Viewers, LookUpDevice(v)
    PROVE  InfoInv'
<1>1. rest \in [Viewers -> Seq(Devices)] /\ (rest[v] # <<>> => Head(rest[v]) \in Devices)
  BY RangeOfRest, Zenon DEF InfoInv
<1>2. InfoTypeOK' /\ rest' \in [Viewers -> Seq(Devices)]
  <2>1. rest[v] # <<>> /\ Tail(rest[v]) \in Seq(Devices)
    BY <1>1, RangeOfRest, Zenon DEF LookUpDevice
  <2>2. rest' \in [Viewers -> Seq(Devices)]
    BY <1>1, <2>1, Zenon DEF LookUpDevice
  <2>3. viewing' \in [Viewers -> {"begin", "make", "look", "found", "store", "stored",
                                  "astray", "query", "send", "sleep", "end"}]
    BY ZenonT(30) DEF InfoInv, InfoTypeOK, LookUpDevice, Go
  <2>4. res' \in [Viewers -> [Devices -> Readings]]
    <3>1. res' = res \/ res' = [res EXCEPT ![v][Head(rest[v])] = "real"]
      BY Zenon DEF LookUpDevice
    <3>2. res \in [Viewers -> [Devices -> Readings]] /\ "real" \in Readings
      BY Zenon DEF InfoInv, InfoTypeOK, Readings
    <3>3. PICK d \in Devices : d = Head(rest[v])
      BY <1>1, <2>1, RangeOfRest, Zenon
    <3>4. [res EXCEPT ![v][d] = "real"] \in [Viewers -> [Devices -> Readings]]
      BY <3>2, SetReading, Zenon
    <3>. QED  BY <3>1, <3>2, <3>3, <3>4, Zenon
  <2>5. fatal' \in BOOLEAN
    BY Zenon DEF InfoInv, InfoTypeOK, LookUpDevice, Access
  <2>. QED  BY <2>2, <2>3, <2>4, <2>5, Zenon DEF InfoInv, InfoTypeOK, LookUpDevice
<1>3. Reading(v)'
  <2>1. viewing[v] = "look" /\ rest[v] # <<>> /\ shown' = shown /\ Reading(v)
    BY Zenon DEF InfoInv, ViewerInv, LookUpDevice
  <2>2. CASE UNCHANGED <<rest, res>>
    <3>1. viewing'[v] \in {"found", "store", "end"}
          /\ (viewing'[v] = "store" => Head(rest[v]) \notin Unknown)
      BY <2>1, <2>2 DEF InfoInv, InfoTypeOK, LookUpDevice, Go
    <3>. QED  BY <2>1, <2>2, <3>1, Zenon DEF Reading
  <2>3. CASE ~UNCHANGED <<rest, res>>
    <3>1. /\ viewing' = viewing /\ rest'[v] = Tail(rest[v])
          /\ res'[v] = [res[v] EXCEPT ![Head(rest[v])] = "real"]
      BY <1>1, <2>3, Zenon DEF InfoInv, InfoTypeOK, LookUpDevice
    <3>2. DOMAIN res[v] = Devices
      BY Zenon DEF InfoInv, InfoTypeOK
    <3>. QED  BY <1>1, <2>1, <3>1, <3>2, RangeOfRest DEF Reading
  <2>. QED  BY <2>2, <2>3, Zenon
<1>4. Unmade(v)'
  BY Zenon DEF InfoInv, InfoTypeOK, ViewerInv, Unmade, LookUpDevice, Go, Access, Nothing
<1>5. OneMap(v)'
  BY <1>1 DEF InfoInv, InfoTypeOK, ViewerInv, OneMap, Unmade, Reading, LookUpDevice, Go,
     Access, Nothing, Readings
<1>6. ASSUME NEW u \in Viewers, u # v PROVE ViewerInv(u)'
  BY <1>1, <1>6, ViewerUnmoved, ZenonT(30) DEF InfoInv, InfoTypeOK, LookUpDevice, Go, Access
<1>. QED  BY <1>2, <1>3, <1>4, <1>5, <1>6, Zenon DEF InfoInv, ViewerInv

\* The second access to the map.
LEMMA ReadHandleInv ==
    ASSUME InfoInv, NEW v \in Viewers, ReadHandle(v)
    PROVE  InfoInv'
<1>1. rest \in [Viewers -> Seq(Devices)] /\ (rest[v] # <<>> => Head(rest[v]) \in Devices)
  BY RangeOfRest, Zenon DEF InfoInv
<1>2. InfoTypeOK' /\ rest' \in [Viewers -> Seq(Devices)]
  BY <1>1, RangeOfRest, InfoAssumption, Zenon DEF InfoInv, InfoTypeOK, ReadHandle, Go,
     Access, Readings, Nothing, InfoAssumption
<1>3. Reading(v)'
  BY <1>1, RangeOfRest, Zenon DEF InfoInv, InfoTypeOK, ViewerInv, Reading, ReadHandle, Go,
     Access, Nothing
<1>4. Unmade(v)'
  BY Zenon DEF InfoInv, InfoTypeOK, ViewerInv, Unmade, ReadHandle, Go, Access, Nothing
<1>5. OneMap(v)'
  BY <1>1 DEF InfoInv, InfoTypeOK, ViewerInv, OneMap, Unmade, Reading, ReadHandle, Go,
     Access, Nothing, Readings
<1>6. ASSUME NEW u \in Viewers, u # v PROVE ViewerInv(u)'
  BY <1>1, <1>6, ViewerUnmoved, Zenon DEF InfoInv, InfoTypeOK, ReadHandle, Go, Access
<1>. QED  BY <1>2, <1>3, <1>4, <1>5, <1>6, Zenon DEF InfoInv, ViewerInv

\* The write of the map begins.
LEMMA StoreHandleInv ==
    ASSUME InfoInv, NEW v \in Viewers, StoreHandle(v)
    PROVE  InfoInv'
<1>1. rest \in [Viewers -> Seq(Devices)] /\ (rest[v] # <<>> => Head(rest[v]) \in Devices)
  BY RangeOfRest, Zenon DEF InfoInv
<1>2. InfoTypeOK' /\ rest' \in [Viewers -> Seq(Devices)]
  BY <1>1, RangeOfRest, InfoAssumption, Zenon DEF InfoInv, InfoTypeOK, StoreHandle, Go,
     Access, Readings, Nothing, InfoAssumption
<1>3. Reading(v)'
  BY <1>1, RangeOfRest, Zenon DEF InfoInv, InfoTypeOK, ViewerInv, Reading, StoreHandle, Go,
     Access, Nothing
<1>4. Unmade(v)'
  BY Zenon DEF InfoInv, InfoTypeOK, ViewerInv, Unmade, StoreHandle, Go, Access, Nothing
<1>5. OneMap(v)'
  BY <1>1 DEF InfoInv, InfoTypeOK, ViewerInv, OneMap, Unmade, Reading, StoreHandle, Go,
     Access, Nothing, Readings
<1>6. ASSUME NEW u \in Viewers, u # v PROVE ViewerInv(u)'
  BY <1>1, <1>6, ViewerUnmoved, Zenon DEF InfoInv, InfoTypeOK, StoreHandle, Go, Access
<1>. QED  BY <1>2, <1>3, <1>4, <1>5, <1>6, Zenon DEF InfoInv, ViewerInv

\* The write of the map ends.
LEMMA HandleStoredInv ==
    ASSUME InfoInv, NEW v \in Viewers, HandleStored(v)
    PROVE  InfoInv'
<1>1. rest \in [Viewers -> Seq(Devices)] /\ (rest[v] # <<>> => Head(rest[v]) \in Devices)
  BY RangeOfRest, Zenon DEF InfoInv
<1>2. InfoTypeOK' /\ rest' \in [Viewers -> Seq(Devices)]
  <2>1. rest[v] # <<>> /\ Head(rest[v]) \in Devices \ Unknown
    BY <1>1, Zenon DEF InfoInv, ViewerInv, Reading, HandleStored
  <2>2. GpuDeviceMap' \subseteq Devices \ Unknown
    BY <2>1, Zenon DEF InfoInv, InfoTypeOK, HandleStored
  <2>3. devH' \in [Viewers -> Devices \cup {"zero"}]
    BY <2>1, Zenon DEF InfoInv, InfoTypeOK, HandleStored
  <2>. QED  BY <1>1, <2>2, <2>3, Zenon DEF InfoInv, InfoTypeOK, HandleStored, Go
<1>3. Reading(v)'
  BY <1>1, RangeOfRest, Zenon DEF InfoInv, InfoTypeOK, ViewerInv, Reading, HandleStored, Go, Nothing
<1>4. Unmade(v)'
  BY Zenon DEF InfoInv, InfoTypeOK, ViewerInv, Unmade, HandleStored, Go, Nothing
<1>5. OneMap(v)'
  BY <1>1 DEF InfoInv, InfoTypeOK, ViewerInv, OneMap, Unmade, Reading, HandleStored, Go,
     Nothing, Readings
<1>6. ASSUME NEW u \in Viewers, u # v PROVE ViewerInv(u)'
  BY <1>1, <1>6, ViewerUnmoved, Zenon DEF InfoInv, InfoTypeOK, HandleStored, Go
<1>. QED  BY <1>2, <1>3, <1>4, <1>5, <1>6, Zenon DEF InfoInv, ViewerInv

\* The device is read through the handle.
LEMMA QueryInv ==
    ASSUME InfoInv, NEW v \in Viewers, Query(v)
    PROVE  InfoInv'
<1>1. rest \in [Viewers -> Seq(Devices)] /\ (rest[v] # <<>> => Head(rest[v]) \in Devices)
  BY RangeOfRest, Zenon DEF InfoInv
<1>2. InfoTypeOK' /\ rest' \in [Viewers -> Seq(Devices)]
  <2>1. rest[v] # <<>> /\ Tail(rest[v]) \in Seq(Devices)
    BY <1>1, RangeOfRest, Zenon DEF InfoInv, ViewerInv, Reading, Query
  <2>2. rest' \in [Viewers -> Seq(Devices)]
    BY <1>1, <2>1, Zenon DEF Query
  <2>3. res' \in [Viewers -> [Devices -> Readings]]
    BY <1>1, <2>1, Zenon DEF InfoInv, InfoTypeOK, Query, Readings
  <2>. QED  BY <2>2, <2>3, Zenon DEF InfoInv, InfoTypeOK, Query, Go
<1>3. Reading(v)'
  <2>1. viewing[v] = "query" /\ rest[v] # <<>> /\ shown' = shown /\ Reading(v)
    BY Zenon DEF InfoInv, ViewerInv, Reading, Query
  <2>2. /\ viewing'[v] = "look" /\ rest'[v] = Tail(rest[v])
        /\ res'[v] = [res[v] EXCEPT ![Head(rest[v])] =
                         IF devH[v] = Head(rest[v]) THEN "real" ELSE "zero"]
        /\ DOMAIN res[v] = Devices
    BY <1>1, Zenon DEF InfoInv, InfoTypeOK, Query, Go
  <2>. QED  BY <1>1, <2>1, <2>2, RangeOfRest DEF Reading
<1>4. Unmade(v)'
  BY Zenon DEF InfoInv, InfoTypeOK, ViewerInv, Unmade, Query, Go, Nothing
<1>5. OneMap(v)'
  BY <1>1 DEF InfoInv, InfoTypeOK, ViewerInv, OneMap, Unmade, Reading, Query, Go, Nothing, Readings
<1>6. ASSUME NEW u \in Viewers, u # v PROVE ViewerInv(u)'
  BY <1>1, <1>6, ViewerUnmoved, Zenon DEF InfoInv, InfoTypeOK, Query, Go
<1>. QED  BY <1>2, <1>3, <1>4, <1>5, <1>6, Zenon DEF InfoInv, ViewerInv

\* Info has done all devices.
LEMMA InfoReturnsInv ==
    ASSUME InfoInv, NEW v \in Viewers, InfoReturns(v)
    PROVE  InfoInv'
<1>1. rest \in [Viewers -> Seq(Devices)] /\ (rest[v] # <<>> => Head(rest[v]) \in Devices)
  BY RangeOfRest, Zenon DEF InfoInv
<1>2. InfoTypeOK' /\ rest' \in [Viewers -> Seq(Devices)]
  BY <1>1, RangeOfRest, InfoAssumption, Zenon DEF InfoInv, InfoTypeOK, InfoReturns, Go,
     Readings, Nothing, InfoAssumption
<1>3. Reading(v)'
  BY <1>1, RangeOfRest, Zenon DEF InfoInv, InfoTypeOK, ViewerInv, Reading, InfoReturns, Go, Nothing
<1>4. Unmade(v)'
  BY Zenon DEF InfoInv, InfoTypeOK, ViewerInv, Unmade, InfoReturns, Go, Nothing
<1>5. OneMap(v)'
  BY <1>1 DEF InfoInv, InfoTypeOK, ViewerInv, OneMap, Unmade, Reading, InfoReturns, Go,
     Nothing, Readings
<1>6. ASSUME NEW u \in Viewers, u # v PROVE ViewerInv(u)'
  BY <1>1, <1>6, ViewerUnmoved, ZenonT(30) DEF InfoInv, InfoTypeOK, InfoReturns, Go
<1>. QED  BY <1>2, <1>3, <1>4, <1>5, <1>6, Zenon DEF InfoInv, ViewerInv

\* The reading is sent to the viewer.
LEMMA SendInfoInv ==
    ASSUME InfoInv, NEW v \in Viewers, SendInfo(v)
    PROVE  InfoInv'
<1>1. rest \in [Viewers -> Seq(Devices)] /\ (rest[v] # <<>> => Head(rest[v]) \in Devices)
  BY RangeOfRest, Zenon DEF InfoInv
<1>2. InfoTypeOK' /\ rest' \in [Viewers -> Seq(Devices)]
  BY <1>1, RangeOfRest, InfoAssumption, Zenon
     DEF InfoInv, InfoTypeOK, SendInfo, Go, Readings, Nothing, InfoAssumption
<1>3. Reading(v)'
  BY <1>1, RangeOfRest, ZenonT(30) DEF InfoInv, InfoTypeOK, ViewerInv, Reading, SendInfo,
     Go, Nothing
<1>4. Unmade(v)'
  BY Zenon DEF InfoInv, InfoTypeOK, ViewerInv, Unmade, SendInfo, Go, Nothing
<1>5. OneMap(v)'
  BY <1>1 DEF InfoInv, InfoTypeOK, ViewerInv, OneMap, Unmade, Reading, SendInfo, Go,
     Nothing, Readings
<1>6. ASSUME NEW u \in Viewers, u # v PROVE ViewerInv(u)'
  BY <1>1, <1>6, ViewerUnmoved, Zenon DEF InfoInv, InfoTypeOK, SendInfo, Go
<1>. QED  BY <1>2, <1>3, <1>4, <1>5, <1>6, Zenon DEF InfoInv, ViewerInv

\* The next call of Info.
LEMMA AgainInv ==
    ASSUME InfoInv, NEW v \in Viewers, Again(v)
    PROVE  InfoInv'
<1>1. rest \in [Viewers -> Seq(Devices)] /\ (rest[v] # <<>> => Head(rest[v]) \in Devices)
  BY RangeOfRest, Zenon DEF InfoInv
<1>2. InfoTypeOK' /\ rest' \in [Viewers -> Seq(Devices)]
  BY <1>1, RangeOfRest, InfoAssumption, Zenon DEF InfoInv, InfoTypeOK, Again, Go, Readings,
     Nothing, InfoAssumption
<1>3. Reading(v)'
  BY <1>1, RangeOfRest, Zenon DEF InfoInv, InfoTypeOK, ViewerInv, Reading, Again, Go, Nothing
<1>4. Unmade(v)'
  BY Zenon DEF InfoInv, InfoTypeOK, ViewerInv, Unmade, Again, Go, Nothing
<1>5. OneMap(v)'
  BY <1>1 DEF InfoInv, InfoTypeOK, ViewerInv, OneMap, Unmade, Reading, Again, Go, Nothing, Readings
<1>6. ASSUME NEW u \in Viewers, u # v PROVE ViewerInv(u)'
  BY <1>1, <1>6, ViewerUnmoved, ZenonT(30) DEF InfoInv, InfoTypeOK, Again, Go
<1>. QED  BY <1>2, <1>3, <1>4, <1>5, <1>6, Zenon DEF InfoInv, ViewerInv

\* The viewer closes the connection.
LEMMA LeaveInv ==
    ASSUME InfoInv, NEW v \in Viewers, Leave(v)
    PROVE  InfoInv'
<1>1. rest \in [Viewers -> Seq(Devices)] /\ (rest[v] # <<>> => Head(rest[v]) \in Devices)
  BY RangeOfRest, Zenon DEF InfoInv
<1>2. InfoTypeOK' /\ rest' \in [Viewers -> Seq(Devices)]
  BY <1>1, RangeOfRest, InfoAssumption, Zenon DEF InfoInv, InfoTypeOK, Leave, Readings,
     Nothing, InfoAssumption
<1>3. Reading(v)'
  BY <1>1, RangeOfRest, Zenon DEF InfoInv, InfoTypeOK, ViewerInv, Reading, Leave, Nothing
<1>4. Unmade(v)'
  BY Zenon DEF InfoInv, InfoTypeOK, ViewerInv, Unmade, Leave, Nothing
<1>5. OneMap(v)'
  BY <1>1, ZenonT(30) DEF InfoInv, InfoTypeOK, ViewerInv, OneMap, Unmade, Reading, Leave,
     Nothing, Readings
<1>6. ASSUME NEW u \in Viewers, u # v PROVE ViewerInv(u)'
  BY <1>1, <1>6, ViewerUnmoved, Zenon DEF InfoInv, InfoTypeOK, Leave
<1>. QED  BY <1>2, <1>3, <1>4, <1>5, <1>6, Zenon DEF InfoInv, ViewerInv

\* The making of the map reaches the viewers that are writing the old one.
LEMMA MakeMapInv ==
    ASSUME InfoInv, NEW v \in Viewers, MakeMap(v)
    PROVE  InfoInv'
<1>1. InfoTypeOK' /\ rest' \in [Viewers -> Seq(Devices)]
  BY Zenon DEF InfoInv, InfoTypeOK, MakeMap
<1>2. made' \in {"once", "again"} /\ (made' = "once" => made = "nil")
  BY Zenon DEF InfoInv, InfoTypeOK, MakeMap
<1>3. ASSUME NEW u \in Viewers PROVE ViewerInv(u)'
  <2>1. ViewerInv(u) /\ UNCHANGED <<rest, devH, res, shown>> /\ viewing[v] = "make"
    BY Zenon DEF InfoInv, MakeMap
  <2>2. viewing'[u] = IF u = v THEN "look" ELSE IF viewing[u] = "stored" THEN "astray"
                      ELSE viewing[u]
    BY Zenon DEF MakeMap
  <2>3. Reading(u)'
    BY <2>1, <2>2, Zenon DEF ViewerInv, Reading
  <2>4. Unmade(u)'
    BY <1>2, Zenon DEF Unmade
  <2>5. OneMap(u)'
    BY <1>2, <2>1, <2>2, Zenon DEF ViewerInv, Unmade, OneMap, Nothing
  <2>. QED  BY <2>3, <2>4, <2>5, Zenon DEF ViewerInv
<1>. QED  BY <1>1, <1>3, Zenon DEF InfoInv

\* Every step keeps the invariant.
LEMMA InfoStep == InfoInv /\ [InfoNext]_infoVars => InfoInv'
<1>1. ASSUME InfoInv, UNCHANGED infoVars PROVE InfoInv'
  <2>1. UNCHANGED <<GpuDeviceMap, made, viewing, rest, devH, res, shown, gone, fatal>>
    BY <1>1, Zenon DEF infoVars
  <2>. QED  BY <1>1, <2>1 DEF InfoInv, InfoTypeOK, ViewerInv, Reading, Unmade, OneMap
<1>. QED
  BY <1>1, BeginViewInv, MakeMapInv, LookUpDeviceInv, ReadHandleInv, StoreHandleInv, ZenonT(30),
     HandleStoredInv, QueryInv, InfoReturnsInv, SendInfoInv, AgainInv, LeaveInv
  DEF InfoNext, Handler

\* The invariant of the viewers, for any number of them and any lists of devices.
LEMMA InfoInvariant == InfoSpec => []InfoInv
  BY InfoInitInv, InfoStep, PTL DEF InfoSpec

\* NvidiaInfo.Info: whatever the number of viewers, and however their accesses to
\* GpuDeviceMap interleave, no viewer is sent an empty reading of a device it was
\* told of before, unless two handlers made the map.
THEOREM EmptyReadingOnlyFirst == InfoSpec => EmptyOnlyFirst
<1>. DEFINE Fuller ==
        \A v \in Viewers, d \in Devices :
          /\ viewing[v] = "send" /\ viewing'[v] = "sleep"
          /\ made = "once" /\ shown[v][d] # "none"
          => shown'[v][d] = "real"
<1>1. InfoInv /\ [InfoNext]_infoVars => [Fuller]_infoVars
  <2>. SUFFICES ASSUME InfoInv, InfoNext, NEW v \in Viewers, NEW d \in Devices,
                       viewing[v] = "send", viewing'[v] = "sleep",
                       made = "once", shown[v][d] # "none"
                PROVE  shown'[v][d] = "real"
    BY Zenon
  <2>1. PICK u \in Viewers : Handler(u) \/ Leave(u)
    BY Zenon DEF InfoNext
  <2>2. u = v /\ SendInfo(v)
    BY <2>1, Zenon DEF InfoInv, InfoTypeOK, Handler, BeginView, MakeMap, LookUpDevice, ReadHandle,
                StoreHandle, HandleStored, Query, InfoReturns, SendInfo, Again, Leave, Go
  <2>3. shown'[v] = res[v]
    BY <2>2, Zenon DEF InfoInv, InfoTypeOK, SendInfo, Go
  <2>4. d \in Range(Asked[v]) /\ rest[v] = <<>>
    BY Zenon DEF InfoInv, ViewerInv, Reading
  <2>5. res[v][d] # "none"
    <3>1. Range(rest[v]) = {}
      BY <2>4 DEF Range
    <3>. QED  BY <2>4, <3>1, Zenon DEF InfoInv, ViewerInv, Reading
  <2>6. res[v][d] \in {"none", "real"}
    BY Zenon DEF InfoInv, ViewerInv, OneMap
  <2>. QED  BY <2>3, <2>5, <2>6, Zenon
<1>. QED  BY <1>1, InfoInvariant, PTL DEF InfoSpec, EmptyOnlyFirst

\* NvidiaInfo.Info: once every device asked for is in the map or has no handle and
\* no write or making of the map is under way, the map stays as it is and the
\* runtime can never find concurrent use of it.
THEOREM SettledIsStable == InfoSpec => SettledStays
<1>1. InfoInv /\ [InfoNext]_infoVars => [Settled => Settled' /\ (fatal' = fatal)]_infoVars
  <2>. SUFFICES ASSUME InfoInv, Settled, NEW v \in Viewers, Handler(v) \/ Leave(v)
                PROVE  Settled' /\ fatal' = fatal
    BY Zenon DEF InfoNext
  <2>1. CASE LookUpDevice(v)
    <3>1. Head(rest[v]) \in GpuDeviceMap \cup Unknown /\ Access(v)
      BY <2>1, RangeOfRest, ZenonT(30) DEF InfoInv, ViewerInv, Reading, LookUpDevice, Settled
    <3>2. fatal' = fatal
      BY <3>1, Zenon DEF Access, Settled
    <3>3. /\ UNCHANGED <<GpuDeviceMap, made>>
          /\ \A u \in Viewers : viewing'[u] # viewing[u] => viewing'[u] \in {"found", "end"}
      BY <2>1, <3>1, Zenon DEF InfoInv, InfoTypeOK, LookUpDevice, Go
    <3>. QED  BY <3>2, <3>3, Zenon DEF Settled
  <2>2. CASE BeginView(v)
    BY <2>2, Zenon DEF InfoInv, InfoTypeOK, BeginView, Go, Settled
  <2>3. CASE HandleStored(v)
    BY <2>3, Zenon DEF InfoInv, InfoTypeOK, HandleStored, Go, Settled
  <2>4. CASE ReadHandle(v)
    BY <2>4, Zenon DEF InfoInv, InfoTypeOK, ReadHandle, Go, Access, Settled
  <2>5. CASE Query(v) \/ InfoReturns(v) \/ SendInfo(v) \/ Again(v) \/ Leave(v)
    BY <2>5, Zenon DEF InfoInv, InfoTypeOK, Query, InfoReturns, SendInfo, Again, Leave, Go, Settled
  <2>6. ~MakeMap(v) /\ ~StoreHandle(v)
    BY Zenon DEF MakeMap, StoreHandle, Settled
  <2>. QED  BY <2>1, <2>2, <2>3, <2>4, <2>5, <2>6, Zenon DEF Handler
<1>. QED  BY <1>1, InfoInvariant, PTL DEF InfoSpec, SettledStays
=============================================================================
