--------------------------- MODULE LogCountProofs ----------------------------
(***************************************************************************)
(* The flush timer of a connection and its callbacks are at most two, and   *)
(* the peer sees no record more than twice.                                 *)
(***************************************************************************)
EXTENDS LogOrderProofs, FiniteSetTheorems

USE ConstantsAssumption DEF ConstantsAssumption, cacheVars, monVars, wireVars, peerVars

\* 1 for a truth, 0 for a falsehood.
Bit(b) == IF b THEN 1 ELSE 0

\* The unlocked flush is over.
Final == mpc \in {"return", "done"} \/ (mpc \in {"mid", "midsend"} /\ ret = "return")

\* The timer and its callbacks are at most one per set flag, and one more once the
\* unlocked flush has cleared the flag behind their back.
Timers ==
    /\ IsFiniteSet(LiveSet)
    /\ Cardinality(LiveSet) + Bit(timer) <= Bit(sendingFlag) + Bit(Final)

\* A step that leaves timer, flag and callbacks alone keeps their bound.
LEMMA TimersKept ==
    ASSUME Timers, LiveSet' = LiveSet, timer' = timer, sendingFlag' = sendingFlag,
           Final => Final'
    PROVE  Timers'
<1>1. Cardinality(LiveSet) \in Nat
  BY FS_CardinalityType, Zenon DEF Timers
<1>2. CASE Final
  BY <1>1, <1>2, Zenon DEF Timers, Bit
<1>3. CASE ~Final
  BY <1>1, <1>3 DEF Timers, Bit
<1>. QED  BY <1>2, <1>3, Zenon

\* A callback begins or ends.
LEMMA LiveChange ==
    ASSUME Timers, NEW f \in Flushers
    PROVE  /\ Cardinality(LiveSet) \in Nat
           /\ f \notin LiveSet /\ LiveSet' = LiveSet \cup {f} =>
                 IsFiniteSet(LiveSet') /\ Cardinality(LiveSet') = Cardinality(LiveSet) + 1
           /\ f \in LiveSet /\ LiveSet' = LiveSet \ {f} =>
                 IsFiniteSet(LiveSet') /\ Cardinality(LiveSet') = Cardinality(LiveSet) - 1
  BY FS_CardinalityType, FS_AddElement, FS_RemoveElement DEF Timers

\* Each step keeps the bound on timers and callbacks (lines 87-113).
LEMMA TimersStep ==
    ASSUME IInv, IInv', Course, Timers, Next
    PROVE  Timers'
<1>0. /\ fpc \in [Flushers -> {"none", "wait", "range", "send"}]
      /\ timer \in BOOLEAN /\ sendingFlag \in BOOLEAN /\ timer' \in BOOLEAN
      /\ sendingFlag' \in BOOLEAN
  BY Zenon DEF IInv, TypeOK
<1>1. ASSUME NEW k \in Kinds, write(k), UNCHANGED <<fpc, mpc, ret>> PROVE Timers'
  <2>1. LiveSet' = LiveSet /\ Final' = Final /\ Cardinality(LiveSet) \in Nat
    BY <1>1, FS_CardinalityType, Zenon DEF LiveSet, Live, Final, Timers
  <2>2. timer' = (timer \/ ~sendingFlag) /\ sendingFlag' = TRUE
    BY <1>1, Zenon DEF write
  <2>3. CASE sendingFlag
    BY <2>1, <2>2, <2>3, Zenon DEF Timers, Bit
  <2>4. CASE ~sendingFlag
    BY <2>1, <2>2, <2>4 DEF Timers, Bit
  <2>. QED  BY <2>3, <2>4, Zenon
<1>2. ASSUME NEW f \in Flushers, FireTimer(f) PROVE Timers'
  <2>1. f \notin LiveSet /\ LiveSet' = LiveSet \cup {f}
    BY <1>0, <1>2, Zenon DEF LiveSet, Live, FireTimer
  <2>2. Final' = Final /\ sendingFlag' = sendingFlag /\ timer /\ ~timer'
    BY <1>2, Zenon DEF FireTimer, Final
  <2>3. /\ IsFiniteSet(LiveSet') /\ Cardinality(LiveSet') = Cardinality(LiveSet) + 1
        /\ Cardinality(LiveSet) \in Nat
    BY <2>1, LiveChange, Zenon
  <2>. QED  BY <2>2, <2>3 DEF Timers, Bit
<1>3. ASSUME NEW f \in Flushers, FlushLock(f) \/ FlushEnd(f), fpc'[f] = "none" PROVE Timers'
  <2>1. f \in LiveSet /\ LiveSet' = LiveSet \ {f}
    <3>1. fpc[f] # "none" /\ fpc' = [fpc EXCEPT ![f] = "none"]
      BY <1>0, <1>3, Zenon DEF FlushLock, FlushEnd
    <3>. QED  BY <1>0, <3>1, Zenon DEF LiveSet, Live
  <2>2. Final' = Final /\ ~sendingFlag' /\ timer' = timer
    BY <1>0, <1>3, Zenon DEF FlushLock, FlushEnd, Final
  <2>3. /\ IsFiniteSet(LiveSet') /\ Cardinality(LiveSet') = Cardinality(LiveSet) - 1
        /\ Cardinality(LiveSet) \in Nat
    BY <2>1, LiveChange, Zenon
  <2>. QED  BY <2>2, <2>3 DEF Timers, Bit
<1>4. ASSUME UnlockedFlush \/ UnlockedEnd PROVE Timers'
  <2>1. LiveSet' = LiveSet /\ timer' = timer /\ ~Final /\ Cardinality(LiveSet) \in Nat
    BY <1>4, FS_CardinalityType, Zenon DEF UnlockedFlush, UnlockedEnd, LiveSet, Live, Final, Timers
  <2>2. CASE sendingFlag' = sendingFlag
    BY <2>1, <2>2, TimersKept, Zenon
  <2>3. CASE sendingFlag' # sendingFlag
    <3>1. ~sendingFlag' /\ Final'
      BY <1>4, <2>3, Zenon DEF UnlockedFlush, UnlockedEnd, writeMid, Final
    <3>. QED  BY <2>1, <3>1 DEF Timers, Bit
  <2>. QED  BY <2>2, <2>3, Zenon
<1>5. ASSUME NEW f \in Flushers, FlushLock(f) \/ FlushTake(f) \/ FlushSend(f), fpc'[f] # "none"
      PROVE  Timers'
  <2>1. LiveSet' = LiveSet
    <3>1. fpc[f] # "none" /\ \A g \in Flushers : g # f => fpc'[g] = fpc[g]
      BY <1>0, <1>5, Zenon DEF FlushLock, FlushTake, FlushSend
    <3>. QED  BY <1>0, <1>5, <3>1, Zenon DEF LiveSet, Live
  <2>2. UNCHANGED <<timer, sendingFlag, mpc, ret>>
    BY <1>0, <1>5, Zenon DEF FlushLock, FlushTake, FlushSend
  <2>. QED  BY <2>1, <2>2, TimersKept, Zenon DEF Final
<1>6. ASSUME \/ Poll \/ Open \/ CopyEnd \/ MidLock \/ MidSend \/ UnlockedTake \/ UnlockedSend
             \/ Return \/ MinioLine \/ MinioSend \/ MinioEnd
      PROVE  Timers'
  <2>1. UNCHANGED <<fpc, timer, sendingFlag>>
    BY <1>6, Zenon DEF Poll, Open, CopyEnd, MidLock, MidSend, UnlockedTake, UnlockedSend,
                Return, MinioLine, MinioSend, MinioEnd
  <2>2. Final => Final'
    BY <1>6, Zenon DEF Poll, Open, CopyEnd, MidLock, MidSend, UnlockedTake, UnlockedSend,
                Return, MinioLine, MinioSend, MinioEnd, writeMid, Final
  <2>. QED  BY <2>1, <2>2, TimersKept, ZenonT(30) DEF LiveSet, Live
<1>7. ASSUME Writer \/ Reader \/ CloserFires \/ PeerLeaves \/ FatalError PROVE Timers'
  <2>1. UNCHANGED <<fpc, timer, sendingFlag, mpc, ret>>
    BY <1>7, Zenon DEF Writer, Reader, CloserFires, PeerLeaves, FatalError, WriterWrite,
       WriterClose,
                WriterExit, ReaderError, ReaderClose
  <2>. QED  BY <2>1, TimersKept, Zenon DEF LiveSet, Live, Final
<1>8. ASSUME WriteLog \/ \E k \in Stats : WriteStat(k) PROVE Timers'
  <2>1. PICK k \in Kinds : write(k) /\ UNCHANGED <<fpc, mpc, ret>>
    <3>1. CASE WriteLog
      BY <3>1, Zenon DEF WriteLog, Kinds
    <3>2. CASE \E k \in Stats : WriteStat(k)
      BY <3>2, Zenon DEF WriteStat, Kinds
    <3>. QED  BY <1>8, <3>1, <3>2, Zenon
  <2>. QED  BY <1>1, <2>1, Zenon
<1>9. ASSUME NEW f \in Flushers, Flush(f) PROVE Timers'
  <2>1. CASE FlushLock(f) \/ FlushTake(f) \/ FlushSend(f)
    <3>1. FlushTake(f) \/ FlushSend(f) => fpc'[f] # "none"
      BY <1>0, Zenon DEF FlushTake, FlushSend
    <3>. QED  BY <2>1, <3>1, <1>3, <1>5, Zenon
  <2>2. CASE FlushEnd(f)
    <3>1. fpc'[f] = "none"
      BY <1>0, <2>2, Zenon DEF FlushEnd
    <3>. QED  BY <2>2, <3>1, <1>3, ZenonT(30)
  <2>. QED  BY <1>9, <2>1, <2>2, <1>2, Zenon DEF Flush
<1>. QED  BY <1>4, <1>6, <1>7, <1>8, <1>9, Zenon DEF Next, Monitor

\* However the unlocked flush of line 249 of DockerLog.go meets the timers of
\* write, no more than two of timer and callbacks are ever under way.
THEOREM NeverThreeFlushes == Spec => []AtMostTwoFlushes
<1>1. Init => Timers
  <2>. SUFFICES ASSUME Init PROVE Timers
    BY Zenon
  <2>1. LiveSet = {}
    BY Zenon DEF Init, LiveSet, Live
  <2>. QED  BY <2>1, FS_EmptySet DEF Init, Timers, Bit
<1>2. IInv /\ IInv' /\ Course /\ Timers /\ [Next]_vars => Timers'
  <2>1. ASSUME Timers, UNCHANGED vars PROVE Timers'
    BY <2>1, TimersKept, Zenon DEF vars, LiveSet, Live, Final
  <2>. QED  BY <2>1, TimersStep, Zenon
<1>3. Timers => AtMostTwoFlushes
  <2>. SUFFICES ASSUME Timers PROVE AtMostTwoFlushes
    BY Zenon
  <2>1. Cardinality(LiveSet) \in Nat
    BY FS_CardinalityType, Zenon DEF Timers
  <2>2. Cardinality(LiveSet) + Bit(timer) <= 2
    BY <2>1 DEF Timers, Bit
  <2>. QED  BY <2>2, Zenon DEF AtMostTwoFlushes, LiveSet, Bit
<1>. QED  BY <1>1, <1>2, <1>3, Invariance, CourseInvariant, PTL DEF Spec

------------------------------------------------------------------------------
\* Where i occurs in s.
Places(s, i) == {j \in DOMAIN s : s[j] = i}

\* The occurrences of a value can be counted.
LEMMA PlacesFinite ==
    ASSUME NEW S, NEW s \in Seq(S), NEW x
    PROVE  IsFiniteSet(Places(s, x)) /\ Cardinality(Places(s, x)) \in Nat
           /\ (Cardinality(Places(s, x)) = 0 <=> x \notin Range(s))
<1>1. IsFiniteSet(1 .. Len(s)) /\ DOMAIN s = 1 .. Len(s)
  BY FS_Interval
<1>2. IsFiniteSet(Places(s, x))
  BY <1>1, FS_Subset, Zenon DEF Places
<1>3. Places(s, x) = {} <=> x \notin Range(s)
  BY Zenon DEF Places, Range
<1>. QED  BY <1>2, <1>3, FS_EmptySet, FS_CardinalityType, Zenon

\* A message in order adds each of its records once.
LEMMA PlacesConcat ==
    ASSUME NEW n \in Nat, NEW s \in Seq(1 .. n), NEW t \in Seq(1 .. n), Rising(t), NEW x
    PROVE  Cardinality(Places(s \o t, x)) = Cardinality(Places(s, x)) + Bit(x \in Range(t))
<1>0. /\ Len(s) \in Nat /\ Len(t) \in Nat /\ DOMAIN s = 1 .. Len(s) /\ DOMAIN t = 1 .. Len(t)
      /\ DOMAIN (s \o t) = 1 .. Len(s) + Len(t)
      /\ \A i \in 1 .. Len(s) : (s \o t)[i] = s[i]
      /\ \A i \in 1 .. Len(t) : (s \o t)[Len(s) + i] = t[i]
      /\ \A i \in 1 .. Len(s) + Len(t) :
                 i \in 1 .. Len(s) \/ \E j \in 1 .. Len(t) : i = Len(s) + j
  <2>1. /\ Len(s) \in Nat /\ Len(t) \in Nat /\ DOMAIN s = 1 .. Len(s) /\ DOMAIN t = 1 .. Len(t)
        /\ DOMAIN (s \o t) = 1 .. Len(s) + Len(t)
    OBVIOUS
  <2>2. \A i \in 1 .. Len(s) : (s \o t)[i] = s[i]
    OBVIOUS
  <2>3. \A i \in 1 .. Len(t) : (s \o t)[Len(s) + i] = t[i]
    OBVIOUS
  <2>4. \A i \in 1 .. Len(s) + Len(t) : i \in 1 .. Len(s) \/ \E j \in 1 .. Len(t) : i = Len(s) + j
    <3>1. SUFFICES ASSUME NEW i \in 1 .. Len(s) + Len(t), i \notin 1 .. Len(s)
                   PROVE  \E j \in 1 .. Len(t) : i = Len(s) + j
      BY Zenon
    <3>2. i - Len(s) \in 1 .. Len(t) /\ i = Len(s) + (i - Len(s))
      BY <2>1, <3>1
    <3>. QED  BY <3>2, Zenon
  <2>. QED  BY <2>1, <2>2, <2>3, <2>4, Zenon
<1>1. IsFiniteSet(Places(s, x)) /\ Cardinality(Places(s, x)) \in Nat
  BY PlacesFinite, Zenon
<1>s. \A j \in 1 .. Len(s) : j \in 1 .. Len(s) + Len(t)
  BY <1>0
<1>2. CASE x \notin Range(t)
  <2>1. \A j \in 1 .. Len(t) : t[j] # x
    BY <1>0, <1>2, Zenon DEF Range
  <2>2. Places(s \o t, x) = Places(s, x)
    <3>1. \A j \in 1 .. Len(s) + Len(t) : (s \o t)[j] = x => j \in 1 .. Len(s) /\ s[j] = x
      BY <1>0, <2>1
    <3>2. \A j \in 1 .. Len(s) : s[j] = x => (s \o t)[j] = x
      BY <1>0, Zenon
    <3>. QED  BY <1>0, <1>s, <3>1, <3>2, Zenon DEF Places
  <2>. QED  BY <1>1, <1>2, <2>2 DEF Bit
<1>3. CASE x \in Range(t)
  <2>1. PICK m \in 1 .. Len(t) : t[m] = x
    BY <1>0, <1>3, Zenon DEF Range
  <2>2. \A j \in 1 .. Len(t) : t[j] = x => j = m
    <3>1. SUFFICES ASSUME NEW j \in 1 .. Len(t), t[j] = x, j # m PROVE FALSE
      BY Zenon
    <3>2. j < m \/ m < j
      BY <1>0, <3>1
    <3>3. t[j] < t[m] \/ t[m] < t[j]
      BY <1>0, <3>2, Zenon DEF Rising
    <3>4. t[j] = x /\ t[m] = x /\ t[m] \in 1 .. n
      BY <1>0, <2>1, <3>1
    <3>. QED  BY <3>3, <3>4
  <2>3. Len(s) + m \in 1 .. Len(s) + Len(t) /\ Len(s) + m \notin Places(s, x)
    BY <1>0 DEF Places
  <2>4. Places(s \o t, x) = Places(s, x) \cup {Len(s) + m}
    <3>1. \A j \in 1 .. Len(s) + Len(t) :
             (s \o t)[j] = x => (j \in 1 .. Len(s) /\ s[j] = x) \/ j = Len(s) + m
      <4>1. SUFFICES ASSUME NEW j \in 1 .. Len(s) + Len(t), (s \o t)[j] = x, j \notin 1 .. Len(s)
                     PROVE  j = Len(s) + m
        BY <1>0, Zenon
      <4>2. PICK h \in 1 .. Len(t) : j = Len(s) + h
        BY <1>0, <4>1, Zenon
      <4>3. t[h] = x
        BY <1>0, <4>1, <4>2, Zenon
      <4>. QED  BY <2>2, <4>2, <4>3, Zenon
    <3>2. (\A j \in 1 .. Len(s) : s[j] = x => (s \o t)[j] = x) /\ (s \o t)[Len(s) + m] = x
      BY <1>0, <2>1, Zenon
    <3>. QED  BY <1>0, <1>s, <2>3, <3>1, <3>2, ZenonT(30) DEF Places
  <2>5. Cardinality(Places(s, x) \cup {Len(s) + m}) = Cardinality(Places(s, x)) + 1
    BY <1>1, <2>3, FS_AddElement, Zenon
  <2>. QED  BY <1>3, <2>4, <2>5, Zenon DEF Bit
<1>. QED  BY <1>2, <1>3, Zenon

\* How often the peer has seen a record, before and after a step.
LEMMA CountStep ==
    ASSUME IInv, View, NEW k \in Kinds, Sorted(k), NEW i
    PROVE  /\ Times(k, i) \in Nat /\ (Times(k, i) = 0 <=> i \notin Written(k))
           /\ \/ Times(k, i)' = Times(k, i)
              \/ KindShow(k) /\ Times(k, i)' = Times(k, i) + Bit(i \in OnWay(k))
<1>1. Times(k, i) = Cardinality(Places(wire[k], i)) /\ Times(k, i)' = Cardinality(Places(wire'[k], i))
  BY Zenon DEF Times, Places
<1>2. wire[k] \in Seq(1 .. MaxItems) /\ MaxItems \in Nat
  BY MessagesTyped, Zenon
<1>3. Times(k, i) \in Nat /\ (Times(k, i) = 0 <=> i \notin Written(k))
  BY <1>1, <1>2, PlacesFinite, Zenon DEF Written
<1>4. CASE wire'[k] = wire[k]
  BY <1>1, <1>3, <1>4, Zenon
<1>5. CASE /\ AtWriter.kind = k /\ wire'[k] = wire[k] \o AtWriter.items
           /\ AtWriter.items \in Seq(1 .. MaxItems) /\ KindShow(k)
  <2>1. Times(k, i)' = Times(k, i) + Bit(i \in Range(AtWriter.items))
    BY <1>1, <1>2, <1>5, PlacesConcat DEF Sorted
  <2>. QED  BY <1>3, <1>5, <2>1, Zenon DEF OnWay, Of
<1>. QED  BY <1>4, <1>5, WireStep, Zenon

\* The copies of record i that the peer has or will be sent by the monitor.
Copies(k, i) == Times(k, i) + Bit(i \in OnWay(k)) + Bit(i \in Held("monitor", k))

\* How often the peer may see a record.
Cap == IF Early THEN 1 ELSE 2

Repeats(k, i) ==
    /\ Copies(k, i) <= Cap
    /\ \A f \in Flushers : Copies(k, i) + Bit(i \in Held(f, k)) <= Cap

\* Only the holder of the mutex sends, besides the unlocked flush.
LEMMA OneHolds ==
    ASSUME IInv, NEW k \in Kinds, NEW f \in Flushers, NEW g \in Flushers, f # g, Hand(f).kind = k
    PROVE  Held(g, k) = {}
<1>1. fpc[f] = "send"
  BY NoRecords, Zenon DEF Hand
<1>2. fpc[g] # "send"
  BY <1>1, Zenon DEF IInv, Core, Locking
<1>3. Hand(g) = NoMsg
  BY <1>2, Zenon DEF Hand
<1>. QED  BY <1>3, NoneOf, Zenon DEF Held

\* The monitor sends from the cache only after the log has ended.
LEMMA HoldsLate ==
    ASSUME NEW k \in Kinds
    PROVE  /\ Held("monitor", k) # {} => ~Early
           /\ Held("monitor", k)' # {} => ~Early'
<1>1. Held("monitor", k) # {} => mpc \in {"send", "direct"}
  BY NoneOf, Zenon DEF Held, Hand
<1>2. Held("monitor", k)' # {} => mpc' \in {"send", "direct"}
  BY NoneOf, Zenon DEF Held, Hand
<1>. QED  BY <1>1, <1>2, Zenon DEF Early, Before

\* Each step keeps the copies of a record within the bound.
LEMMA RepeatStep ==
    ASSUME IInv, View, NEW k \in Kinds, NEW i \in 1 .. MaxItems, KindStep(k), Sorted(k), Bounded(k), OrderOf(k),
           Early' => Early, Repeats(k, i)
    PROVE  Repeats(k, i)'
<1> DEFINE T == Times(k, i)
           W == Bit(i \in OnWay(k))
           M == Bit(i \in Held("monitor", k))
           F(f) == Bit(i \in Held(f, k))
<1>0. /\ T \in Nat /\ W \in {0, 1} /\ M \in {0, 1} /\ W' \in {0, 1} /\ M' \in {0, 1}
      /\ (T = 0 <=> i \notin Written(k)) /\ (T' = T \/ (KindShow(k) /\ T' = T + W))
      /\ \A f \in Flushers : F(f) \in {0, 1} /\ F(f)' \in {0, 1}
  BY CountStep, Zenon DEF Bit
<1>1. Cap \in {1, 2} /\ Cap' \in {1, 2} /\ Cap <= Cap'
  BY DEF Cap
<1>2. T + W + M <= Cap /\ \A f \in Flushers : T + W + M + F(f) <= Cap
  BY Zenon DEF Repeats, Copies
<1>3. SUFFICES T' + W' + M' <= Cap' /\ \A f \in Flushers : T' + W' + M' + F(f)' <= Cap'
  BY Zenon DEF Repeats, Copies
<1>4. (M = 1 => Cap = 2) /\ (M' = 1 => Cap' = 2)
  BY HoldsLate, Zenon DEF Cap, Bit
<1>m. "monitor" \in Senders /\ Flushers \subseteq Senders /\ "monitor" \notin Flushers
  BY Zenon DEF Senders
<1>t. W' = W => T' = T
  <2>1. KindShow(k) => W' = 0
    BY Zenon DEF KindShow, Bit
  <2>. QED  BY <1>0, <2>1
<1>5. CASE KindIdle(k)
  <2>1. W' = W /\ M' = M /\ \A f \in Flushers : F(f)' = F(f)
    BY <1>5, <1>m, ZenonT(30) DEF KindIdle
  <2>. QED  BY <1>0, <1>1, <1>2, <1>t, <2>1, SMTT(30)
<1>6. CASE KindShow(k)
  <2>1. W' = 0 /\ M' = M /\ \A f \in Flushers : F(f)' = F(f)
    BY <1>6, <1>m, Zenon DEF KindShow, Bit
  <2>2. T' = T \/ T' = T + W
    BY <1>0, Zenon
  <2>. QED  BY <1>0, <1>1, <1>2, <2>1, <2>2
<1>7. ASSUME NEW p \in Senders, KindTake(p, k)
      PROVE  T' + W' + M' <= Cap' /\ \A f \in Flushers : T' + W' + M' + F(f)' <= Cap'
  <2>1. W' = W /\ \A q \in Senders \ {p} : Held(q, k)' = Held(q, k)
    BY <1>7, Zenon DEF KindTake
  <2>2. T' = T
    BY <1>t, <2>1, Zenon
  <2>3. i \in InCache(k) => T = 0 /\ W = 0
    <3>1. i \in InCache(k) => i \notin Seen(k)
      <4>1. \A x \in Seen(k), y \in InCache(k) : x < y
        BY Zenon DEF OrderOf
      <4>. QED  BY <4>1
    <3>. QED  BY <1>0, <3>1, Zenon DEF Seen, Bit
  <2>4. CASE p = "monitor"
    <3>1. \A f \in Flushers : F(f)' = F(f)
      BY <1>m, <2>1, <2>4, ZenonT(30)
    <3>2. i \notin InCache(k) => M' = 0
      BY <1>7, <2>4, ZenonT(30) DEF KindTake, Bit
    <3>3. CASE i \in InCache(k)
      <4>1. M' = 1
        BY <1>7, <2>4, <3>3, ZenonT(30) DEF KindTake, Bit
      <4>. QED  BY <1>0, <1>1, <1>4, <2>1, <2>2, <2>3, <3>1, <3>3, <4>1, SMTT(30)
    <3>4. CASE i \notin InCache(k)
      BY <1>0, <1>1, <1>2, <2>1, <2>2, <3>1, <3>2, <3>4, SMTT(30)
    <3>. QED  BY <3>3, <3>4, Zenon
  <2>5. CASE p \in Flushers
    <3>1. M' = M
      BY <1>m, <2>1, <2>5, Zenon
    <3>2. \A f \in Flushers : f # p => F(f)' = 0
      BY <1>7, <1>m, <2>1, <2>5, Zenon DEF KindTake, Bit
    <3>3. F(p)' = Bit(i \in InCache(k))
      BY <1>7, Zenon DEF KindTake
    <3>4. F(p)' = 1 => T = 0 /\ W = 0
      BY <2>3, <3>3 DEF Bit
    <3>5. T' + W' + M' <= Cap'
      BY <1>0, <1>1, <1>2, <2>1, <2>2, <3>1, SMTT(30)
    <3>6. T' + W' + M' + F(p)' <= Cap'
      BY <1>0, <1>1, <1>4, <2>1, <2>2, <2>5, <3>1, <3>4, <3>5, SMTT(30)
    <3>7. \A f \in Flushers : f # p => T' + W' + M' + F(f)' <= Cap'
      BY <1>0, <1>1, <2>1, <2>2, <3>2, <3>5, SMTT(30)
    <3>. QED  BY <3>5, <3>6, <3>7, Zenon
  <2>. QED  BY <2>4, <2>5, Zenon DEF Senders
<1>8. ASSUME NEW p \in Senders, KindSend(p, k)
      PROVE  T' + W' + M' <= Cap' /\ \A f \in Flushers : T' + W' + M' + F(f)' <= Cap'
  <2>1. W = 0 /\ \A q \in Senders \ {p} : Held(q, k)' = Held(q, k)
    BY <1>8, Zenon DEF KindSend, Bit
  <2>2. T' = T
    BY <1>0, <1>8, <2>1
  <2>3. W' = Bit(i \in Held(p, k)) /\ Bit(i \in Held(p, k))' = 0
    BY <1>8, Zenon DEF KindSend, Bit
  <2>4. CASE p = "monitor"
    <3>1. W' = M /\ M' = 0 /\ \A f \in Flushers : F(f)' = F(f)
      BY <1>m, <2>1, <2>3, <2>4, ZenonT(30)
    <3>. QED  BY <1>0, <1>1, <1>2, <2>1, <2>2, <3>1, SMTT(30)
  <2>5. CASE p \in Flushers
    <3>1. M' = M /\ W' = F(p) /\ F(p)' = 0
      BY <1>m, <2>1, <2>3, <2>5, ZenonT(30)
    <3>2. \A f \in Flushers : f # p => F(f)' = 0
      <4>1. \A f \in Flushers : f # p => Held(f, k) = {}
        BY <1>8, <2>5, OneHolds, ZenonT(30) DEF KindSend
      <4>. QED  BY <1>m, <2>1, <2>5, <4>1, ZenonT(30) DEF Bit
    <3>. QED  BY <1>0, <1>1, <1>2, <2>1, <2>2, <2>5, <3>1, <3>2, SMTT(30)
  <2>. QED  BY <2>4, <2>5, Zenon DEF Senders
<1>9. CASE KindWrite(k)
  <2>1. W' = W /\ M' = M /\ \A f \in Flushers : F(f)' = F(f)
    BY <1>9, <1>m, Zenon DEF KindWrite
  <2>2. T' = T
    BY <1>t, <2>1, Zenon
  <2>. QED  BY <1>0, <1>1, <1>2, <2>1, <2>2
<1>10. CASE KindLine(k)
  <2>1. W' = W /\ M' = Bit(i = made[k] + 1) /\ \A f \in Flushers : F(f)' = 0
    BY <1>10, Zenon DEF KindLine, Bit
  <2>2. T' = T
    BY <1>t, <2>1, Zenon
  <2>3. i = made[k] + 1 => T = 0 /\ W = 0
    <3>1. made[k] \in Nat
      BY MessagesTyped
    <3>2. made[k] + 1 \notin Written(k) \cup OnWay(k)
      BY <3>1 DEF Bounded
    <3>. QED  BY <1>0, <3>2, Zenon DEF Bit
  <2>4. CASE i = made[k] + 1
    BY <1>0, <1>1, <2>1, <2>2, <2>3, <2>4, SMTT(30)
  <2>5. CASE i # made[k] + 1
    <3>1. M' = 0
      BY <2>1, <2>5, Zenon DEF Bit
    <3>. QED  BY <1>0, <1>1, <1>2, <2>1, <2>2, <3>1, SMTT(30)
  <2>. QED  BY <2>4, <2>5, Zenon
<1>. QED  BY <1>5, <1>6, <1>7, <1>8, <1>9, <1>10, ZenonT(30) DEF KindStep

\* How often the peer has seen each record: as long as no write has failed the
\* copies still to come are counted too.
Counted ==
    \A k \in Kinds, i \in 1 .. MaxItems :
        Times(k, i) <= Cap /\ (~broken => Repeats(k, i))

\* Each step keeps the count.
LEMMA CountedStep ==
    ASSUME IInv, Course, Ordered, Counted, [Next]_vars
    PROVE  Counted'
<1>1. View /\ (Early' => Early)
  BY StepView, EarlyStays, Zenon
<1>2. ASSUME ~broken', NEW k \in Kinds, NEW i \in 1 .. MaxItems PROVE Repeats(k, i)'
  <2>1. KindStep(k) /\ ~broken
    BY <1>1, <1>2, KindSteps, Zenon
  <2>2. Bounded(k) /\ OrderOf(k) /\ Sorted(k) /\ Repeats(k, i)
    BY <2>1, Zenon DEF Ordered, RecordsOf, Counted
  <2>. QED  BY <1>1, <2>1, <2>2, RepeatStep, Zenon
<1>4. ASSUME NEW k \in Kinds, NEW i \in 1 .. MaxItems PROVE Times(k, i)' <= Cap'
  <2>1. Times(k, i) <= Cap /\ Cap \in {1, 2} /\ Cap' \in {1, 2} /\ Cap <= Cap'
    BY <1>1 DEF Counted, Cap
  <2>2. CASE wire'[k] = wire[k]
    <3>1. Times(k, i)' = Times(k, i) /\ Times(k, i) \in Nat
      <4>1. wire[k] \in Seq(1 .. MaxItems)
        BY MessagesTyped, ZenonT(30)
      <4>2. Times(k, i) = Cardinality(Places(wire[k], i))
        BY Zenon DEF Times, Places
      <4>3. Times(k, i)' = Cardinality(Places(wire'[k], i))
        BY Zenon DEF Times, Places
      <4>. QED  BY <2>2, <4>1, <4>2, <4>3, PlacesFinite, ZenonT(30)
    <3>. QED  BY <2>1, <3>1
  <2>3. CASE ~broken
    <3>1. Sorted(k) /\ Repeats(k, i)
      BY <2>3, Zenon DEF Ordered, RecordsOf, Counted
    <3>2. Times(k, i) \in Nat /\ Times(k, i)' \in {Times(k, i), Times(k, i) + Bit(i \in OnWay(k))}
      BY <1>1, <3>1, CountStep, ZenonT(30)
    <3>3. Times(k, i) + Bit(i \in OnWay(k)) <= Cap
      BY <2>1, <3>1, <3>2 DEF Repeats, Copies, Bit
    <3>4. Bit(i \in OnWay(k)) \in {0, 1}
      BY Zenon DEF Bit
    <3>. QED  BY <2>1, <3>2, <3>3, <3>4, SMTT(30)
  <2>. QED  BY <1>1, <2>2, <2>3, WireStep, ZenonT(30)
<1>. QED  BY <1>2, <1>4, Zenon DEF Counted

\* A fresh connection has shown nothing.
LEMMA CountedInit == Init => Counted
<1>. SUFFICES ASSUME Init, NEW k \in Kinds, NEW i \in 1 .. MaxItems
              PROVE  Times(k, i) <= Cap /\ Repeats(k, i)
  BY Zenon DEF Counted
<1>1. wire[k] = <<>> /\ AtWriter = NoMsg /\ \A p \in Senders : Hand(p) = NoMsg
  BY Zenon DEF Init, AtWriter, Hand
<1>2. OnWay(k) = {} /\ \A p \in Senders : Held(p, k) = {}
  BY <1>1, NoneOf, Zenon DEF OnWay, Held
<1>3. Range(<<>>) = {} /\ <<>> \in Seq(1 .. MaxItems)
  BY DEF Range
<1>4. Times(k, i) = Cardinality(Places(<<>>, i))
  BY <1>1, Zenon DEF Times, Places
<1>5. Times(k, i) = 0 /\ Cap \in {1, 2}
  BY <1>3, <1>4, PlacesFinite, Zenon DEF Cap
<1>6. Bit(i \in OnWay(k)) = 0 /\ \A p \in Senders : Bit(i \in Held(p, k)) = 0
  BY <1>2, Zenon DEF Bit
<1>7. "monitor" \in Senders /\ Flushers \subseteq Senders
  BY Zenon DEF Senders
<1>. QED  BY <1>5, <1>6, <1>7 DEF Repeats, Copies

\* The peer sees the records of each kind in their order, each once while the log
\* is followed and at most twice after it, although timer callbacks and the unlocked
\* flush of line 249 of DockerLog.go send the same cache (lines 99-114).
THEOREM PeerSeesOrder == Spec => []RecordsInOrder
<1>1. IInv /\ Course /\ Ordered /\ Counted /\ [Next]_vars => Counted'
  BY CountedStep, Zenon
<1>2. IInv /\ Ordered /\ Counted => RecordsInOrder
  <2>. SUFFICES ASSUME IInv, Ordered, Counted PROVE RecordsInOrder
    BY Zenon
  <2>1. FreshInOrder
    BY Zenon DEF Ordered, FreshInOrder, Fresh
  <2>2. AtMostTwice
    <3>1. ASSUME NEW k \in Kinds, NEW i \in 1 .. MaxItems
          PROVE  Times(k, i) <= IF mpc \in {"poll", "open", "copy"} THEN 1 ELSE 2
      <4>1. Times(k, i) \in Nat
        <5>1. wire[k] \in Seq(1 .. MaxItems) /\ Times(k, i) = Cardinality(Places(wire[k], i))
          BY MessagesTyped, Zenon DEF Times, Places
        <5>. QED  BY <5>1, PlacesFinite, Zenon
      <4>2. Times(k, i) <= Cap /\ Cap \in {1, 2}
        BY Zenon DEF Counted, Cap
      <4>3. mpc \in {"poll", "open", "copy"} => Cap = 1
        BY Zenon DEF Cap, Early, Before
      <4>. QED  BY <4>1, <4>2, <4>3
    <3>. QED  BY <3>1, Zenon DEF AtMostTwice
  <2>. QED  BY <2>1, <2>2, Zenon DEF RecordsInOrder
<1>. QED  BY <1>1, <1>2, CountedInit, OrderInvariant, Invariance, CourseInvariant, PTL DEF Spec
==============================================================================
