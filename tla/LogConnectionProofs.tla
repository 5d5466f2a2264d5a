------------------------- MODULE LogConnectionProofs -------------------------
(***************************************************************************)
(* Proofs about LogConnection, for every number of callbacks, records and    *)
(* polls.  A callback that loops over the cache holds the mutex, and the      *)
(* keys it has yet to produce include every cached key: no write can add one  *)
(* behind its back, and the unlocked flush only takes keys away.  A callback   *)
(* therefore ends with an empty cache, and sendingFlag is set only while a     *)
(* timer or a callback is left to clear it.                                  *)
(***************************************************************************)
EXTENDS LogConnection, TLAPS

\* The mutex is held by the goroutine that loops or sends under it, and then the
\* connection is open.
Locking ==
    /\ \A f \in Flushers : fpc[f] \in {"range", "send"} <=> lock = f
    /\ mpc = "midsend" <=> lock = "monitor"
    /\ lock # "free" => ~closed

\* A goroutine that sends from a loop over the cache has one of its kinds in hand.
InHand ==
    /\ \A f \in Flushers : fpc[f] = "send" => msg[f].kind \in Kinds
    /\ mpc = "send" => msg["monitor"].kind \in Kinds

\* A loop under the mutex still has every cached kind before it.
Looping ==
    \A f \in Flushers :
        /\ fpc[f] = "range" => Cached \subseteq todo[f]
        /\ fpc[f] = "send" => Cached \subseteq todo[f] \cup {msg[f].kind}

Pending == timer \/ \E f \in Flushers : Live(f)

FlagPending == sendingFlag => Pending

Core == Locking /\ InHand /\ Looping /\ FlagPending /\ NoStrandedRecords

IInv == TypeOK /\ Core

USE ConstantsAssumption DEF ConstantsAssumption

\* The constructors of messages yield messages.
LEMMA MessageType ==
    ASSUME TypeOK
    PROVE  /\ NoMsg \in Messages /\ StatMsg \in Messages /\ EndMsg \in Messages
           /\ \A k \in Kinds : Batch(k) \in Messages
BY DEF TypeOK, NoMsg, StatMsg, EndMsg, Batch, Messages, Kinds

\* A fresh connection (RegistryConnect, lines 37-58) satisfies the invariant.
LEMMA InitIInv == Init => IInv
<1> SUFFICES ASSUME Init PROVE IInv
    BY Zenon
<1>1. TypeOK
  <2>1. NoMsg \in Messages
    BY DEF NoMsg, Messages
  <2>2. /\ msgCache \in [Kinds -> Seq(1 .. MaxItems)]
        /\ wire \in [Kinds -> Seq(1 .. MaxItems)]
    BY DEF Init
  <2>3. /\ msg \in [Senders -> Messages] /\ wmsg \in Messages
        /\ todo \in [Senders -> SUBSET Kinds]
    BY <2>1, Zenon DEF Init
  <2>4. /\ made \in [Kinds -> 0 .. MaxItems] /\ polls \in 0 .. MaxPolls
        /\ fpc \in [Flushers -> {"none", "wait", "range", "send"}]
    BY DEF Init
  <2>5. /\ closed \in BOOLEAN /\ dead \in BOOLEAN /\ gone \in BOOLEAN
        /\ broken \in BOOLEAN /\ sendingFlag \in BOOLEAN /\ timer \in BOOLEAN
        /\ streaming \in BOOLEAN /\ podSeen \in BOOLEAN /\ ended \in BOOLEAN
    BY Zenon DEF Init
  <2> QED
    BY <2>2, <2>3, <2>4, <2>5, Zenon DEF Init, TypeOK
<1>2. Core
    BY Zenon DEF Init, Core, Locking, InHand, Looping, FlagPending, NoStrandedRecords,
           Pending, Live, Cached, Kinds
<1> QED
    BY <1>1, <1>2, Zenon DEF IInv

\* A step that leaves the mutex, the cache and the callbacks alone.
LEMMA Quiet ==
    ASSUME IInv,
           UNCHANGED <<lock, closed, msgCache, sendingFlag, timer, fpc, todo>>,
           \A f \in Flushers : msg'[f] = msg[f],
           mpc' = "midsend" <=> mpc = "midsend",
           mpc' = "send" => mpc = "send" /\ msg'["monitor"] = msg["monitor"]
    PROVE  Core'
<1>1. Locking'
    BY Zenon DEF IInv, Core, Locking
<1>2. InHand' /\ Looping'
    BY Zenon DEF IInv, Core, InHand, Looping, Cached
<1>3. FlagPending' /\ NoStrandedRecords'
    BY Zenon DEF IInv, Core, FlagPending, NoStrandedRecords, Pending, Live, Cached
<1> QED
    BY <1>1, <1>2, <1>3, Zenon DEF Core

\* write (lines 74-97) needs the mutex, so no loop under the mutex runs, and it
\* leaves a timer or a callback pending.
LEMMA WriteIInv ==
    ASSUME IInv, (\E k \in Stats : WriteStat(k)) \/ WriteLog
    PROVE  IInv'
<1>1. PICK k \in Kinds : write(k)
    BY Zenon DEF WriteStat, WriteLog, Kinds
<1>2. UNCHANGED <<lock, closed, dead, fpc, todo, msg, wpc, wmsg, monVars,
                  wireVars, peerVars>>
    BY Zenon DEF WriteStat, WriteLog
<1> USE DEF monVars, wireVars, peerVars
<1>3. TypeOK'
  <2>1. msgCache' \in [Kinds -> Seq(1 .. MaxItems)]
    <3>1. made[k] + 1 \in 1 .. MaxItems /\ msgCache[k] \in Seq(1 .. MaxItems)
        BY <1>1 DEF IInv, TypeOK, write
    <3>2. Append(msgCache[k], made[k] + 1) \in Seq(1 .. MaxItems)
        BY <3>1
    <3> QED
        BY <1>1, <3>2, Zenon DEF IInv, TypeOK, write
  <2>2. made' \in [Kinds -> 0 .. MaxItems]
    BY <1>1 DEF IInv, TypeOK, write
  <2>3. sendingFlag' \in BOOLEAN /\ timer' \in BOOLEAN
    BY <1>1, Zenon DEF IInv, TypeOK, write
  <2> QED
    BY <1>2, <2>1, <2>2, <2>3 DEF IInv, TypeOK
<1>4. Locking' /\ InHand'
    BY <1>2, Zenon DEF IInv, Core, Locking, InHand
<1>5. Looping'
    BY <1>1, <1>2, Zenon DEF IInv, Core, Locking, Looping, write
<1>6. Pending'
    BY <1>1, <1>2, Zenon DEF IInv, Core, FlagPending, Pending, Live, write
<1> QED
    BY <1>3, <1>4, <1>5, <1>6, Zenon
    DEF IInv, Core, FlagPending, NoStrandedRecords, Pending

\* What the actions leave unchanged is written with these tuples.
USE DEF cacheVars, monVars, wireVars, peerVars

\* The timer turns into a callback: something stays pending.
LEMMA FireIInv ==
    ASSUME IInv, NEW f \in Flushers, FireTimer(f)
    PROVE  IInv'
<1>1. TypeOK'
  <2>1. timer' \in BOOLEAN /\ fpc' \in [Flushers -> {"none", "wait", "range", "send"}]
    BY Zenon DEF IInv, TypeOK, FireTimer
  <2> QED
    BY <2>1 DEF IInv, TypeOK, FireTimer
<1>2. Locking' /\ InHand' /\ Looping'
    BY DEF IInv, TypeOK, Core, Locking, InHand, Looping, Cached, FireTimer
<1>3. Pending'
    BY Zenon DEF IInv, TypeOK, Pending, Live, FireTimer
<1> QED
    BY <1>1, <1>2, <1>3, Zenon DEF IInv, Core, FlagPending, NoStrandedRecords, Pending

\* flush takes the mutex, or gives up on a closed connection (lines 99-105).
LEMMA FlushLockIInv ==
    ASSUME IInv, NEW f \in Flushers, FlushLock(f)
    PROVE  IInv'
<1>1. TypeOK'
  <2>1. todo' \in [Senders -> SUBSET Kinds]
    <3>1. Cached \in SUBSET Kinds
        BY Zenon DEF Cached
    <3>2. todo' = todo \/ todo' = [todo EXCEPT ![f] = Cached]
        BY Zenon DEF FlushLock
    <3> QED
        BY <3>1, <3>2 DEF IInv, TypeOK
  <2>0. lock' \in Senders \cup {"free"}
    BY Zenon DEF IInv, TypeOK, FlushLock, Senders
  <2>2. /\ fpc' \in [Flushers -> {"none", "wait", "range", "send"}]
        /\ sendingFlag' \in BOOLEAN
    BY Zenon DEF IInv, TypeOK, FlushLock
  <2> QED
    BY <2>0, <2>1, <2>2 DEF IInv, TypeOK, FlushLock
<1>2. Locking'
    BY DEF IInv, TypeOK, Core, Locking, FlushLock
<1>3. InHand'
    BY Zenon DEF IInv, TypeOK, Core, InHand, FlushLock
<1>5. Looping'
  <2>1. Cached' = Cached
    BY Zenon DEF Cached, FlushLock
  <2>2. \A g \in Flushers : g # f => fpc'[g] = fpc[g] /\ fpc[g] \notin {"range", "send"}
    BY DEF IInv, TypeOK, Core, Locking, FlushLock
  <2>3. fpc'[f] = "none" \/ (fpc'[f] = "range" /\ todo'[f] = Cached)
    <3>1. CASE closed
        BY <3>1, Zenon DEF IInv, TypeOK, FlushLock
    <3>2. CASE ~closed
      <4>1. fpc' = [fpc EXCEPT ![f] = "range"] /\ todo' = [todo EXCEPT ![f] = Cached]
            BY <3>2, Zenon DEF FlushLock
      <4> QED
            BY <4>1, Zenon DEF IInv, TypeOK, Senders
    <3> QED
        BY <3>1, <3>2, Zenon
  <2> QED
    BY <2>1, <2>2, <2>3, Zenon DEF Looping
<1>4. FlagPending' /\ NoStrandedRecords'
    BY Zenon DEF IInv, TypeOK, Core, FlagPending, NoStrandedRecords, Pending, Live, Cached,
           FlushLock
<1> QED
    BY <1>1, <1>2, <1>3, <1>4, <1>5, Zenon DEF IInv, Core

\* The loop of flush takes an entry in hand (line 106).
LEMMA FlushTakeIInv ==
    ASSUME IInv, NEW f \in Flushers, FlushTake(f)
    PROVE  IInv'
<1>1. PICK k \in Kinds : Take(f, k)
    BY Zenon DEF FlushTake
<1>2. msg' = [msg EXCEPT ![f] = Batch(k)] /\ todo' = [todo EXCEPT ![f] = @ \ {k}]
    BY <1>1, Zenon DEF Take
<1>3. TypeOK'
  <2>1. msg' \in [Senders -> Messages] /\ todo' \in [Senders -> SUBSET Kinds]
    BY <1>2, MessageType, Zenon DEF IInv, TypeOK
  <2> QED
    BY <2>1 DEF IInv, TypeOK, FlushTake
<1>4. Locking'
    BY Zenon DEF IInv, TypeOK, Core, Locking, FlushTake
<1>5. msg'[f].kind = k /\ todo'[f] = todo[f] \ {k} /\ msg'["monitor"] = msg["monitor"]
    BY <1>2, Zenon DEF IInv, TypeOK, Senders, Batch
<1>6. \A g \in Flushers : g # f => msg'[g] = msg[g] /\ todo'[g] = todo[g] /\ fpc'[g] = fpc[g]
    BY <1>2 DEF IInv, TypeOK, FlushTake
<1>7. InHand' /\ Looping'
    BY <1>5, <1>6, ZenonT(30) DEF IInv, TypeOK, Core, InHand, Looping, Cached, FlushTake
<1>8. FlagPending' /\ NoStrandedRecords'
    BY Zenon DEF IInv, TypeOK, Core, FlagPending, NoStrandedRecords, Pending, Live, Cached,
           FlushTake
<1> QED
    BY <1>3, <1>4, <1>7, <1>8, Zenon DEF IInv, Core

\* flush ends with an empty cache (line 112).
LEMMA FlushEndIInv ==
    ASSUME IInv, NEW f \in Flushers, FlushEnd(f)
    PROVE  IInv'
<1>1. TypeOK'
  <2>1. /\ fpc' \in [Flushers -> {"none", "wait", "range", "send"}]
        /\ sendingFlag' \in BOOLEAN /\ lock' \in Senders \cup {"free"}
    BY Zenon DEF IInv, TypeOK, FlushEnd
  <2> QED
    BY <2>1 DEF IInv, TypeOK, FlushEnd
<1>2. Locking' /\ InHand' /\ Looping'
    BY DEF IInv, TypeOK, Core, Locking, InHand, Looping, Cached, FlushEnd
<1>3. Cached = {}
    BY Zenon DEF IInv, Core, Looping, Exhausted, FlushEnd
<1>4. FlagPending' /\ NoStrandedRecords'
    BY <1>3, Zenon DEF FlagPending, NoStrandedRecords, Cached, FlushEnd
<1> QED
    BY <1>1, <1>2, <1>4, Zenon DEF IInv, Core

\* What a handover and a deletion do to the cache and the messages.
LEMMA HandoverType ==
    ASSUME TypeOK, NEW p \in Senders, Handover(p)
    PROVE  /\ wpc' = "write" /\ wmsg' \in Messages
           /\ msg' \in [Senders -> Messages]
           /\ \A q \in Senders : q # p => msg'[q] = msg[q]
BY MessageType, Zenon DEF TypeOK, Handover

\* Line 108 removes one kind from the cache and from every loop.
LEMMA DeleteKind ==
    ASSUME TypeOK, NEW k \in Kinds, Delete(k)
    PROVE  /\ msgCache' \in [Kinds -> Seq(1 .. MaxItems)]
           /\ todo' \in [Senders -> SUBSET Kinds]
           /\ Cached' = Cached \ {k}
           /\ \A p \in Senders : todo'[p] = todo[p] \ {k}
BY DEF TypeOK, Delete, Cached

\* The loop of flush hands its entry over and deletes it (lines 107-108).
LEMMA FlushSendIInv ==
    ASSUME IInv, NEW f \in Flushers, FlushSend(f)
    PROVE  IInv'
<1> DEFINE k == msg[f].kind
<1>1. k \in Kinds /\ Handover(f) /\ Delete(k) /\ f \in Senders /\ "monitor" \in Senders
    BY Zenon DEF IInv, Core, InHand, FlushSend, Senders
<1>2. TypeOK'
    BY <1>1, HandoverType, DeleteKind DEF IInv, TypeOK, FlushSend
<1>3. Locking'
    BY Zenon DEF IInv, TypeOK, Core, Locking, FlushSend
<1>4. InHand' /\ Looping'
    BY <1>1, HandoverType, DeleteKind
    DEF IInv, TypeOK, Core, Locking, InHand, Looping, Senders, FlushSend
<1>5. FlagPending' /\ NoStrandedRecords'
    BY Zenon DEF IInv, TypeOK, Core, FlagPending, NoStrandedRecords, Pending, Live, FlushSend
<1> QED
    BY <1>2, <1>3, <1>4, <1>5, Zenon DEF IInv, Core

\* A message that the monitor is about to send replaces no other sender's.
LEMMA MonitorMessage ==
    ASSUME TypeOK, NEW m \in Messages, msg' = [msg EXCEPT !["monitor"] = m]
    PROVE  /\ msg' \in [Senders -> Messages]
           /\ \A f \in Flushers : msg'[f] = msg[f]
BY Zenon DEF TypeOK, Senders

\* The steps of the monitor that only move it on, and MinioLog.Start.
LEMMA MonitorMovesIInv ==
    ASSUME IInv,
           Poll \/ Open \/ CopyEnd \/ Return \/ MinioLine \/ MinioEnd \/ MinioSend
    PROVE  IInv'
<1>1. CASE Poll
  <2>1. /\ mpc' \in {"done", "mid", "poll"}
        /\ msg' \in [Senders -> Messages] /\ \A f \in Flushers : msg'[f] = msg[f]
    <3>1. CASE closed
        BY <1>1, <3>1, Zenon DEF IInv, TypeOK, Poll
    <3>3. CASE ~closed /\ UNCHANGED <<mpc, msg>>
        BY <1>1, <3>3, Zenon DEF IInv, TypeOK, Poll
    <3>2. CASE ~closed /\ ~UNCHANGED <<mpc, msg>>
      <4>1. PICK m \in {StatMsg, EndMsg} :
                mpc' = "mid" /\ msg' = [msg EXCEPT !["monitor"] = m]
            BY <1>1, <3>2, Zenon DEF Poll, writeMid
      <4>2. m \in Messages
            BY MessageType, Zenon DEF IInv
      <4> QED
            BY <4>1, <4>2, MonitorMessage, Zenon DEF IInv
    <3> QED
        BY <3>1, <3>2, <3>3, Zenon
  <2>2. podSeen' \in BOOLEAN
    BY <1>1, Zenon DEF IInv, TypeOK, Poll
  <2>3. polls' \in 0 .. MaxPolls
    <3>1. polls' = polls \/ (polls < MaxPolls /\ polls' = polls + 1)
        BY <1>1, Zenon DEF Poll
    <3> QED
        BY <3>1 DEF IInv, TypeOK
  <2>6. ret' \in {"poll", "open", "flush", "return", "object", "done"}
    <3>1. ret' = ret \/ ret' \in {"poll", "open", "done"}
        BY <1>1, Zenon DEF Poll, writeMid
    <3> QED
        BY <3>1, Zenon DEF IInv, TypeOK
  <2>4. TypeOK'
    BY <1>1, <2>1, <2>2, <2>3, <2>6 DEF IInv, TypeOK, Poll
  <2>5. Core'
    BY <1>1, <2>1, Quiet, Zenon DEF IInv, TypeOK, Poll
  <2> QED
    BY <2>4, <2>5, Zenon DEF IInv
<1>2. CASE Open
  <2>1. TypeOK'
    BY <1>2 DEF IInv, TypeOK, Open
  <2>2. Core'
    BY <1>2, Quiet, Zenon DEF Open
  <2> QED
    BY <2>1, <2>2, Zenon DEF IInv
<1>3. CASE CopyEnd
  <2>1. /\ mpc' \in {"flush", "mid"} /\ ret' \in {"flush", ret}
        /\ msg' \in [Senders -> Messages] /\ \A f \in Flushers : msg'[f] = msg[f]
    BY <1>3, MessageType, MonitorMessage, Zenon DEF IInv, TypeOK, CopyEnd, writeMid
  <2>2. TypeOK'
    BY <1>3, <2>1 DEF IInv, TypeOK, CopyEnd
  <2>3. Core'
    BY <1>3, <2>1, Quiet, Zenon DEF IInv, TypeOK, CopyEnd
  <2> QED
    BY <2>2, <2>3, Zenon DEF IInv
<1>4. CASE Return
  <2>1. TypeOK'
    BY <1>4 DEF IInv, TypeOK, Return
  <2>2. Core'
    BY <1>4, Quiet, Zenon DEF Return
  <2> QED
    BY <2>1, <2>2, Zenon DEF IInv
<1>5. CASE MinioLine
  <2>1. \E m \in Messages : msg' = [msg EXCEPT !["monitor"] = m]
    <3>1. made["log"] < MaxItems => <<made["log"] + 1>> \in Seq(1 .. MaxItems)
        BY DEF IInv, TypeOK, Kinds
    <3> QED
        BY <1>5, <3>1, MessageType, Zenon DEF IInv, MinioLine, Messages, Kinds
  <2>2. made' \in [Kinds -> 0 .. MaxItems]
    BY <1>5 DEF IInv, TypeOK, MinioLine, Kinds
  <2>3. TypeOK'
    BY <1>5, <2>1, <2>2 DEF IInv, TypeOK, MinioLine, Senders
  <2>4. Core'
    BY <1>5, <2>1, Quiet, Zenon DEF IInv, TypeOK, MinioLine, Senders
  <2> QED
    BY <2>3, <2>4, Zenon DEF IInv
<1>6. CASE MinioEnd
  <2>1. TypeOK'
    BY <1>6 DEF IInv, TypeOK, MinioEnd
  <2>2. Core'
    BY <1>6, Quiet, Zenon DEF MinioEnd
  <2> QED
    BY <2>1, <2>2, Zenon DEF IInv
<1>7. CASE MinioSend
  <2>1. "monitor" \in Senders /\ Handover("monitor") /\ Flushers \subseteq Senders
    BY <1>7, Zenon DEF MinioSend, Senders
  <2>2. mpc' \in {"poll", "open", "flush", "return", "object", "done"}
    BY <1>7, Zenon DEF IInv, TypeOK, MinioSend
  <2>3. TypeOK'
    BY <1>7, <2>1, <2>2, HandoverType DEF IInv, TypeOK, MinioSend
  <2>4. Core'
    BY <1>7, <2>1, <2>2, HandoverType, Quiet, Zenon DEF IInv, MinioSend
  <2> QED
    BY <2>3, <2>4, Zenon DEF IInv
<1> QED
    BY <1>1, <1>2, <1>3, <1>4, <1>5, <1>6, <1>7, Zenon

\* writeMid holds the mutex only while it sends (lines 68-71).
LEMMA MidIInv ==
    ASSUME IInv, MidLock \/ MidSend
    PROVE  IInv'
<1> USE DEF IInv, Core
<1>0. "monitor" \in Senders /\ Flushers \subseteq Senders
    BY Zenon DEF Senders
<1>1. CASE MidLock /\ closed
  <2>1. msg' \in [Senders -> Messages] /\ \A f \in Flushers : msg'[f] = msg[f]
    BY <1>1, MessageType, MonitorMessage, Zenon DEF MidLock
  <2>2. mpc' = ret /\ ret \in {"poll", "open", "flush", "return", "object", "done"}
    BY <1>1, Zenon DEF TypeOK, MidLock
  <2>3. TypeOK'
    BY <1>1, <2>1, <2>2 DEF TypeOK, MidLock
  <2>4. Core'
    BY <1>1, <2>1, <2>2, Quiet, Zenon DEF MidLock
  <2> QED
    BY <2>3, <2>4, Zenon
<1>2. CASE MidLock /\ ~closed
  <2>1. TypeOK'
    BY <1>0, <1>2 DEF TypeOK, MidLock
  <2>2. Locking'
    BY <1>2, Zenon DEF Locking, MidLock
  <2>3. InHand' /\ Looping' /\ FlagPending' /\ NoStrandedRecords'
    BY <1>2, Zenon DEF InHand, Looping, FlagPending, NoStrandedRecords, Pending, Live, Cached,
                MidLock
  <2> QED
    BY <2>1, <2>2, <2>3, Zenon
<1>3. CASE MidSend
  <2>1. mpc' = ret /\ ret \in {"poll", "open", "flush", "return", "object", "done"}
    BY <1>3, Zenon DEF TypeOK, MidSend
  <2>2. Handover("monitor")
    BY <1>3, Zenon DEF MidSend
  <2>3. TypeOK'
    BY <1>0, <1>3, <2>1, <2>2, HandoverType DEF TypeOK, MidSend
  <2>4. \A f \in Flushers : msg'[f] = msg[f]
    BY <1>0, <2>2, HandoverType, Zenon
  <2>5. Locking'
    BY <1>3, <2>1, Zenon DEF Locking, MidSend
  <2>6. InHand' /\ Looping' /\ FlagPending' /\ NoStrandedRecords'
    BY <1>3, <2>1, <2>4, Zenon
    DEF InHand, Looping, FlagPending, NoStrandedRecords, Pending, Live, Cached, MidSend
  <2> QED
    BY <2>3, <2>5, <2>6, Zenon
<1> QED
    BY <1>1, <1>2, <1>3, Zenon

\* The unlocked flush (line 249 of DockerLog.go) clears the flag and takes keys
\* away from the loops, and never adds to the cache.
LEMMA UnlockedIInv ==
    ASSUME IInv, UnlockedFlush \/ UnlockedTake \/ UnlockedSend \/ UnlockedEnd
    PROVE  IInv'
<1> USE DEF IInv, Core
<1>0. "monitor" \in Senders /\ Flushers \subseteq Senders /\ "monitor" \notin Flushers
    BY Zenon DEF Senders
<1>1. CASE (UnlockedFlush /\ closed) \/ UnlockedEnd
  <2>1. msg' \in [Senders -> Messages] /\ \A f \in Flushers : msg'[f] = msg[f]
    BY <1>1, MessageType, MonitorMessage, Zenon DEF UnlockedFlush, UnlockedEnd, writeMid
  <2>2. mpc' = "mid" /\ ret' = "return" /\ sendingFlag' = FALSE
    BY <1>1, Zenon DEF UnlockedFlush, UnlockedEnd, writeMid
  <2>3. UNCHANGED <<lock, closed, dead, msgCache, timer, made, fpc, todo, wpc, wmsg,
                    streaming, podSeen, polls, closer, wireVars, peerVars>>
    BY <1>1, Zenon DEF UnlockedFlush, UnlockedEnd
  <2>4. mpc \in {"flush", "range"}
    BY <1>1, Zenon DEF UnlockedFlush, UnlockedEnd
  <2>5. TypeOK'
    <3>1. sendingFlag' \in BOOLEAN
        BY <2>2, Zenon
    <3> QED
        BY <2>1, <2>2, <2>3, <3>1 DEF TypeOK
  <2>6. Locking' /\ InHand' /\ Looping'
    BY <2>1, <2>2, <2>3, <2>4, Zenon DEF Locking, InHand, Looping, Cached
  <2>7. FlagPending' /\ NoStrandedRecords'
    BY <2>2, <2>3, Zenon DEF FlagPending, NoStrandedRecords, Live, Cached
  <2> QED
    BY <2>5, <2>6, <2>7, Zenon
<1>2. CASE UnlockedFlush /\ ~closed
  <2>1. mpc' = "range" /\ todo' = [todo EXCEPT !["monitor"] = Cached]
    BY <1>2, Zenon DEF UnlockedFlush
  <2>2. UNCHANGED <<sendingFlag, ret, msg, lock, closed, dead, msgCache, timer, made,
                    fpc, wpc, wmsg, streaming, podSeen, polls, closer, wireVars, peerVars>>
    BY <1>2, Zenon DEF UnlockedFlush
  <2>3. todo' \in [Senders -> SUBSET Kinds] /\ \A f \in Flushers : todo'[f] = todo[f]
    <3>1. Cached \in SUBSET Kinds
        BY Zenon DEF Cached
    <3> QED
        BY <1>0, <2>1, <3>1, Zenon DEF TypeOK
  <2>4. TypeOK'
    BY <2>1, <2>2, <2>3, SMTT(30) DEF TypeOK
  <2>5. Locking' /\ InHand' /\ Looping'
    BY <1>2, <2>1, <2>2, <2>3 DEF Locking, InHand, Looping, Cached, UnlockedFlush
  <2>6. FlagPending' /\ NoStrandedRecords'
    BY <2>2, Zenon DEF FlagPending, NoStrandedRecords, Pending, Live, Cached
  <2> QED
    BY <2>4, <2>5, <2>6, Zenon
<1>3. CASE UnlockedTake
  <2>1. PICK k \in Kinds : Take("monitor", k)
    BY <1>3, Zenon DEF UnlockedTake
  <2>2. /\ msg' \in [Senders -> Messages] /\ msg'["monitor"].kind = k
        /\ \A f \in Flushers : msg'[f] = msg[f]
    BY <1>0, <2>1, MessageType, MonitorMessage, Zenon DEF TypeOK, Take, Batch
  <2>3. todo' \in [Senders -> SUBSET Kinds] /\ \A f \in Flushers : todo'[f] = todo[f]
    BY <1>0, <2>1, Zenon DEF TypeOK, Take
  <2>4. TypeOK'
    <3>1. mpc' = "send" /\ UNCHANGED <<lock, closed, dead, cacheVars, fpc, wpc, wmsg, ret,
                              streaming, podSeen, polls, closer, wireVars, peerVars>>
        BY <1>3, Zenon DEF UnlockedTake
    <3> QED
        BY <2>2, <2>3, <3>1 DEF TypeOK
  <2>5. Locking' /\ InHand' /\ Looping'
    BY <1>3, <2>2, <2>3, Zenon DEF Locking, InHand, Looping, Cached, UnlockedTake
  <2>6. FlagPending' /\ NoStrandedRecords'
    BY <1>3, Zenon DEF FlagPending, NoStrandedRecords, Pending, Live, Cached, UnlockedTake
  <2> QED
    BY <2>4, <2>5, <2>6, Zenon
<1>4. CASE UnlockedSend
  <2> DEFINE k == msg["monitor"].kind
  <2>1. k \in Kinds /\ Handover("monitor") /\ Delete(k)
    BY <1>4, Zenon DEF InHand, UnlockedSend
  <2>2. \A f \in Flushers : msg'[f] = msg[f] /\ todo'[f] = todo[f] \ {k}
    BY <1>0, <2>1, HandoverType, DeleteKind, Zenon
  <2>3. TypeOK'
    <3>1. /\ wpc' = "write" /\ wmsg' \in Messages /\ msg' \in [Senders -> Messages]
          /\ msgCache' \in [Kinds -> Seq(1 .. MaxItems)]
          /\ todo' \in [Senders -> SUBSET Kinds]
        BY <1>0, <2>1, HandoverType, DeleteKind, Zenon
    <3> QED
        BY <1>4, <3>1 DEF TypeOK, UnlockedSend
  <2>4. Cached' = Cached \ {k}
    BY <2>1, DeleteKind, Zenon
  <2>5. Locking' /\ InHand' /\ Looping'
    BY <1>4, <2>2, <2>4 DEF Locking, InHand, Looping, UnlockedSend
  <2>6. FlagPending' /\ NoStrandedRecords'
    BY <1>4, <2>4, Zenon DEF FlagPending, NoStrandedRecords, Pending, Live, UnlockedSend
  <2> QED
    BY <2>3, <2>5, <2>6, Zenon
<1> QED
    BY <1>1, <1>2, <1>3, <1>4, Zenon

\* The writer, the reader, the 2 s timer, the peer and the runtime: a step that
\* closes the connection finds the mutex free (lines 165-178).
LEMMA EndsIInv ==
    ASSUME IInv, Writer \/ Reader \/ CloserFires \/ PeerLeaves \/ FatalError
    PROVE  IInv'
<1>1. CASE WriterWrite
  <2>1. NoMsg \in Messages
    BY MessageType, Zenon DEF IInv
  <2>2. ended' \in BOOLEAN /\ broken' \in BOOLEAN
    BY <1>1, Zenon DEF IInv, TypeOK, WriterWrite
  <2>3. wire' \in [Kinds -> Seq(1 .. MaxItems)]
    <3>1. wmsg.items \in Seq(1 .. MaxItems)
        BY Zenon DEF IInv, TypeOK, Messages
    <3>2. \A k \in Kinds : wire[k] \o wmsg.items \in Seq(1 .. MaxItems)
        BY <3>1 DEF IInv, TypeOK
    <3>3. CASE wire' = wire
        BY <3>3, Zenon DEF IInv, TypeOK
    <3>4. CASE wire' # wire
      <4>1. /\ wmsg.kind \in Kinds
            /\ wire' = [wire EXCEPT ![wmsg.kind] = wire[wmsg.kind] \o wmsg.items]
            BY <1>1, <3>4, Zenon DEF IInv, TypeOK, WriterWrite
      <4> QED
            BY <3>2, <4>1, Zenon DEF IInv, TypeOK
    <3> QED
        BY <3>3, <3>4, Zenon
  <2>4. TypeOK'
    <3>1. /\ wpc' \in {"select", "close"} /\ wmsg' = NoMsg
          /\ UNCHANGED <<lock, closed, dead, cacheVars, fpc, todo, msg, monVars, peerVars>>
        BY <1>1, Zenon DEF WriterWrite
    <3> QED
        BY <2>1, <2>2, <2>3, <3>1 DEF IInv, TypeOK
  <2>5. Core'
    BY <1>1, Quiet, Zenon DEF WriterWrite
  <2> QED
    BY <2>4, <2>5, Zenon DEF IInv
<1>2. CASE WriterExit \/ ReaderError \/ PeerLeaves \/ FatalError
  <2>1. TypeOK'
    <3>1. UNCHANGED <<lock, closed, cacheVars, fpc, todo, msg, wmsg, monVars, wireVars>>
        BY <1>2, Zenon DEF WriterExit, ReaderError, PeerLeaves, FatalError
    <3>2. /\ wpc' \in {wpc, "exit"} /\ rpc' \in {rpc, "close"}
          /\ gone' \in {gone, TRUE} /\ dead' \in {dead, TRUE}
        BY <1>2, Zenon DEF WriterExit, ReaderError, PeerLeaves, FatalError
    <3>3. gone' \in BOOLEAN /\ dead' \in BOOLEAN
        BY <3>2, Zenon DEF IInv, TypeOK
    <3> QED
        BY <3>1, <3>2, <3>3 DEF IInv, TypeOK
  <2>2. Core'
    BY <1>2, Quiet, Zenon DEF WriterExit, ReaderError, PeerLeaves, FatalError
  <2> QED
    BY <2>1, <2>2, Zenon DEF IInv
<1>3. CASE WriterClose \/ ReaderClose \/ CloserFires
  <2>1. lock = "free" /\ closed' = TRUE
    BY <1>3, Zenon DEF WriterClose, ReaderClose, CloserFires, onClose
  <2>2. UNCHANGED <<lock, msgCache, sendingFlag, timer, fpc, todo, msg, mpc>>
    BY <1>3, Zenon DEF WriterClose, ReaderClose, CloserFires
  <2>3. TypeOK'
    BY <1>3, <2>1, SMTT(30) DEF IInv, TypeOK, WriterClose, ReaderClose, CloserFires
  <2>4. Locking' /\ InHand' /\ Looping'
    BY <2>1, <2>2, Zenon DEF IInv, Core, Locking, InHand, Looping, Cached
  <2>5. FlagPending' /\ NoStrandedRecords'
    BY <2>1, <2>2, Zenon DEF IInv, Core, FlagPending, NoStrandedRecords, Pending, Live
  <2> QED
    BY <2>3, <2>4, <2>5, Zenon DEF IInv, Core
<1> QED
    BY <1>1, <1>2, <1>3, Zenon DEF Writer, Reader

\* Nothing changes.
LEMMA StutterIInv ==
    ASSUME IInv, UNCHANGED vars
    PROVE  IInv'
<1>1. TypeOK'
    BY DEF IInv, TypeOK, vars
<1>2. Core'
    BY Quiet, Zenon DEF vars
<1> QED
    BY <1>1, <1>2, Zenon DEF IInv

\* The inductive invariant holds in every reachable state of a connection.
THEOREM Invariance == Spec => []IInv
<1>1. IInv /\ [Next]_vars => IInv'
  <2> SUFFICES ASSUME IInv, [Next]_vars PROVE IInv'
    BY Zenon
  <2>1. CASE (\E k \in Stats : WriteStat(k)) \/ WriteLog
    BY <2>1, WriteIInv, Zenon
  <2>2. ASSUME NEW f \in Flushers, Flush(f) PROVE IInv'
    BY <2>2, FireIInv, FlushLockIInv, FlushTakeIInv, FlushSendIInv, FlushEndIInv, Zenon DEF Flush
  <2>3. CASE Monitor
    BY <2>3, MonitorMovesIInv, MidIInv, UnlockedIInv, Zenon DEF Monitor
  <2>4. CASE Writer \/ Reader \/ CloserFires \/ PeerLeaves \/ FatalError
    BY <2>4, EndsIInv, Zenon
  <2>5. CASE UNCHANGED vars
    BY <2>5, StutterIInv, Zenon
  <2> QED
    BY <2>1, <2>2, <2>3, <2>4, <2>5, Zenon DEF Next
<1> QED
    BY <1>1, InitIInv, PTL DEF Spec

\* Type correctness of a connection's state.
THEOREM TypeCorrect == Spec => []TypeOK
<1>1. IInv => TypeOK
    BY Zenon DEF IInv
<1> QED
    BY <1>1, Invariance, PTL

\* A record in the cache of an open connection always has a timer or a callback
\* that will send it (write and flush, lines 74-114 of ConnectionManage.go),
\* although flush(false) clears sendingFlag and the cache without the mutex.
THEOREM NoRecordStranded == Spec => []NoStrandedRecords
<1>1. IInv => NoStrandedRecords
    BY Zenon DEF IInv, Core
<1> QED
    BY <1>1, Invariance, PTL

\* A goroutine that sends to the writer while it holds the mutex (writeMid and
\* flush(true)) does so on an open connection.
THEOREM LockedSendsAreOpen == Spec => []LockedSendsOpen
<1>1. IInv => LockedSendsOpen
    BY Zenon DEF IInv, Core, Locking, LockedSendsOpen, Senders
<1> QED
    BY <1>1, Invariance, PTL

-----------------------------------------------------------------------------
(* The course of the monitor of a connection, and what each step of Next does *)
(* to the records of one kind: where they are, who holds them.                *)
USE ConstantsAssumption DEF ConstantsAssumption, cacheVars, monVars, wireVars, peerVars

\* Callbacks that are under way.
LiveSet == {f \in Flushers : Live(f)}

\* What the monitor sends with writeMid, and straight to the channel.
MonMsg ==
    /\ mpc \in {"mid", "midsend"} => msg["monitor"] \in {StatMsg, EndMsg}
    /\ mpc = "direct" =>
         \/ msg["monitor"] = StatMsg
         \/ msg["monitor"] = [kind |-> "log", items |-> <<made["log"]>>]

\* MinioLog.Start uses neither cache nor timer.
MinioIdle ==
    mpc \in {"object", "direct"} => ~timer /\ ~streaming /\ LiveSet = {} /\ Cached = {}
MinioRet == mpc = "direct" => ret \in {"object", "done"}

\* The log is not open yet.
Before == mpc \in {"poll", "open"} \/ (mpc \in {"mid", "midsend"} /\ ret \in {"poll", "open"})
MidRet == mpc \in {"mid", "midsend"} => ret # "object"

\* What the monitor is about, apart from the timers.
Course == MonMsg /\ MinioIdle /\ MinioRet /\ MidRet /\ (Before => made["log"] = 0)

\* The steps of other goroutines leave the monitor where it is.
LEMMA OthersLeaveMonitor ==
    ASSUME IInv, MinioIdle,
           \/ WriteLog \/ (\E k \in Stats : WriteStat(k)) \/ (\E f \in Flushers : Flush(f))
           \/ Writer \/ Reader \/ CloserFires \/ PeerLeaves \/ FatalError
    PROVE  /\ UNCHANGED <<mpc, ret>> /\ msg'["monitor"] = msg["monitor"]
           /\ mpc # "copy" => made'["log"] = made["log"]
           /\ mpc \in {"object", "direct"} => UNCHANGED <<timer, streaming, fpc, msgCache>>
<1>0. /\ made \in [Kinds -> 0 .. MaxItems] /\ msg \in [Senders -> Messages]
      /\ "monitor" \notin Flushers /\ "log" \notin Stats
  BY Zenon DEF IInv, TypeOK
<1>1. CASE WriteLog
  BY <1>1, Zenon DEF WriteLog, write
<1>2. ASSUME NEW k \in Stats, WriteStat(k) PROVE UNCHANGED <<mpc, ret, msg>> /\ streaming
                                                /\ made'["log"] = made["log"]
  BY <1>0, <1>2 DEF WriteStat, write
<1>3. ASSUME NEW f \in Flushers, Flush(f)
      PROVE  /\ UNCHANGED <<mpc, ret, made>> /\ msg'["monitor"] = msg["monitor"]
             /\ timer \/ fpc[f] # "none"
  <2>1. UNCHANGED <<mpc, ret, made>> /\ (timer \/ fpc[f] # "none")
    BY <1>3, Zenon DEF Flush, FireTimer, FlushLock, FlushTake, FlushSend, FlushEnd
  <2>2. \/ UNCHANGED msg \/ \E m : msg' = [msg EXCEPT ![f] = m]
    BY <1>3, Zenon DEF Flush, FireTimer, FlushLock, FlushTake, FlushSend, FlushEnd, Take, Handover
  <2>3. msg'["monitor"] = msg["monitor"]
    BY <1>0, <2>2, Zenon DEF Senders
  <2>. QED  BY <2>1, <2>3, Zenon
<1>4. CASE Writer \/ Reader \/ CloserFires \/ PeerLeaves \/ FatalError
  BY <1>4, Zenon DEF Writer, Reader, CloserFires, PeerLeaves, FatalError, WriterWrite, WriterClose,
              WriterExit, ReaderError, ReaderClose
<1>5. mpc \in {"object", "direct"} => ~streaming /\ ~timer /\ \A f \in Flushers : fpc[f] = "none"
  BY Zenon DEF MinioIdle, LiveSet, Live
<1>. QED  BY <1>1, <1>2, <1>3, <1>4, <1>5, Zenon

\* Each step of the monitor keeps to its course (DockerLog.Start, MinioLog.Start).
LEMMA CourseStep ==
    ASSUME IInv, IInv', Course, Next
    PROVE  Course'
<1>0. /\ made \in [Kinds -> 0 .. MaxItems] /\ msg \in [Senders -> Messages]
      /\ "monitor" \in Senders /\ "log" \in Kinds
  BY Zenon DEF IInv, TypeOK, Senders, Kinds
<1>1. CASE \/ WriteLog \/ (\E k \in Stats : WriteStat(k)) \/ (\E f \in Flushers : Flush(f))
           \/ Writer \/ Reader \/ CloserFires \/ PeerLeaves \/ FatalError
  <2>1. /\ UNCHANGED <<mpc, ret>> /\ msg'["monitor"] = msg["monitor"]
        /\ mpc # "copy" => made'["log"] = made["log"]
        /\ mpc \in {"object", "direct"} => UNCHANGED <<timer, streaming, fpc, msgCache>>
    BY <1>1, OthersLeaveMonitor, Zenon DEF Course
  <2>2. MonMsg' /\ MinioRet' /\ MidRet'
    BY <2>1, Zenon DEF Course, MonMsg, MinioRet, MidRet, StatMsg, EndMsg
  <2>3. MinioIdle'
    BY <2>1, Zenon DEF Course, MinioIdle, LiveSet, Live, Cached
  <2>4. (Before => made["log"] = 0)'
    BY <2>1, Zenon DEF Course, Before
  <2>. QED  BY <2>2, <2>3, <2>4, Zenon DEF Course
<1>2. CASE Poll \/ Open \/ CopyEnd \/ UnlockedFlush \/ UnlockedEnd \/ UnlockedTake \/ UnlockedSend
           \/ Return
  <2>1. UNCHANGED made /\ mpc' \notin {"object", "direct"}
    BY <1>2, Zenon DEF Poll, Open, CopyEnd, UnlockedFlush, UnlockedEnd, UnlockedTake, UnlockedSend,
                Return, writeMid
  <2>2. mpc' \in {"mid", "midsend"} => /\ msg'["monitor"] \in {StatMsg, EndMsg}
                                       /\ ret' \in {"poll", "open", "flush", "return", "done"}
    <3>1. CASE Poll
      BY <1>0, <3>1, Zenon DEF Poll, writeMid
    <3>2. CASE Open \/ CopyEnd \/ UnlockedFlush \/ UnlockedEnd
      BY <1>0, <3>2, Zenon DEF Open, CopyEnd, UnlockedFlush, UnlockedEnd, writeMid
    <3>3. CASE UnlockedTake \/ UnlockedSend \/ Return
      BY <1>0, <3>3, Zenon DEF UnlockedTake, UnlockedSend, Return
    <3>. QED  BY <1>2, <3>1, <3>2, <3>3, Zenon
  <2>3. Before' => Before
    BY <1>2, Zenon DEF Poll, Open, CopyEnd, UnlockedFlush, UnlockedEnd, UnlockedTake, UnlockedSend,
                Return, writeMid, Before
  <2>. QED  BY <2>1, <2>2, <2>3, Zenon DEF Course, MonMsg, MinioIdle, MinioRet, MidRet,
               StatMsg, EndMsg
<1>3. CASE MidLock \/ MidSend
  <2>2. ret \in {"poll", "open", "flush", "return", "done"}
    BY <1>3, Zenon DEF MidLock, MidSend, Course, MidRet, IInv, TypeOK
  <2>1. /\ UNCHANGED <<made, ret>> /\ mpc \in {"mid", "midsend"} /\ mpc' \in {"midsend", ret}
        /\ mpc' = "midsend" => msg' = msg
    BY <1>3, <2>2, Zenon DEF MidLock, MidSend
  <2>. QED  BY <2>1, <2>2, Zenon DEF Course, MonMsg, MinioIdle, MinioRet, MidRet, Before,
               StatMsg, EndMsg
<1>4. CASE MinioLine \/ MinioSend \/ MinioEnd
  <2>1. /\ UNCHANGED <<timer, streaming, fpc, msgCache>> /\ mpc \in {"object", "direct"}
        /\ mpc' \in {"object", "direct", "done"}
        /\ mpc' = "direct" => ret' \in {"object", "done"}
    <3>1. CASE MinioLine
      BY <3>1, Zenon DEF MinioLine
    <3>2. CASE MinioSend
      BY <3>2, Zenon DEF MinioSend, Course, MinioRet
    <3>3. CASE MinioEnd
      BY <3>3, Zenon DEF MinioEnd
    <3>. QED  BY <1>4, <3>1, <3>2, <3>3, Zenon
  <2>2. MinioIdle'
    BY <2>1, Zenon DEF Course, MinioIdle, LiveSet, Live, Cached
  <2>3. mpc' = "direct" =>
          \/ msg'["monitor"] = StatMsg
          \/ msg'["monitor"] = [kind |-> "log", items |-> <<made'["log"]>>]
    <3>1. CASE MinioLine
      <4>1. CASE msg' = [msg EXCEPT !["monitor"] = StatMsg]
        BY <1>0, <4>1, Zenon
      <4>2. CASE made' = [made EXCEPT !["log"] = @ + 1]
        BY <1>0, <3>1, <4>2, Zenon DEF MinioLine
      <4>. QED  BY <3>1, <4>1, <4>2, Zenon DEF MinioLine
    <3>2. CASE MinioSend \/ MinioEnd
      BY <3>2, Zenon DEF MinioSend, MinioEnd, Course, MinioRet
    <3>. QED  BY <1>4, <3>1, <3>2, Zenon
  <2>. QED  BY <2>1, <2>2, <2>3, Zenon DEF Course, MonMsg, MinioRet, MidRet, Before, StatMsg
<1>. QED  BY <1>1, <1>2, <1>3, <1>4, Zenon DEF Next, Monitor

\* The monitor keeps to its course throughout.
LEMMA CourseInvariant == Spec => []Course
<1>1. Init => Course
  BY Zenon DEF Init, Course, MonMsg, MinioIdle, MinioRet, MidRet, Before, Cached, Kinds,
     LiveSet, Live
<1>2. IInv /\ IInv' /\ Course /\ [Next]_vars => Course'
  <2>1. ASSUME Course, UNCHANGED vars PROVE Course'
    BY <2>1, Zenon DEF vars, Course, MonMsg, MinioIdle, MinioRet, MidRet, Before, Cached,
       LiveSet, Live
  <2>. QED  BY <2>1, CourseStep, Zenon
<1>. QED  BY <1>1, <1>2, Invariance, PTL DEF Spec

------------------------------------------------------------------------------
\* The message that a goroutine is sending, and the one the writer is writing.
Hand(p) ==
    IF (p = "monitor" /\ mpc \in {"send", "direct"}) \/ (p \in Flushers /\ fpc[p] = "send")
    THEN msg[p] ELSE NoMsg
AtWriter == IF wpc = "write" THEN wmsg ELSE NoMsg

\* Two messages with the same records, if any.
Same(m, n) == m = n \/ (m.kind \notin Kinds /\ n.kind \notin Kinds)

HandsKept(S) == \A p \in Senders \ S : Same(Hand(p)', Hand(p))

\* The log is being followed, or not open yet.
Early == mpc = "copy" \/ Before

\* What a step may do to the records of a connection: nothing,
IdleView ==
    /\ UNCHANGED <<wire, msgCache, made, broken>>
    /\ HandsKept({}) /\ Same(AtWriter', AtWriter)
    /\ mpc = "direct" => mpc' = "direct" \/ Hand("monitor")'.kind \notin Kinds

\* write one to the cache,
WriteView(k) ==
    /\ UNCHANGED <<wire, broken, mpc>> /\ HandsKept({}) /\ Same(AtWriter', AtWriter)
    /\ mpc # "direct" /\ \A f \in Flushers : Hand(f) = NoMsg
    /\ k = "log" => mpc = "copy"
    /\ made[k] < MaxItems
    /\ made' = [made EXCEPT ![k] = @ + 1]
    /\ msgCache' = [msgCache EXCEPT ![k] = Append(@, made[k] + 1)]

\* read a line of the object,
LineView ==
    /\ UNCHANGED <<wire, broken, msgCache>> /\ Same(AtWriter', AtWriter)
    /\ mpc = "object" /\ mpc' = "direct" /\ made["log"] < MaxItems
    /\ made' = [made EXCEPT !["log"] = @ + 1]
    /\ Hand("monitor") = NoMsg
    /\ Hand("monitor")' = [kind |-> "log", items |-> <<made["log"] + 1>>]
    /\ \A f \in Flushers : Hand(f) = NoMsg /\ Hand(f)' = NoMsg
    /\ Cached = {}

\* take an entry of the cache,
TakeView(p, k) ==
    /\ UNCHANGED <<wire, broken, msgCache, made>> /\ Same(AtWriter', AtWriter)
    /\ mpc # "direct" /\ mpc' # "direct" /\ k \in Cached
    /\ Hand(p) = NoMsg /\ Hand(p)' = Batch(k) /\ HandsKept({p})
    /\ p \in Flushers => \A f \in Flushers : Hand(f) = NoMsg
    /\ p = "monitor" => ~Early'

\* hand a message to the writer,
SendView(p) ==
    /\ UNCHANGED <<wire, broken, made>>
    /\ AtWriter = NoMsg /\ AtWriter' = Hand(p)
    /\ Hand(p).kind \in Kinds /\ Hand(p)' = NoMsg /\ HandsKept({p})
    /\ msgCache' = [msgCache EXCEPT ![Hand(p).kind] = <<>>]
    /\ mpc = "direct" => p = "monitor"
    /\ mpc' # "direct"

\* write it to the peer,
ShowView ==
    /\ UNCHANGED <<broken, msgCache, made, mpc>> /\ ~broken /\ HandsKept({})
    /\ AtWriter.kind \in Kinds /\ AtWriter' = NoMsg
    /\ wire' = [wire EXCEPT ![AtWriter.kind] = @ \o AtWriter.items]

\* or fail to.
FailView ==
    /\ UNCHANGED <<wire, msgCache, made, mpc>> /\ broken' = TRUE
    /\ HandsKept({}) /\ AtWriter' = NoMsg

View ==
    \/ IdleView \/ LineView \/ ShowView \/ FailView
    \/ (\E k \in Kinds : WriteView(k))
    \/ (\E p \in Senders, k \in Kinds : TakeView(p, k))
    \/ (\E p \in Senders : SendView(p))

\* Status lines and LOG_END carry no records.
LEMMA NoRecords == NoMsg.kind \notin Kinds /\ StatMsg.kind \notin Kinds /\ EndMsg.kind \notin Kinds
                   /\ NoMsg.items = <<>>
  BY Zenon DEF NoMsg, StatMsg, EndMsg, Kinds

\* What the callbacks of the timer do to the records (lines 99-114).
LEMMA FlushView ==
    ASSUME IInv, Course, NEW f \in Flushers, Flush(f)
    PROVE  View
<1>0. /\ fpc \in [Flushers -> {"none", "wait", "range", "send"}] /\ msg \in [Senders -> Messages]
      /\ f \in Senders /\ "monitor" \notin Flushers /\ Senders = {"monitor"} \cup Flushers
  BY Zenon DEF IInv, TypeOK, Senders
<1>1. UNCHANGED <<wire, made, mpc, broken>> /\ (mpc # "direct")
  <2>1. UNCHANGED <<wire, made, mpc, broken>> /\ (timer \/ fpc[f] # "none")
    BY <1>0, Zenon DEF Flush, FireTimer, FlushLock, FlushTake, FlushSend, FlushEnd
  <2>. QED  BY <2>1, Zenon DEF Course, MinioIdle, LiveSet, Live
<1>2. CASE FireTimer(f) \/ FlushLock(f) \/ FlushEnd(f)
  <2>1. /\ UNCHANGED <<msgCache, msg, wpc, wmsg>> /\ fpc[f] # "send" /\ fpc'[f] # "send"
        /\ \A g \in Flushers : g # f => fpc'[g] = fpc[g]
    BY <1>0, <1>2, Zenon DEF FireTimer, FlushLock, FlushEnd
  <2>2. HandsKept({}) /\ AtWriter' = AtWriter
    BY <1>0, <1>1, <2>1, Zenon DEF HandsKept, Same, Hand, AtWriter, NoMsg
  <2>3. IdleView
    BY <1>1, <2>1, <2>2, Zenon DEF IdleView, Same
  <2>. QED  BY <2>3, Zenon DEF View
<1>3. CASE FlushTake(f)
  <2>1. PICK k \in Kinds : Take(f, k)
    BY <1>3, Zenon DEF FlushTake
  <2>2. /\ UNCHANGED <<msgCache, wpc, wmsg>> /\ fpc[f] = "range" /\ fpc'[f] = "send"
        /\ \A g \in Flushers : g # f => fpc'[g] = fpc[g]
        /\ msg'[f] = Batch(k) /\ \A q \in Senders : q # f => msg'[q] = msg[q]
    BY <1>0, <1>3, <2>1, Zenon DEF FlushTake, Take
  <2>3. \A g \in Flushers : Hand(g) = NoMsg
    BY <2>2, Zenon DEF IInv, Core, Locking, Hand
  <2>4. HandsKept({f}) /\ AtWriter' = AtWriter /\ Hand(f)' = Batch(k)
    BY <1>0, <1>1, <2>2, Zenon DEF HandsKept, Same, Hand, AtWriter, NoMsg
  <2>5. TakeView(f, k)
    BY <1>0, <1>1, <2>1, <2>2, <2>3, <2>4, Zenon DEF TakeView, Take, Same
  <2>. QED  BY <1>0, <2>5, Zenon DEF View
<1>4. CASE FlushSend(f)
  <2>1. /\ wpc = "select" /\ wpc' = "write" /\ wmsg' = msg[f] /\ fpc[f] = "send"
        /\ fpc'[f] = "range" /\ \A g \in Flushers : g # f => fpc'[g] = fpc[g]
        /\ \A q \in Senders : q # f => msg'[q] = msg[q]
        /\ msgCache' = [msgCache EXCEPT ![msg[f].kind] = <<>>]
    BY <1>0, <1>4, Zenon DEF FlushSend, Handover, Delete
  <2>2. HandsKept({f}) /\ AtWriter = NoMsg /\ AtWriter' = Hand(f) /\ Hand(f)' = NoMsg
        /\ Hand(f) = msg[f]
    BY <1>0, <1>1, <2>1, Zenon DEF HandsKept, Same, Hand, AtWriter, NoMsg
  <2>3. msg[f].kind \in Kinds
    BY <2>1, Zenon DEF IInv, Core, InHand
  <2>5. SendView(f)
    BY <1>0, <1>1, <2>1, <2>2, <2>3, Zenon DEF SendView
  <2>. QED  BY <1>0, <2>5, Zenon DEF View
<1>. QED  BY <1>2, <1>3, <1>4, Zenon DEF Flush

\* What the monitor does to them (DockerLog.Start and MinioLog.Start).
LEMMA MonitorView ==
    ASSUME IInv, Course, Monitor
    PROVE  View
<1>0. /\ msg \in [Senders -> Messages] /\ Flushers \subseteq Senders /\ "monitor" \in Senders
      /\ "monitor" \notin Flushers /\ Senders = {"monitor"} \cup Flushers
      /\ made \in [Kinds -> 0 .. MaxItems] /\ "log" \in Kinds
      /\ msgCache \in [Kinds -> Seq(1 .. MaxItems)]
  BY Zenon DEF IInv, TypeOK, Senders, Kinds
<1>1. UNCHANGED <<wire, fpc, broken>>
  BY Zenon DEF Monitor, Poll, Open, CopyEnd, MidLock, MidSend, UnlockedFlush, UnlockedTake,
         UnlockedSend, UnlockedEnd, Return, MinioLine, MinioSend, MinioEnd
<1>2. ASSUME \A q \in Senders : q # "monitor" => msg'[q] = msg[q]
      PROVE  HandsKept({"monitor"})
  BY <1>0, <1>1, <1>2, Zenon DEF HandsKept, Same, Hand
<1>3. CASE Poll \/ Open \/ CopyEnd \/ MidLock \/ UnlockedFlush \/ UnlockedEnd \/ Return \/ MinioEnd
  <2>1. UNCHANGED <<made, msgCache, wpc, wmsg>> /\ mpc \notin {"send", "direct"}
    BY <1>3, Zenon DEF Poll, Open, CopyEnd, MidLock, UnlockedFlush, UnlockedEnd, Return, MinioEnd
  <2>2. mpc' \notin {"send", "direct"}
    BY <1>3, Zenon DEF Poll, Open, CopyEnd, MidLock, UnlockedFlush, UnlockedEnd, Return, MinioEnd,
                writeMid, IInv, TypeOK
  <2>3. \A q \in Senders : q # "monitor" => msg'[q] = msg[q]
    BY <1>0, <1>3, Zenon DEF Poll, Open, CopyEnd, MidLock, UnlockedFlush, UnlockedEnd,
       Return, MinioEnd,
                      writeMid
  <2>4. Hand("monitor") = NoMsg /\ Hand("monitor")' = NoMsg /\ AtWriter' = AtWriter
    BY <1>0, <2>1, <2>2, Zenon DEF Hand, AtWriter, NoMsg
  <2>5. HandsKept({})
    BY <1>0, <1>2, <2>3, <2>4, Zenon DEF HandsKept, Same
  <2>6. IdleView
    BY <1>1, <2>1, <2>4, <2>5, Zenon DEF IdleView, Same
  <2>. QED  BY <2>6, Zenon DEF View
<1>4. CASE MidSend
  <2>1. /\ UNCHANGED <<made, msgCache>> /\ mpc = "midsend" /\ mpc' = ret
        /\ wpc = "select" /\ wpc' = "write" /\ wmsg' = msg["monitor"]
        /\ \A q \in Senders : q # "monitor" => msg'[q] = msg[q]
    BY <1>0, <1>4, Zenon DEF MidSend, Handover
  <2>2. mpc' \notin {"send", "direct"}
    BY <2>1, Zenon DEF IInv, TypeOK
  <2>3. Hand("monitor") = NoMsg /\ Hand("monitor")' = NoMsg
    BY <1>0, <2>1, <2>2, Zenon DEF Hand, NoMsg
  <2>4. AtWriter = NoMsg /\ AtWriter' \in {StatMsg, EndMsg}
    BY <2>1, Zenon DEF AtWriter, Course, MonMsg
  <2>5. HandsKept({}) /\ Same(AtWriter', AtWriter)
    BY <1>0, <1>2, <2>1, <2>3, <2>4, NoRecords, Zenon DEF HandsKept, Same
  <2>6. IdleView
    BY <1>1, <2>1, <2>5, Zenon DEF IdleView
  <2>. QED  BY <2>6, Zenon DEF View
<1>5. CASE UnlockedTake
  <2>1. PICK k \in Kinds : Take("monitor", k)
    BY <1>5, Zenon DEF UnlockedTake
  <2>2. /\ UNCHANGED <<made, msgCache, wpc, wmsg>> /\ mpc = "range" /\ mpc' = "send" /\ k \in Cached
        /\ msg'["monitor"] = Batch(k) /\ \A q \in Senders : q # "monitor" => msg'[q] = msg[q]
    BY <1>0, <1>5, <2>1, Zenon DEF UnlockedTake, Take
  <2>3. /\ Hand("monitor") = NoMsg /\ Hand("monitor")' = Batch(k) /\ AtWriter' = AtWriter
        /\ ~Early'
    BY <1>0, <2>2, Zenon DEF Hand, NoMsg, AtWriter, Early, Before
  <2>4. TakeView("monitor", k)
    BY <1>0, <1>1, <1>2, <2>2, <2>3, Zenon DEF TakeView, Same
  <2>. QED  BY <1>0, <2>4, Zenon DEF View
<1>6. CASE UnlockedSend
  <2>1. /\ UNCHANGED made /\ mpc = "send" /\ mpc' = "range"
        /\ wpc = "select" /\ wpc' = "write" /\ wmsg' = msg["monitor"]
        /\ \A q \in Senders : q # "monitor" => msg'[q] = msg[q]
        /\ msgCache' = [msgCache EXCEPT ![msg["monitor"].kind] = <<>>]
    BY <1>0, <1>6, Zenon DEF UnlockedSend, Handover, Delete
  <2>2. AtWriter = NoMsg /\ AtWriter' = Hand("monitor") /\ Hand("monitor")' = NoMsg
        /\ Hand("monitor") = msg["monitor"]
    BY <1>0, <2>1, Zenon DEF Hand, AtWriter, NoMsg
  <2>3. msg["monitor"].kind \in Kinds
    BY <2>1, Zenon DEF IInv, Core, InHand
  <2>4. SendView("monitor")
    BY <1>0, <1>1, <1>2, <2>1, <2>2, <2>3, Zenon DEF SendView
  <2>. QED  BY <1>0, <2>4, Zenon DEF View
<1>7. CASE MinioLine
  <2>1. /\ UNCHANGED <<msgCache, wpc, wmsg>> /\ mpc = "object" /\ mpc' = "direct"
        /\ \A q \in Senders : q # "monitor" => msg'[q] = msg[q]
    BY <1>0, <1>7, Zenon DEF MinioLine
  <2>2. AtWriter' = AtWriter /\ Hand("monitor") = NoMsg /\ Hand("monitor")' = msg'["monitor"]
    BY <1>0, <2>1, Zenon DEF Hand, AtWriter, NoMsg
  <2>3. Cached = {} /\ \A f \in Flushers : Hand(f) = NoMsg /\ Hand(f)' = NoMsg
    BY <1>0, <1>1, <2>1, Zenon DEF Course, MinioIdle, LiveSet, Live, Hand, NoMsg
  <2>4. CASE msg' = [msg EXCEPT !["monitor"] = StatMsg] /\ UNCHANGED made
    <3>1. Hand("monitor")' = StatMsg
      BY <1>0, <2>2, <2>4, Zenon
    <3>2. HandsKept({})
      BY <1>0, <1>2, <2>1, <2>2, <3>1, NoRecords, Zenon DEF HandsKept, Same
    <3>3. IdleView
      BY <1>1, <2>1, <2>2, <2>4, <3>2, Zenon DEF IdleView, Same
    <3>. QED  BY <3>3, Zenon DEF View
  <2>5. CASE /\ made["log"] < MaxItems /\ made' = [made EXCEPT !["log"] = @ + 1]
             /\ msg' = [msg EXCEPT !["monitor"] =
                          [kind |-> "log", items |-> <<made["log"] + 1>>]]
    <3>1. Hand("monitor")' = [kind |-> "log", items |-> <<made["log"] + 1>>]
      BY <1>0, <2>2, <2>5, Zenon
    <3>2. LineView
      BY <1>1, <2>1, <2>2, <2>3, <2>5, <3>1, Zenon DEF LineView, Same
    <3>. QED  BY <3>2, Zenon DEF View
  <2>. QED  BY <1>7, <2>4, <2>5, Zenon DEF MinioLine
<1>8. CASE MinioSend
  <2>1. /\ UNCHANGED <<made, msgCache>> /\ mpc = "direct"
        /\ wpc = "select" /\ wpc' = "write" /\ wmsg' = msg["monitor"]
        /\ \A q \in Senders : q # "monitor" => msg'[q] = msg[q]
    BY <1>0, <1>8, Zenon DEF MinioSend, Handover
  <2>2. mpc' \notin {"send", "direct"}
    BY <1>8, Zenon DEF MinioSend, Course, MinioRet
  <2>3. AtWriter = NoMsg /\ AtWriter' = Hand("monitor") /\ Hand("monitor")' = NoMsg
        /\ Hand("monitor") = msg["monitor"]
    BY <1>0, <2>1, <2>2, Zenon DEF Hand, AtWriter, NoMsg
  <2>4. CASE msg["monitor"] = StatMsg
    <3>1. HandsKept({}) /\ Same(AtWriter', AtWriter)
      BY <1>0, <1>2, <2>1, <2>3, <2>4, NoRecords, Zenon DEF HandsKept, Same
    <3>2. IdleView
      BY <1>1, <2>1, <2>3, <3>1, NoRecords, Zenon DEF IdleView
    <3>. QED  BY <3>2, Zenon DEF View
  <2>5. CASE msg["monitor"].kind = "log"
    <3>1. msgCache["log"] = <<>>
      BY <1>0, <2>1, Zenon DEF Course, MinioIdle, Cached
    <3>2. msgCache' = [msgCache EXCEPT !["log"] = <<>>]
      BY <1>0, <2>1, <3>1, Zenon
    <3>3. SendView("monitor")
      BY <1>0, <1>1, <1>2, <2>1, <2>2, <2>3, <2>5, <3>2, Zenon DEF SendView
    <3>. QED  BY <1>0, <3>3, Zenon DEF View
  <2>. QED  BY <2>1, <2>4, <2>5 DEF Course, MonMsg
<1>. QED  BY <1>3, <1>4, <1>5, <1>6, <1>7, <1>8, Zenon DEF Monitor

\* What write, the writer goroutine and the rest do to them.
LEMMA OtherView ==
    ASSUME IInv, Course,
           \/ WriteLog \/ (\E k \in Stats : WriteStat(k))
           \/ Writer \/ Reader \/ CloserFires \/ PeerLeaves \/ FatalError
    PROVE  View
<1>1. UNCHANGED <<mpc, fpc, msg>>
  BY Zenon DEF WriteLog, WriteStat, Writer, Reader, CloserFires, PeerLeaves, FatalError,
     WriterWrite,
         WriterClose, WriterExit, ReaderError, ReaderClose
<1>2. HandsKept({})
  BY <1>1, Zenon DEF HandsKept, Same, Hand
<1>3. ASSUME NEW k \in Kinds, write(k), k = "log" => mpc = "copy", mpc = "copy" \/ streaming,
             UNCHANGED <<wire, broken, wpc, wmsg>>
      PROVE  View
  <2>1. mpc # "direct" /\ \A f \in Flushers : Hand(f) = NoMsg
    BY <1>3, Zenon DEF write, IInv, Core, Locking, Hand, Course, MinioIdle
  <2>2. AtWriter' = AtWriter
    BY <1>3, Zenon DEF AtWriter, NoMsg
  <2>3. WriteView(k)
    BY <1>1, <1>2, <1>3, <2>1, <2>2, Zenon DEF WriteView, write, Same
  <2>. QED  BY <2>3, Zenon DEF View
<1>4. CASE WriteLog
  BY <1>3, <1>4, Zenon DEF WriteLog, Kinds
<1>5. CASE \E k \in Stats : WriteStat(k)
  <2>1. PICK k \in Stats : WriteStat(k)
    BY <1>5, Zenon
  <2>2. k \in Kinds /\ k # "log"
    BY Zenon DEF Kinds
  <2>. QED  BY <1>3, <2>1, <2>2, Zenon DEF WriteStat
<1>6. CASE WriterWrite
  <2>1. UNCHANGED <<msgCache, made>> /\ wpc = "write" /\ wpc' # "write"
    BY <1>6, Zenon DEF WriterWrite
  <2>2. AtWriter = wmsg /\ AtWriter' = NoMsg
    BY <2>1, Zenon DEF AtWriter, NoMsg
  <2>3. CASE broken' = TRUE /\ UNCHANGED wire
    BY <1>1, <1>2, <2>1, <2>2, <2>3, Zenon DEF FailView, View
  <2>4. CASE ~broken /\ UNCHANGED broken /\ wmsg.kind \in Kinds
             /\ wire' = [wire EXCEPT ![wmsg.kind] = @ \o wmsg.items]
    BY <1>1, <1>2, <2>1, <2>2, <2>4, Zenon DEF ShowView, View
  <2>5. CASE UNCHANGED <<broken, wire>> /\ wmsg.kind \notin Kinds
    <3>1. IdleView
      BY <1>1, <1>2, <2>1, <2>2, <2>5, NoRecords, Zenon DEF IdleView, Same
    <3>. QED  BY <3>1, Zenon DEF View
  <2>. QED  BY <1>6, <2>3, <2>4, <2>5, Zenon DEF WriterWrite
<1>7. CASE WriterClose \/ WriterExit \/ Reader \/ CloserFires \/ PeerLeaves \/ FatalError
  <2>1. UNCHANGED <<wire, msgCache, made, broken, wmsg>>
        /\ (wpc' = wpc \/ (wpc # "write" /\ wpc' # "write"))
    BY <1>7, Zenon DEF Reader, CloserFires, PeerLeaves, FatalError, WriterClose, WriterExit,
                ReaderError, ReaderClose
  <2>2. AtWriter' = AtWriter
    BY <2>1, Zenon DEF AtWriter, NoMsg
  <2>3. IdleView
    BY <1>1, <1>2, <2>1, <2>2, Zenon DEF IdleView, Same
  <2>. QED  BY <2>3, Zenon DEF View
<1>. QED  BY <1>4, <1>5, <1>6, <1>7, Zenon DEF Writer

\* Every step of the connection does one of these to the records.
LEMMA StepView ==
    ASSUME IInv, Course, [Next]_vars
    PROVE  View
<1>1. CASE UNCHANGED vars
  <2>1. UNCHANGED <<wire, msgCache, made, broken, wmsg, wpc, mpc, fpc, msg>>
    BY <1>1, Zenon DEF vars
  <2>2. IdleView
    BY <2>1, Zenon DEF IdleView, HandsKept, Same, Hand, AtWriter
  <2>. QED  BY <2>2, Zenon DEF View
<1>. QED  BY <1>1, FlushView, MonitorView, OtherView, Zenon DEF Next

\* Once the log has ended it is not followed again.
LEMMA EarlyStays ==
    ASSUME IInv, Course, [Next]_vars
    PROVE  Early' => Early
<1>1. CASE Monitor
  BY <1>1, Zenon DEF Monitor, Poll, Open, CopyEnd, MidLock, MidSend, UnlockedFlush, UnlockedTake,
              UnlockedSend, UnlockedEnd, Return, MinioLine, MinioSend, MinioEnd, Early, Before,
              writeMid, Course, MinioRet, MidRet, IInv, TypeOK
<1>2. CASE UNCHANGED vars
  BY <1>2, Zenon DEF vars, Early, Before
<1>3. CASE ~Monitor /\ Next
  BY <1>3, OthersLeaveMonitor, Zenon DEF Next, Course, Early, Before
<1>. QED  BY <1>1, <1>2, <1>3, Zenon

------------------------------------------------------------------------------
\* Records of one kind: in a message, written to the peer, with the writer, in
\* the hands of a sender, and in the cache.
Of(k, m) == IF m.kind = k THEN Range(m.items) ELSE {}
Written(k) == Range(wire[k])
OnWay(k) == Of(k, AtWriter)
Held(p, k) == Of(k, Hand(p))
InCache(k) == Range(msgCache[k])
Seen(k) == Written(k) \cup OnWay(k)

\* The elements of a sequence that grows by one.
LEMMA RangeAppend ==
    ASSUME NEW S, NEW s \in Seq(S), NEW x \in S
    PROVE  Range(Append(s, x)) = Range(s) \cup {x}
<1>1. \A i \in 1 .. Len(s) : Append(s, x)[i] = s[i]
  OBVIOUS
<1>2. DOMAIN Append(s, x) = (1 .. Len(s)) \cup {Len(s) + 1} /\ DOMAIN s = 1 .. Len(s)
  OBVIOUS
<1>. QED  BY <1>1, <1>2 DEF Range

\* The same of a concatenation.
LEMMA RangeConcat ==
    ASSUME NEW S, NEW s \in Seq(S), NEW t \in Seq(S)
    PROVE  Range(s \o t) = Range(s) \cup Range(t)
<1>1. /\ DOMAIN (s \o t) = 1 .. Len(s) + Len(t) /\ DOMAIN s = 1 .. Len(s)
      /\ DOMAIN t = 1 .. Len(t) /\ Len(s) \in Nat /\ Len(t) \in Nat
  OBVIOUS
<1>2. \A i \in 1 .. Len(s) : (s \o t)[i] = s[i]
  OBVIOUS
<1>3. \A i \in 1 .. Len(t) : (s \o t)[Len(s) + i] = t[i]
  OBVIOUS
<1>4. \A i \in 1 .. Len(s) + Len(t) :
         i \in 1 .. Len(s) \/ (i - Len(s) \in 1 .. Len(t) /\ i = Len(s) + (i - Len(s)))
  BY <1>1
<1>5. \A i \in 1 .. Len(t) : Len(s) + i \in 1 .. Len(s) + Len(t)
  BY <1>1
<1>6. \A i \in 1 .. Len(s) : i \in 1 .. Len(s) + Len(t)
  BY <1>1
<1>7. ASSUME NEW x \in Range(s \o t) PROVE x \in Range(s) \cup Range(t)
  <2>1. PICK i \in 1 .. Len(s) + Len(t) : x = (s \o t)[i]
    BY <1>1, <1>7, Zenon DEF Range
  <2>2. CASE i \in 1 .. Len(s)
    BY <1>1, <1>2, <2>1, <2>2, Zenon DEF Range
  <2>3. CASE i - Len(s) \in 1 .. Len(t) /\ i = Len(s) + (i - Len(s))
    BY <1>1, <1>3, <2>1, <2>3, Zenon DEF Range
  <2>. QED  BY <1>4, <2>2, <2>3, Zenon
<1>8. Range(s) \subseteq Range(s \o t)
  BY <1>1, <1>2, <1>6, Zenon DEF Range
<1>9. Range(t) \subseteq Range(s \o t)
  <2>1. SUFFICES ASSUME NEW i \in 1 .. Len(t) PROVE t[i] \in Range(s \o t)
    BY <1>1, Zenon DEF Range
  <2>2. Len(s) + i \in DOMAIN (s \o t) /\ (s \o t)[Len(s) + i] = t[i]
    BY <1>1, <1>3, <1>5, Zenon
  <2>. QED  BY <2>2, Zenon DEF Range
<1>. QED  BY <1>7, <1>8, <1>9, Zenon

\* Messages that carry the same records, and messages without any.
LEMMA SameRecords ==
    ASSUME NEW k \in Kinds, NEW m, NEW n, Same(m, n)
    PROVE  Of(k, m) = Of(k, n) /\ (m.kind = k <=> n.kind = k)
  BY Zenon DEF Same, Of

\* The hands that a step leaves alone.
LEMMA HandsStay ==
    ASSUME NEW k \in Kinds, NEW S, HandsKept(S)
    PROVE  \A p \in Senders \ S : /\ Held(p, k)' = Held(p, k)
                                  /\ Hand(p)'.kind = k => Hand(p).kind = k
  BY SameRecords, Zenon DEF HandsKept, Held

\* The marker of an empty hand carries none.
LEMMA NoneOf == \A k \in Kinds : Of(k, NoMsg) = {}
  BY NoRecords, Zenon DEF Of

\* The messages and the cache hold records.
LEMMA MessagesTyped ==
    ASSUME IInv
    PROVE  /\ AtWriter \in Messages /\ \A p \in Senders : Hand(p) \in Messages
           /\ wire \in [Kinds -> Seq(1 .. MaxItems)] /\ msgCache \in [Kinds -> Seq(1 .. MaxItems)]
           /\ made \in [Kinds -> 0 .. MaxItems] /\ MaxItems \in Nat
<1>1. TypeOK /\ NoMsg \in Messages /\ wmsg \in Messages /\ msg \in [Senders -> Messages]
  BY MessageType, Zenon DEF IInv, TypeOK
<1>2. AtWriter \in Messages /\ \A p \in Senders : Hand(p) \in Messages
  BY <1>1, Zenon DEF AtWriter, Hand
<1>. QED  BY <1>1, <1>2, Zenon DEF TypeOK

\* The records of a kind after a step.
KindIdle(k) ==
    /\ Written(k)' = Written(k) /\ OnWay(k)' = OnWay(k) /\ InCache(k)' = InCache(k)
    /\ \A p \in Senders : Held(p, k)' = Held(p, k)
    /\ \A p \in Senders : Hand(p)'.kind = k => Hand(p).kind = k
    /\ mpc = "direct" => mpc' = "direct" \/ Held("monitor", k)' = {}

KindWrite(k) ==
    /\ Written(k)' = Written(k) /\ OnWay(k)' = OnWay(k)
    /\ InCache(k)' = InCache(k) \cup {made[k] + 1}
    /\ \A p \in Senders : Held(p, k)' = Held(p, k)
    /\ \A f \in Flushers : Hand(f)'.kind # k
    /\ k = "log" => Hand("monitor")'.kind # k
    /\ mpc # "direct"

KindLine(k) ==
    /\ Written(k)' = Written(k) /\ OnWay(k)' = OnWay(k)
    /\ InCache(k) = {} /\ InCache(k)' = {}
    /\ Held("monitor", k)' = {made[k] + 1}
    /\ \A f \in Flushers : Hand(f)'.kind # k /\ Held(f, k)' = {}
    /\ mpc # "direct" /\ mpc' = "direct"

KindTake(p, k) ==
    /\ Written(k)' = Written(k) /\ OnWay(k)' = OnWay(k) /\ InCache(k)' = InCache(k)
    /\ Held(p, k) = {} /\ Held(p, k)' = InCache(k)
    /\ \A q \in Senders \ {p} : Held(q, k)' = Held(q, k)
    /\ \A q \in Senders \ {p} : Hand(q)'.kind = k => Hand(q).kind = k
    /\ p \in Flushers => \A f \in Flushers : Held(f, k) = {}
    /\ mpc # "direct"

KindSend(p, k) ==
    /\ Written(k)' = Written(k) /\ OnWay(k) = {} /\ OnWay(k)' = Held(p, k)
    /\ Hand(p).kind = k /\ InCache(k)' = {} /\ Held(p, k)' = {}
    /\ \A q \in Senders \ {p} : Held(q, k)' = Held(q, k)
    /\ mpc = "direct" => p = "monitor"

KindShow(k) ==
    /\ Written(k)' = Seen(k) /\ OnWay(k)' = {} /\ InCache(k)' = InCache(k)
    /\ \A p \in Senders : Held(p, k)' = Held(p, k)
    /\ \A p \in Senders : Hand(p)'.kind = k => Hand(p).kind = k
    /\ UNCHANGED mpc

KindStep(k) ==
    \/ made'[k] = made[k] /\ (KindIdle(k) \/ KindShow(k) \/ (\E p \in Senders : KindTake(p, k) \/ KindSend(p, k)))
    \/ made'[k] = made[k] + 1 /\ (KindWrite(k) \/ KindLine(k))

\* A successful WriteMessage, seen by one kind.
LEMMA KindShows ==
    ASSUME IInv, ShowView, NEW k \in Kinds
    PROVE  KindShow(k) /\ made'[k] = made[k]
<1>0. /\ AtWriter \in Messages /\ (\A p \in Senders : Hand(p) \in Messages)
      /\ wire \in [Kinds -> Seq(1 .. MaxItems)] /\ msgCache \in [Kinds -> Seq(1 .. MaxItems)]
      /\ "monitor" \in Senders /\ Flushers \subseteq Senders
  BY MessagesTyped, Zenon DEF Senders
<1>1. /\ InCache(k)' = InCache(k) /\ made'[k] = made[k] /\ ~broken /\ UNCHANGED mpc
      /\ \A p \in Senders : Held(p, k)' = Held(p, k)
      /\ \A p \in Senders : Hand(p)'.kind = k => Hand(p).kind = k
      /\ OnWay(k)' = {}
  BY <1>0, SameRecords, NoneOf, Zenon DEF ShowView, HandsKept, InCache, OnWay, Held
<1>2. Written(k)' = Seen(k)
  <2>1. CASE AtWriter.kind = k
    <3>1. wire'[k] = wire[k] \o AtWriter.items /\ OnWay(k) = Range(AtWriter.items)
      BY <1>0, <2>1, Zenon DEF ShowView, OnWay, Of
    <3>2. wire[k] \in Seq(1 .. MaxItems) /\ AtWriter.items \in Seq(1 .. MaxItems)
      BY <1>0, Zenon DEF Messages
    <3>. QED  BY <3>1, <3>2, RangeConcat DEF Written, Seen
  <2>2. CASE AtWriter.kind # k
    BY <1>0, <2>2, Zenon DEF ShowView, OnWay, Of, Written, Seen
  <2>. QED  BY <2>1, <2>2, Zenon
<1>. QED  BY <1>1, <1>2, Zenon DEF KindShow

\* Any step, seen by one kind, as long as no write fails.
LEMMA KindSteps ==
    ASSUME IInv, View, ~broken', NEW k \in Kinds
    PROVE  KindStep(k) /\ ~broken
<1>0. /\ AtWriter \in Messages /\ (\A p \in Senders : Hand(p) \in Messages)
      /\ wire \in [Kinds -> Seq(1 .. MaxItems)] /\ msgCache \in [Kinds -> Seq(1 .. MaxItems)]
      /\ made \in [Kinds -> 0 .. MaxItems] /\ MaxItems \in Nat
      /\ "monitor" \in Senders /\ Flushers \subseteq Senders /\ "monitor" \notin Flushers
      /\ Senders = {"monitor"} \cup Flushers
  BY MessagesTyped, Zenon DEF Senders
<1>1. CASE IdleView
  <2>1. KindIdle(k)
    <3>1. /\ \A p \in Senders : Held(p, k)' = Held(p, k)
          /\ \A p \in Senders : Hand(p)'.kind = k => Hand(p).kind = k
      BY <1>1, HandsStay DEF IdleView
    <3>2. OnWay(k)' = OnWay(k)
      BY <1>1, SameRecords, Zenon DEF IdleView, OnWay
    <3>3. mpc = "direct" => mpc' = "direct" \/ Held("monitor", k)' = {}
      BY <1>1, Zenon DEF IdleView, Held, Of
    <3>. QED  BY <1>1, <3>1, <3>2, <3>3, Zenon DEF IdleView, KindIdle, Written, InCache
  <2>. QED  BY <1>1, <2>1, Zenon DEF IdleView, KindStep
<1>2. ASSUME NEW j \in Kinds, WriteView(j) PROVE KindStep(k) /\ ~broken
  <2>1. /\ Written(k)' = Written(k) /\ OnWay(k)' = OnWay(k)
        /\ \A p \in Senders : Held(p, k)' = Held(p, k)
        /\ \A f \in Flushers : Hand(f)'.kind # k
        /\ \A p \in Senders : Hand(p)'.kind = k => Hand(p).kind = k
    <3>1. /\ \A p \in Senders : Held(p, k)' = Held(p, k)
          /\ \A p \in Senders : Hand(p)'.kind = k => Hand(p).kind = k
      BY <1>2, HandsStay DEF WriteView
    <3>2. Written(k)' = Written(k) /\ OnWay(k)' = OnWay(k)
      BY <1>2, SameRecords, Zenon DEF WriteView, Written, OnWay
    <3>3. \A f \in Flushers : Hand(f).kind # k
      BY <1>2, NoRecords, Zenon DEF WriteView
    <3>. QED  BY <1>0, <3>1, <3>2, <3>3, Zenon
  <2>2. CASE j = k
    <3>1. made'[k] = made[k] + 1 /\ made[k] + 1 \in 1 .. MaxItems
      BY <1>0, <1>2, <2>2 DEF WriteView
    <3>2. InCache(k)' = InCache(k) \cup {made[k] + 1}
      <4>1. msgCache'[k] = Append(msgCache[k], made[k] + 1) /\ msgCache[k] \in Seq(1 .. MaxItems)
        BY <1>0, <1>2, <2>2, Zenon DEF WriteView
      <4>. QED  BY <3>1, <4>1, RangeAppend DEF InCache
    <3>3. k = "log" => Hand("monitor")'.kind # k
      <4>1. k = "log" => Hand("monitor")' = NoMsg
        BY <1>2, <2>2, Zenon DEF WriteView, Hand
      <4>. QED  BY <4>1, NoRecords, Zenon
    <3>. QED  BY <1>2, <2>1, <3>1, <3>2, <3>3, Zenon DEF WriteView, KindWrite, KindStep
  <2>3. CASE j # k
    <3>1. made'[k] = made[k] /\ InCache(k)' = InCache(k)
      BY <1>0, <1>2, <2>3, Zenon DEF WriteView, InCache
    <3>. QED  BY <1>2, <2>1, <3>1, Zenon DEF WriteView, KindIdle, KindStep
  <2>. QED  BY <2>2, <2>3, Zenon
<1>3. CASE LineView
  <2>1. /\ Written(k)' = Written(k) /\ OnWay(k)' = OnWay(k) /\ InCache(k)' = {} /\ InCache(k) = {}
        /\ \A f \in Flushers : Hand(f)'.kind # k /\ Held(f, k)' = {} /\ Held(f, k) = {}
    BY <1>0, <1>3, SameRecords, NoRecords, NoneOf
    DEF LineView, Written, OnWay, InCache, Held, Cached, Range
  <2>2. CASE k = "log"
    <3>1. made'[k] = made[k] + 1 /\ Held("monitor", k)' = {made[k] + 1}
      <4>1. Range(<<made["log"] + 1>>) = {made["log"] + 1}
        BY DEF Range
      <4>2. Hand("monitor")' = [kind |-> "log", items |-> <<made["log"] + 1>>]
        BY <1>3, Zenon DEF LineView
      <4>3. Hand("monitor")'.kind = "log" /\ Hand("monitor")'.items = <<made["log"] + 1>>
        BY <4>2
      <4>4. made'["log"] = made["log"] + 1
        BY <1>0, <1>3, Zenon DEF LineView, Kinds
      <4>. QED  BY <2>2, <4>1, <4>3, <4>4, Zenon DEF Held, Of
    <3>. QED  BY <1>3, <2>1, <3>1, Zenon DEF LineView, KindLine, KindStep
  <2>3. CASE k # "log"
    <3>1. made'[k] = made[k] /\ Held("monitor", k)' = {} /\ Held("monitor", k) = {}
      BY <1>0, <1>3, <2>3, NoneOf DEF LineView, Held, Of
    <3>2. Hand("monitor")'.kind # k
      BY <1>3, <2>3 DEF LineView
    <3>. QED  BY <1>0, <1>3, <2>1, <3>1, <3>2, Zenon DEF LineView, KindIdle, KindStep
  <2>. QED  BY <2>2, <2>3, Zenon
<1>4. ASSUME NEW p \in Senders, NEW j \in Kinds, TakeView(p, j) PROVE KindStep(k) /\ ~broken
  <2>1. /\ Written(k)' = Written(k) /\ OnWay(k)' = OnWay(k) /\ InCache(k)' = InCache(k)
        /\ \A q \in Senders \ {p} : Held(q, k)' = Held(q, k)
        /\ \A q \in Senders \ {p} : Hand(q)'.kind = k => Hand(q).kind = k
        /\ Held(p, k) = {} /\ made'[k] = made[k] /\ ~broken /\ mpc # "direct"
        /\ p \in Flushers => \A f \in Flushers : Held(f, k) = {}
    <3>1. /\ \A q \in Senders \ {p} : Held(q, k)' = Held(q, k)
          /\ \A q \in Senders \ {p} : Hand(q)'.kind = k => Hand(q).kind = k
      BY <1>4, HandsStay, Zenon DEF TakeView
    <3>2. Written(k)' = Written(k) /\ OnWay(k)' = OnWay(k) /\ InCache(k)' = InCache(k)
      BY <1>4, SameRecords, Zenon DEF TakeView, Written, OnWay, InCache
    <3>3. Held(p, k) = {} /\ (p \in Flushers => \A f \in Flushers : Held(f, k) = {})
      BY <1>4, NoneOf, Zenon DEF TakeView, Held
    <3>. QED  BY <1>4, <3>1, <3>2, <3>3, Zenon DEF TakeView
  <2>2. CASE j = k
    <3>1. Held(p, k)' = InCache(k)
      BY <1>4, <2>2 DEF TakeView, Held, Of, Batch, InCache
    <3>. QED  BY <2>1, <3>1, Zenon DEF KindTake, KindStep
  <2>3. CASE j # k
    <3>1. Held(p, k)' = {} /\ Hand(p)'.kind # k
      BY <1>4, <2>3 DEF TakeView, Held, Of, Batch
    <3>. QED  BY <2>1, <3>1, Zenon DEF KindIdle, KindStep
  <2>. QED  BY <2>2, <2>3, Zenon
<1>5. ASSUME NEW p \in Senders, SendView(p) PROVE KindStep(k) /\ ~broken
  <2>1. /\ Written(k)' = Written(k) /\ OnWay(k) = {} /\ OnWay(k)' = Held(p, k) /\ Held(p, k)' = {}
        /\ \A q \in Senders \ {p} : Held(q, k)' = Held(q, k)
        /\ \A q \in Senders : Hand(q)'.kind = k => Hand(q).kind = k
        /\ made'[k] = made[k] /\ ~broken /\ (mpc = "direct" => p = "monitor")
    <3>1. /\ \A q \in Senders \ {p} : Held(q, k)' = Held(q, k)
          /\ \A q \in Senders \ {p} : Hand(q)'.kind = k => Hand(q).kind = k
      BY <1>5, HandsStay, Zenon DEF SendView
    <3>2. /\ Written(k)' = Written(k) /\ OnWay(k) = {} /\ OnWay(k)' = Held(p, k)
          /\ Held(p, k)' = {} /\ Hand(p)'.kind # k
      BY <1>5, NoneOf, NoRecords, Zenon DEF SendView, Written, OnWay, Held
    <3>. QED  BY <1>0, <1>5, <3>1, <3>2, Zenon DEF SendView
  <2>2. CASE Hand(p).kind = k
    <3>1. InCache(k)' = {}
      BY <1>0, <1>5, <2>2 DEF SendView, InCache, Range
    <3>. QED  BY <2>1, <2>2, <3>1, Zenon DEF KindSend, KindStep
  <2>3. CASE Hand(p).kind # k
    <3>1. InCache(k)' = InCache(k) /\ Held(p, k) = {}
      BY <1>0, <1>5, <2>3, Zenon DEF SendView, InCache, Held, Of
    <3>. QED  BY <2>1, <3>1, Zenon DEF KindIdle, KindStep
  <2>. QED  BY <2>2, <2>3, Zenon
<1>6. CASE ShowView
  BY <1>6, KindShows, Zenon DEF KindStep, ShowView
<1>7. CASE FailView
  BY <1>7, Zenon DEF FailView
<1>. QED  BY <1>1, <1>2, <1>3, <1>4, <1>5, <1>6, <1>7, Zenon DEF View
==============================================================================
