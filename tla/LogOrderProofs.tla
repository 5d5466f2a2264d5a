--------------------------- MODULE LogOrderProofs ----------------------------
(***************************************************************************)
(* LOG_END comes after the whole log, and the peer gets the records of each *)
(* kind in their order.                                                     *)
(***************************************************************************)
EXTENDS LogConnectionProofs

USE ConstantsAssumption DEF ConstantsAssumption, cacheVars, monVars, wireVars, peerVars

\* LOG_END and the log.

\* The connection is open and its writes succeed.
Up == ~closed /\ ~broken

\* Every record of the log is with the peer, the writer or the cache, or is the
\* line that MinioLog.Start is sending.
Covered ==
    Up => 1 .. made["log"] \subseteq
              Seen("log") \cup InCache("log")
                  \cup (IF mpc = "direct" THEN Held("monitor", "log") ELSE {})

\* Whoever sends records of the log sends all that the cache has of them.
LogHeld ==
    Up => \A p \in Senders : Hand(p).kind = "log" => InCache("log") \subseteq Held(p, "log")

\* The unlocked loop has a cached log before it.
MonLoop ==
    /\ mpc = "range" /\ "log" \in Cached => "log" \in todo["monitor"]
    /\ mpc = "send" /\ "log" \in Cached =>
          "log" \in todo["monitor"] \/ msg["monitor"].kind = "log"

\* The whole log is with the peer or the writer.
AllShipped == Up => 1 .. made["log"] \subseteq Seen("log")

\* Whoever has LOG_END in hand has the whole log behind it.
EndHeld ==
    mpc \in {"mid", "midsend"} /\ msg["monitor"].kind = "end" =>
        ret \in {"return", "done"} /\ AllShipped
EndSent ==
    /\ AtWriter.kind = "end" => AllShipped
    /\ AtWriter.kind = "end" \/ ended => mpc \in {"return", "done"}

EndInv == Covered /\ LogHeld /\ MonLoop /\ EndHeld /\ EndSent /\ EndAfterLog

\* A connection does not open again and a broken one does not heal.
LEMMA UpStays ==
    ASSUME IInv, View, [Next]_vars
    PROVE  Up' => Up
<1>1. closed => closed'
  <2>1. CASE UNCHANGED vars
    BY <2>1, Zenon DEF vars
  <2>2. CASE Monitor
    BY <2>2, Zenon DEF Monitor, Poll, Open, CopyEnd, MidLock, MidSend, UnlockedFlush, UnlockedTake,
                UnlockedSend, UnlockedEnd, Return, MinioLine, MinioSend, MinioEnd
  <2>3. ASSUME NEW f \in Flushers, Flush(f) PROVE closed => closed'
    BY <2>3, Zenon DEF Flush, FireTimer, FlushLock, FlushTake, FlushSend, FlushEnd
  <2>4. CASE Writer \/ Reader \/ CloserFires \/ PeerLeaves \/ FatalError \/ WriteLog
    BY <2>4, Zenon DEF Writer, WriterWrite, WriterClose, WriterExit, Reader, ReaderError,
       ReaderClose,
                CloserFires, PeerLeaves, FatalError, WriteLog, onClose
  <2>5. ASSUME NEW k \in Stats, WriteStat(k) PROVE closed => closed'
    BY <2>5, Zenon DEF WriteStat
  <2>. QED  BY <2>1, <2>2, <2>3, <2>4, <2>5, Zenon DEF Next
<1>2. broken => broken'
  <2>1. broken \in BOOLEAN
    BY Zenon DEF IInv, TypeOK
  <2>. QED  BY <2>1, Zenon DEF View, IdleView, LineView, ShowView, FailView, WriteView,
               TakeView, SendView
<1>. QED  BY <1>1, <1>2, Zenon DEF Up

\* No step loses a record of the log, whichever flush takes it (lines 105-111).
LEMMA CoveredStep ==
    ASSUME IInv, View, Up' => Up, Covered, LogHeld
    PROVE  Covered' /\ LogHeld'
<1>. SUFFICES ASSUME Up'
              PROVE  /\ 1 .. made'["log"] \subseteq
                           Seen("log")' \cup InCache("log")'
                             \cup (IF mpc' = "direct" THEN Held("monitor", "log")' ELSE {})
                     /\ \A p \in Senders : Hand(p)'.kind = "log" =>
                           InCache("log")' \subseteq Held(p, "log")'
  BY Zenon DEF Covered, LogHeld
<1> DEFINE k == "log"
<1>0. k \in Kinds /\ made[k] \in Nat /\ "monitor" \in Senders
  BY MessagesTyped DEF Kinds, Senders
<1>1. KindStep(k) /\ 1 .. made[k] + 1 = (1 .. made[k]) \cup {made[k] + 1}
  BY <1>0, KindSteps DEF Up
<1>2. /\ 1 .. made[k] \subseteq Seen(k) \cup InCache(k)
               \cup (IF mpc = "direct" THEN Held("monitor", k) ELSE {})
      /\ \A p \in Senders : Hand(p).kind = k => InCache(k) \subseteq Held(p, k)
  BY Zenon DEF Covered, LogHeld
<1>. HIDE DEF k
<1> DEFINE Goal == /\ 1 .. made'[k] \subseteq
                           Seen(k)' \cup InCache(k)'
                             \cup (IF mpc' = "direct" THEN Held("monitor", k)' ELSE {})
                   /\ \A p \in Senders : Hand(p)'.kind = k => InCache(k)' \subseteq Held(p, k)'
<1>3. ASSUME made'[k] = made[k] /\ KindIdle(k) PROVE Goal
  <2>1. Seen(k)' = Seen(k)
    BY <1>3, Zenon DEF KindIdle, Seen
  <2>2. mpc = "direct" => mpc' = "direct" \/ Held("monitor", k) = {}
    BY <1>0, <1>3, Zenon DEF KindIdle
  <2>. QED  BY <1>0, <1>2, <1>3, <2>1, <2>2, Zenon DEF KindIdle
<1>4. ASSUME made'[k] = made[k] /\ KindShow(k) PROVE Goal
  BY <1>0, <1>2, <1>4, Zenon DEF KindShow, Seen
<1>5. ASSUME NEW p \in Senders, made'[k] = made[k] /\ KindTake(p, k) PROVE Goal
  <2>1. Seen(k)' = Seen(k)
    BY <1>5, Zenon DEF KindTake, Seen
  <2>. QED  BY <1>0, <1>2, <1>5, <2>1, ZenonT(30) DEF KindTake
<1>6. ASSUME NEW p \in Senders, made'[k] = made[k] /\ KindSend(p, k) PROVE Goal
  <2>1. Seen(k)' = Seen(k) \cup Held(p, k) /\ InCache(k)' = {} /\ InCache(k) \subseteq Held(p, k)
    BY <1>2, <1>6, Zenon DEF KindSend, Seen
  <2>2. mpc = "direct" => p = "monitor"
    BY <1>6, Zenon DEF KindSend
  <2>. QED  BY <1>2, <1>6, <2>1, <2>2, Zenon
<1>7. ASSUME made'[k] = made[k] + 1 /\ KindWrite(k) PROVE Goal
  <2>1. Seen(k)' = Seen(k) /\ InCache(k)' = InCache(k) \cup {made[k] + 1} /\ mpc # "direct"
    BY <1>7, Zenon DEF KindWrite, Seen
  <2>2. \A p \in Senders : Hand(p)'.kind # k
    BY <1>7, Zenon DEF KindWrite, Senders, k
  <2>. QED  BY <1>1, <1>2, <1>7, <2>1, <2>2, Zenon
<1>8. ASSUME made'[k] = made[k] + 1 /\ KindLine(k) PROVE Goal
  <2>1. Seen(k)' = Seen(k) /\ InCache(k) = {} /\ InCache(k)' = {} /\ mpc # "direct"
        /\ mpc' = "direct" /\ Held("monitor", k)' = {made[k] + 1}
    BY <1>8, Zenon DEF KindLine, Seen
  <2>. QED  BY <1>1, <1>2, <1>8, <2>1, Zenon
<1>9. Goal
  BY <1>1, <1>3, <1>4, <1>5, <1>6, <1>7, <1>8, Zenon DEF KindStep
<1>. QED  BY <1>9, Zenon DEF k

\* What is shipped stays shipped.
LEMMA ShippedStep ==
    ASSUME IInv, View, Up' => Up, AllShipped, made'["log"] = made["log"]
    PROVE  AllShipped'
<1>. SUFFICES ASSUME Up' PROVE 1 .. made["log"] \subseteq Seen("log")'
  BY Zenon DEF AllShipped
<1>1. KindStep("log") /\ "log" \in Kinds
  BY KindSteps, Zenon DEF Up, Kinds
<1>2. Seen("log") \subseteq Seen("log")'
  BY <1>1, Zenon DEF KindStep, KindIdle, KindShow, KindTake, KindSend, KindWrite, KindLine, Seen
<1>. QED  BY <1>2, Zenon DEF AllShipped

\* A step that adds to the log, and what the peer has of it.
LEMMA LogGrows ==
    ASSUME IInv, View
    PROVE  /\ made'["log"] # made["log"] => mpc \in {"copy", "object"}
           /\ Written("log") \subseteq Written("log")'
<1>0. /\ "log" \in Kinds /\ made \in [Kinds -> 0 .. MaxItems] /\ AtWriter \in Messages
      /\ wire \in [Kinds -> Seq(1 .. MaxItems)]
  BY MessagesTyped, Zenon DEF Kinds
<1>1. CASE ShowView
  BY <1>0, <1>1, KindShows DEF KindShow, Seen, ShowView
<1>2. CASE LineView
  BY <1>2, Zenon DEF LineView, Written
<1>3. ASSUME NEW k \in Kinds, WriteView(k)
      PROVE  /\ made'["log"] # made["log"] => mpc = "copy"
             /\ Written("log") \subseteq Written("log")'
  BY <1>0, <1>3, Zenon DEF WriteView, Written
<1>4. CASE IdleView \/ FailView \/ (\E p \in Senders, k \in Kinds : TakeView(p, k))
           \/ (\E p \in Senders : SendView(p))
  BY <1>4, Zenon DEF IdleView, FailView, TakeView, SendView, Written
<1>. QED  BY <1>1, <1>2, <1>3, <1>4, Zenon DEF View

\* No callback can take the log from the loop without deleting it (line 108).
LEMMA MonLoopStep ==
    ASSUME IInv, Course, MonLoop, [Next]_vars
    PROVE  MonLoop'
<1>0. /\ todo \in [Senders -> SUBSET Kinds] /\ msg \in [Senders -> Messages]
      /\ msgCache \in [Kinds -> Seq(1 .. MaxItems)] /\ "log" \in Kinds /\ "log" \notin Stats
      /\ "monitor" \in Senders /\ "monitor" \notin Flushers /\ Flushers \subseteq Senders
      /\ ret \in {"poll", "open", "flush", "return", "object", "done"}
  BY Zenon DEF IInv, TypeOK, Kinds, Senders
<1>k. ASSUME UNCHANGED mpc, msg'["monitor"] = msg["monitor"], todo'["monitor"] = todo["monitor"],
             mpc \in {"range", "send"} => msgCache'["log"] = msgCache["log"]
      PROVE  MonLoop'
  BY <1>0, <1>k, Zenon DEF MonLoop, Cached
<1>d. ASSUME NEW k \in Kinds, Delete(k), UNCHANGED mpc, msg'["monitor"] = msg["monitor"]
      PROVE  MonLoop'
  <2>1. /\ "log" \in Cached' => "log" \in Cached /\ k # "log"
        /\ todo'["monitor"] = todo["monitor"] \ {k}
    BY <1>0, <1>d, Zenon DEF Delete, Cached
  <2>. QED  BY <1>d, <2>1, Zenon DEF MonLoop
<1>1. ASSUME NEW f \in Flushers, Flush(f) PROVE MonLoop'
  <2>1. CASE FireTimer(f) \/ FlushLock(f) \/ FlushTake(f) \/ FlushEnd(f)
    <3>1. UNCHANGED <<mpc, msgCache>> /\ msg'["monitor"] = msg["monitor"]
          /\ todo'["monitor"] = todo["monitor"]
      BY <1>0, <2>1, Zenon DEF FireTimer, FlushLock, FlushTake, FlushEnd, Take
    <3>. QED  BY <1>k, <3>1, Zenon
  <2>2. CASE FlushSend(f)
    <3>1. msg[f].kind \in Kinds
      BY <2>2, Zenon DEF FlushSend, IInv, Core, InHand
    <3>2. Delete(msg[f].kind) /\ UNCHANGED mpc /\ msg'["monitor"] = msg["monitor"]
      BY <1>0, <2>2, Zenon DEF FlushSend, Handover
    <3>. QED  BY <1>d, <3>1, <3>2, Zenon
  <2>. QED  BY <1>1, <2>1, <2>2, Zenon DEF Flush
<1>2. CASE WriteLog
  BY <1>0, <1>2, Zenon DEF WriteLog, MonLoop
<1>3. ASSUME NEW k \in Stats, WriteStat(k) PROVE MonLoop'
  <2>1. UNCHANGED <<mpc, msg, todo>> /\ msgCache'["log"] = msgCache["log"]
    BY <1>0, <1>3, Zenon DEF WriteStat, write
  <2>. QED  BY <1>k, <2>1, Zenon
<1>4. CASE Writer \/ Reader \/ CloserFires \/ PeerLeaves \/ FatalError \/ UNCHANGED vars
  <2>1. UNCHANGED <<mpc, msg, todo, msgCache>>
    BY <1>4, Zenon DEF Writer, WriterWrite, WriterClose, WriterExit, Reader, ReaderError,
       ReaderClose,
                CloserFires, PeerLeaves, FatalError, vars
  <2>. QED  BY <1>k, <2>1, Zenon
<1>5. CASE UnlockedFlush
  BY <1>0, <1>5, Zenon DEF UnlockedFlush, writeMid, MonLoop, Cached
<1>6. CASE UnlockedTake
  <2>1. PICK k \in Kinds : Take("monitor", k)
    BY <1>6, Zenon DEF UnlockedTake
  <2>2. /\ UNCHANGED msgCache /\ mpc = "range" /\ mpc' = "send"
        /\ msg'["monitor"] = Batch(k) /\ todo'["monitor"] = todo["monitor"] \ {k}
    BY <1>0, <1>6, <2>1, Zenon DEF UnlockedTake, Take
  <2>3. msg'["monitor"].kind = k /\ Cached' = Cached
    BY <2>2 DEF Batch, Cached
  <2>. QED  BY <2>2, <2>3, Zenon DEF MonLoop
<1>7. CASE UnlockedSend
  <2>1. /\ mpc = "send" /\ mpc' = "range" /\ msg["monitor"].kind \in Kinds
        /\ Delete(msg["monitor"].kind)
    BY <1>7, Zenon DEF UnlockedSend, IInv, Core, InHand
  <2>2. /\ "log" \in Cached' => "log" \in Cached /\ msg["monitor"].kind # "log"
        /\ todo'["monitor"] = todo["monitor"] \ {msg["monitor"].kind}
    BY <1>0, <2>1, Zenon DEF Delete, Cached
  <2>. QED  BY <2>1, <2>2, Zenon DEF MonLoop
<1>8. CASE \/ Poll \/ Open \/ CopyEnd \/ MidLock \/ MidSend \/ UnlockedEnd \/ Return
           \/ MinioLine \/ MinioSend \/ MinioEnd
  <2>1. mpc' \notin {"range", "send"}
    BY <1>0, <1>8, Zenon DEF Poll, Open, CopyEnd, MidLock, MidSend, UnlockedEnd, Return, MinioLine,
                      MinioSend, MinioEnd, writeMid
  <2>. QED  BY <2>1, Zenon DEF MonLoop
<1>. QED  BY <1>1, <1>2, <1>3, <1>4, <1>5, <1>6, <1>7, <1>8, Zenon DEF Next, Monitor

\* How LOG_END travels: from writeMid to the writer, from the writer to the peer.
LEMMA EndFlow ==
    ASSUME IInv, Course, [Next]_vars
    PROVE  /\ mpc \in {"return", "done"} => mpc' \in {"return", "done"}
           /\ AtWriter'.kind = "end" =>
                \/ AtWriter.kind = "end"
                \/ mpc = "midsend" /\ msg["monitor"].kind = "end" /\ mpc' = ret
           /\ ended' => ended \/ (AtWriter.kind = "end" /\ Up)
<1>0. /\ msg \in [Senders -> Messages] /\ "end" \notin Kinds /\ "monitor" \in Senders
      /\ wmsg \in Messages /\ NoMsg.kind # "end" /\ StatMsg.kind # "end"
  BY Zenon DEF IInv, TypeOK, Kinds, Senders, NoMsg, StatMsg
<1>k. ASSUME UNCHANGED <<wpc, wmsg, ended>>, mpc' = mpc \/ mpc \notin {"return", "done"} \/ mpc' = "done"
      PROVE  /\ mpc \in {"return", "done"} => mpc' \in {"return", "done"}
             /\ AtWriter'.kind = "end" => AtWriter.kind = "end"
             /\ ended' => ended
  BY <1>k, Zenon DEF AtWriter
<1>h. ASSUME NEW p \in Senders, Handover(p), UNCHANGED ended
      PROVE  /\ AtWriter'.kind = "end" => msg[p].kind = "end"
             /\ ended' => ended
  BY <1>0, <1>h, Zenon DEF AtWriter, Handover
<1>1. CASE UNCHANGED vars
  BY <1>k, <1>1, Zenon DEF vars
<1>2. ASSUME NEW f \in Flushers, Flush(f)
      PROVE  UNCHANGED mpc /\ (AtWriter'.kind = "end" => AtWriter.kind = "end") /\ (ended' => ended)
  <2>1. CASE FireTimer(f) \/ FlushLock(f) \/ FlushTake(f) \/ FlushEnd(f)
    <3>1. UNCHANGED <<wpc, wmsg, ended, mpc>>
      BY <2>1, Zenon DEF FireTimer, FlushLock, FlushTake, FlushEnd
    <3>. QED  BY <1>k, <3>1, Zenon
  <2>2. CASE FlushSend(f)
    <3>1. msg[f].kind \in Kinds /\ Handover(f) /\ UNCHANGED <<ended, mpc>> /\ f \in Senders
      BY <2>2, Zenon DEF FlushSend, IInv, Core, InHand, Senders
    <3>. QED  BY <1>0, <1>h, <3>1, Zenon
  <2>. QED  BY <1>2, <2>1, <2>2, Zenon DEF Flush
<1>3. CASE Reader \/ CloserFires \/ PeerLeaves \/ FatalError \/ WriteLog \/ \E k \in Stats : WriteStat(k)
  <2>1. UNCHANGED <<wpc, wmsg, ended, mpc>>
    BY <1>3, Zenon DEF Reader, ReaderError, ReaderClose, CloserFires, PeerLeaves,
       FatalError, WriteLog, WriteStat
  <2>. QED  BY <1>k, <2>1, Zenon
<1>4. CASE Writer
  <2>1. UNCHANGED mpc /\ AtWriter' = NoMsg
    BY <1>4, Zenon DEF Writer, WriterWrite, WriterClose, WriterExit, AtWriter
  <2>2. ended' => ended \/ (AtWriter.kind = "end" /\ Up)
    BY <1>4, Zenon DEF Writer, WriterWrite, WriterClose, WriterExit, AtWriter, Up
  <2>. QED  BY <1>0, <2>1, <2>2, Zenon
<1>5. CASE \/ Poll \/ Open \/ CopyEnd \/ MidLock \/ UnlockedFlush \/ UnlockedTake \/ UnlockedEnd
           \/ Return \/ MinioLine \/ MinioEnd
  <2>1. UNCHANGED <<wpc, wmsg, ended>> /\ (mpc \notin {"return", "done"} \/ mpc' = "done")
    BY <1>5, Zenon DEF Poll, Open, CopyEnd, MidLock, UnlockedFlush, UnlockedTake,
       UnlockedEnd, Return,
                MinioLine, MinioEnd
  <2>. QED  BY <1>k, <2>1, Zenon
<1>6. CASE MidSend
  <2>1. mpc = "midsend" /\ mpc' = ret /\ Handover("monitor") /\ UNCHANGED ended
    BY <1>6, Zenon DEF MidSend
  <2>. QED  BY <1>0, <1>h, <2>1, Zenon
<1>7. CASE UnlockedSend
  <2>1. mpc = "send" /\ msg["monitor"].kind \in Kinds /\ Handover("monitor") /\ UNCHANGED ended
    BY <1>7, Zenon DEF UnlockedSend, IInv, Core, InHand
  <2>. QED  BY <1>0, <1>h, <2>1, Zenon
<1>8. CASE MinioSend
  <2>1. mpc = "direct" /\ Handover("monitor") /\ UNCHANGED ended
    BY <1>8, Zenon DEF MinioSend
  <2>2. msg["monitor"].kind # "end"
    BY <1>0, <2>1 DEF Course, MonMsg, StatMsg
  <2>. QED  BY <1>0, <1>h, <2>1, <2>2, Zenon
<1>. QED  BY <1>1, <1>2, <1>3, <1>4, <1>5, <1>6, <1>7, <1>8, Zenon DEF Next, Monitor

\* writeMid gets LOG_END only with the whole log behind it (lines 245-250 of
\* DockerLog.go).
LEMMA EndHeldStep ==
    ASSUME IInv, Course, View, Up' => Up, Covered, MonLoop, EndHeld, [Next]_vars
    PROVE  EndHeld'
<1>0. /\ msg \in [Senders -> Messages] /\ "monitor" \in Senders /\ "log" \in Kinds
      /\ StatMsg.kind # "end" /\ made["log"] \in Nat
      /\ ret \in {"poll", "open", "flush", "return", "object", "done"}
  BY MessagesTyped DEF IInv, TypeOK, Kinds, Senders, StatMsg
<1>k. ASSUME UNCHANGED ret, msg'["monitor"] = msg["monitor"], made'["log"] = made["log"],
             mpc' \in {"mid", "midsend"} => mpc \in {"mid", "midsend"}
      PROVE  EndHeld'
  BY <1>k, ShippedStep, Zenon DEF EndHeld
<1>1. CASE UNCHANGED vars
  BY <1>k, <1>1, Zenon DEF vars
<1>2. CASE \/ WriteLog \/ (\E k \in Stats : WriteStat(k)) \/ (\E f \in Flushers : Flush(f))
           \/ Writer \/ Reader \/ CloserFires \/ PeerLeaves \/ FatalError
  <2>1. /\ UNCHANGED <<mpc, ret>> /\ msg'["monitor"] = msg["monitor"]
        /\ mpc # "copy" => made'["log"] = made["log"]
    BY <1>2, OthersLeaveMonitor, Zenon DEF Course
  <2>. QED  BY <1>k, <2>1, Zenon DEF EndHeld
<1>3. CASE Poll
  <2>1. made["log"] = 0 /\ UNCHANGED made
    BY <1>3, Zenon DEF Poll, Course, Before
  <2>2. AllShipped'
    BY <2>1 DEF AllShipped
  <2>3. mpc' \in {"mid", "midsend"} => ret' = "done" \/ msg'["monitor"] = StatMsg
    BY <1>0, <1>3, Zenon DEF Poll, writeMid
  <2>. QED  BY <1>0, <2>2, <2>3, Zenon DEF EndHeld
<1>4. CASE MidLock
  BY <1>0, <1>k, <1>4, Zenon DEF MidLock, EndHeld
<1>5. CASE UnlockedFlush
  <2>1. CASE closed
    <3>1. ret' = "return" /\ AllShipped'
      BY <1>5, <2>1, Zenon DEF UnlockedFlush, writeMid, AllShipped, Up
    <3>. QED  BY <3>1, Zenon DEF EndHeld
  <2>2. CASE ~closed
    BY <1>5, <2>2, Zenon DEF UnlockedFlush, EndHeld
  <2>. QED  BY <2>1, <2>2, Zenon
<1>6. CASE UnlockedEnd
  <2>1. mpc = "range" /\ "log" \notin Cached
    BY <1>6, Zenon DEF UnlockedEnd, Exhausted, MonLoop
  <2>2. InCache("log") = {}
    BY <1>0, <2>1 DEF InCache, Cached, Range
  <2>3. AllShipped
    BY <2>1, <2>2, Zenon DEF Covered, AllShipped
  <2>4. ret' = "return" /\ UNCHANGED made
    BY <1>6, Zenon DEF UnlockedEnd, writeMid
  <2>. QED  BY <2>3, <2>4, ShippedStep, Zenon DEF EndHeld
<1>7. CASE CopyEnd
  BY <1>0, <1>7, Zenon DEF CopyEnd, writeMid, EndHeld
<1>8. CASE \/ Open \/ MidSend \/ UnlockedTake \/ UnlockedSend \/ Return
           \/ MinioLine \/ MinioSend \/ MinioEnd
  <2>1. mpc' \notin {"mid", "midsend"}
    BY <1>0, <1>8, Zenon DEF Open, MidSend, UnlockedTake, UnlockedSend, Return, MinioLine,
       MinioSend, MinioEnd
  <2>. QED  BY <2>1, Zenon DEF EndHeld
<1>. QED  BY <1>1, <1>2, <1>3, <1>4, <1>5, <1>6, <1>7, <1>8, Zenon DEF Next, Monitor

\* Each step keeps LOG_END behind the log.
LEMMA EndStep ==
    ASSUME IInv, Course, EndInv, [Next]_vars
    PROVE  EndInv'
<1>0. View /\ (Up' => Up)
  BY StepView, UpStays, Zenon
<1>1. Covered' /\ LogHeld'
  BY <1>0, CoveredStep, Zenon DEF EndInv
<1>2. MonLoop' /\ EndHeld'
  BY <1>0, MonLoopStep, EndHeldStep, Zenon DEF EndInv
<1>3. /\ mpc \in {"return", "done"} => mpc' \in {"return", "done"}
      /\ AtWriter'.kind = "end" =>
            \/ AtWriter.kind = "end"
            \/ mpc = "midsend" /\ msg["monitor"].kind = "end" /\ mpc' = ret
      /\ ended' => ended \/ (AtWriter.kind = "end" /\ Up)
  BY EndFlow, Zenon
<1>4. /\ made'["log"] # made["log"] => mpc \in {"copy", "object"}
      /\ Written("log") \subseteq Written("log")'
  BY <1>0, LogGrows, Zenon
<1>5. EndSent'
  <2>1. AtWriter'.kind = "end" => AllShipped' /\ mpc' \in {"return", "done"}
    <3>1. CASE AtWriter.kind = "end"
      BY <1>0, <1>3, <1>4, <3>1, ShippedStep, Zenon DEF EndInv, EndSent
    <3>2. CASE mpc = "midsend" /\ msg["monitor"].kind = "end" /\ mpc' = ret
      BY <1>0, <1>4, <3>2, ShippedStep, Zenon DEF EndInv, EndHeld
    <3>. QED  BY <1>3, <3>1, <3>2, Zenon
  <2>2. ended' => mpc' \in {"return", "done"}
    BY <1>3, Zenon DEF EndInv, EndSent
  <2>. QED  BY <2>1, <2>2, Zenon DEF EndSent
<1>6. EndAfterLog'
  <2>1. SUFFICES ASSUME ended' PROVE 1 .. made'["log"] \subseteq Written("log")'
    BY Zenon DEF EndAfterLog, Written
  <2>2. made'["log"] = made["log"]
    BY <1>3, <1>4, <2>1, Zenon DEF EndInv, EndSent
  <2>3. CASE ended
    BY <1>4, <2>2, <2>3, Zenon DEF EndInv, EndAfterLog, Written
  <2>4. CASE AtWriter.kind = "end" /\ Up
    <3>1. OnWay("log") = {}
      BY <2>4, Zenon DEF OnWay, Of
    <3>. QED  BY <1>4, <2>2, <2>4, <3>1, Zenon DEF EndInv, EndSent, AllShipped, Seen
  <2>. QED  BY <1>3, <2>1, <2>3, <2>4, Zenon
<1>. QED  BY <1>1, <1>2, <1>5, <1>6, Zenon DEF EndInv

\* A fresh connection has neither.
LEMMA EndInit == Init => EndInv
<1>. SUFFICES ASSUME Init PROVE EndInv
  BY Zenon
<1>1. AtWriter = NoMsg /\ made["log"] = 0 /\ msgCache["log"] = <<>> /\ ~ended /\ Range(<<>>) = {}
  BY DEF Init, AtWriter, Kinds, Range
<1>2. mpc \in {"object", "poll", "open"} /\ 1 .. made["log"] = {} /\ InCache("log") = {}
  BY <1>1 DEF Init, InCache
<1>. QED
  BY <1>1, <1>2, NoRecords, Zenon
  DEF EndInv, Covered, LogHeld, MonLoop, EndHeld, EndSent, EndAfterLog, AllShipped, NoMsg

\* LOG_END reaches the peer only after every record of the log, for any number
\* of records, callbacks and kinds (lines 245-250 of DockerLog.go).
THEOREM EndComesLast == Spec => []EndAfterLog
<1>1. IInv /\ Course /\ EndInv /\ [Next]_vars => EndInv'
  BY EndStep, Zenon
<1>2. EndInv => EndAfterLog
  BY Zenon DEF EndInv
<1>. QED  BY <1>1, <1>2, EndInit, Invariance, CourseInvariant, PTL DEF Spec

------------------------------------------------------------------------------
\* The order of the records.

\* The records T can follow S: what is new in them is newer than all of S.
Follows(T, S) == \A x \in T, y \in S : x < y => x \in S

\* Only records that were produced are around.
Bounded(k) ==
    /\ Written(k) \cup OnWay(k) \cup InCache(k) \subseteq 1 .. made[k]
    /\ \A p \in Senders : Held(p, k) \subseteq 1 .. made[k]

\* The records of kind k are in order wherever they are: what is on its way
\* follows what was written, the cache is newer than both, and each message in
\* hand can be the next one, whichever goroutine is first at the channel.
OrderOf(k) ==
    /\ Follows(OnWay(k), Written(k))
    /\ \A x \in Seen(k), y \in InCache(k) : x < y
    /\ \A p \in Senders : Follows(Held(p, k), Seen(k)) /\ Follows(InCache(k), Held(p, k))
    /\ \A p, q \in Senders : p # q => Follows(Held(p, k), Seen(k) \cup Held(q, k))
    /\ \/ mpc = "direct"
       \/ Held("monitor", k) \subseteq InCache(k) \cup Seen(k)
    /\ \A f \in Flushers : Hand(f).kind = k => InCache(k) \in {{}, Held(f, k)}

\* Strictly increasing.
Rising(s) == \A i, j \in DOMAIN s : i < j => s[i] < s[j]

\* What is new at a place of s is greater than all that is before it.
Fresh(s) ==
    \A j \in DOMAIN s :
        LET earlier == {s[i] : i \in 1 .. j - 1}
        IN  s[j] \notin earlier => \A e \in earlier : e < s[j]

\* The places of a concatenation.
LEMMA ConcatAt ==
    ASSUME NEW S, NEW s \in Seq(S), NEW t \in Seq(S)
    PROVE  /\ Len(s) \in Nat /\ Len(t) \in Nat /\ DOMAIN s = 1 .. Len(s) /\ DOMAIN t = 1 .. Len(t)
           /\ DOMAIN (s \o t) = 1 .. Len(s) + Len(t)
           /\ \A i \in 1 .. Len(s) : (s \o t)[i] = s[i]
           /\ \A i \in 1 .. Len(t) : (s \o t)[Len(s) + i] = t[i]
           /\ \A i \in 1 .. Len(s) + Len(t) :
                 i \in 1 .. Len(s) \/ \E j \in 1 .. Len(t) : i = Len(s) + j
<1>1. /\ Len(s) \in Nat /\ Len(t) \in Nat /\ DOMAIN s = 1 .. Len(s) /\ DOMAIN t = 1 .. Len(t)
      /\ DOMAIN (s \o t) = 1 .. Len(s) + Len(t)
  OBVIOUS
<1>2. \A i \in 1 .. Len(s) : (s \o t)[i] = s[i]
  OBVIOUS
<1>3. \A i \in 1 .. Len(t) : (s \o t)[Len(s) + i] = t[i]
  OBVIOUS
<1>4. ASSUME NEW i \in 1 .. Len(s) + Len(t), i \notin 1 .. Len(s)
      PROVE  \E j \in 1 .. Len(t) : i = Len(s) + j
  <2>1. i - Len(s) \in 1 .. Len(t) /\ i = Len(s) + (i - Len(s))
    BY <1>1, <1>4
  <2>. QED  BY <2>1, Zenon
<1>. QED  BY <1>1, <1>2, <1>3, <1>4, Zenon

\* Appending a message that follows what was written keeps the order.
LEMMA FreshConcat ==
    ASSUME NEW n \in Nat, NEW s \in Seq(1 .. n), NEW t \in Seq(1 .. n), Fresh(s), Rising(t),
           Follows(Range(t), Range(s))
    PROVE  Fresh(s \o t)
<1>0. /\ Len(s) \in Nat /\ Len(t) \in Nat /\ DOMAIN s = 1 .. Len(s) /\ DOMAIN t = 1 .. Len(t)
      /\ DOMAIN (s \o t) = 1 .. Len(s) + Len(t)
      /\ \A i \in 1 .. Len(s) : (s \o t)[i] = s[i]
      /\ \A i \in 1 .. Len(t) : (s \o t)[Len(s) + i] = t[i]
      /\ \A i \in 1 .. Len(s) + Len(t) :
                 i \in 1 .. Len(s) \/ \E j \in 1 .. Len(t) : i = Len(s) + j
  BY ConcatAt
<1>t. (\A i \in 1 .. Len(s) : s[i] \in 1 .. n) /\ (\A i \in 1 .. Len(t) : t[i] \in 1 .. n)
  BY <1>0
<1>1. SUFFICES ASSUME NEW j \in 1 .. Len(s) + Len(t), NEW i \in 1 .. j - 1,
                      \A h \in 1 .. j - 1 : (s \o t)[j] # (s \o t)[h]
               PROVE  (s \o t)[i] < (s \o t)[j]
  BY <1>0, Zenon DEF Fresh
<1>2. CASE j \in 1 .. Len(s)
  <2>1. (\A h \in 1 .. j - 1 : h \in 1 .. Len(s)) /\ 1 .. j - 1 \subseteq 1 .. Len(s)
    BY <1>0, <1>2
  <2>2. \A h \in 1 .. j - 1 : s[h] # s[j]
    BY <1>0, <1>1, <1>2, <2>1, Zenon
  <2>3. s[i] < s[j]
    BY <1>0, <1>2, <2>2, Zenon DEF Fresh
  <2>. QED  BY <1>0, <1>2, <2>1, <2>3, Zenon
<1>3. ASSUME NEW m \in 1 .. Len(t), j = Len(s) + m PROVE (s \o t)[i] < (s \o t)[j]
  <2>1. (s \o t)[j] = t[m] /\ t[m] \in Range(t) /\ t[m] \in 1 .. n
    BY <1>0, <1>3, <1>t, Zenon DEF Range
  <2>2. CASE i \in 1 .. Len(s)
    <3>1. (s \o t)[i] = s[i] /\ s[i] \in Range(s) /\ s[i] \in 1 .. n
      BY <1>0, <2>2, <1>t, Zenon DEF Range
    <3>2. t[m] \notin Range(s)
      <4>1. \A h \in 1 .. Len(s) : h \in 1 .. j - 1
        BY <1>0, <1>3
      <4>. QED  BY <1>0, <1>1, <2>1, <4>1, ZenonT(30) DEF Range
    <3>3. ~(t[m] < s[i]) /\ t[m] # s[i]
      BY <2>1, <3>1, <3>2, Zenon DEF Follows
    <3>. QED  BY <2>1, <3>1, <3>3, SMTT(30)
  <2>3. ASSUME NEW h \in 1 .. Len(t), i = Len(s) + h PROVE (s \o t)[i] < (s \o t)[j]
    <3>1. h < m
      BY <1>0, <1>3, <2>3
    <3>. QED  BY <1>0, <2>1, <2>3, <3>1, Zenon DEF Rising
  <2>4. i \in 1 .. Len(s) + Len(t)
    BY <1>0
  <2>. QED  BY <1>0, <2>2, <2>3, <2>4, Zenon
<1>. QED  BY <1>0, <1>2, <1>3, Zenon

\* A newer record at the end keeps a sequence in order.
LEMMA RisingAppend ==
    ASSUME NEW n \in Nat, NEW s \in Seq(1 .. n), NEW x \in Int, Rising(s), \A y \in Range(s) : y < x
    PROVE  Rising(Append(s, x))
<1>1. /\ DOMAIN Append(s, x) = 1 .. Len(s) + 1 /\ DOMAIN s = 1 .. Len(s) /\ Len(s) \in Nat
      /\ Append(s, x)[Len(s) + 1] = x
  OBVIOUS
<1>2. \A i \in 1 .. Len(s) : Append(s, x)[i] = s[i] /\ s[i] < x
  BY <1>1, SMTT(30) DEF Range
<1>3. SUFFICES ASSUME NEW i \in 1 .. Len(s) + 1, NEW j \in 1 .. Len(s) + 1, i < j
               PROVE  Append(s, x)[i] < Append(s, x)[j]
  BY <1>1, Zenon DEF Rising
<1>4. i \in 1 .. Len(s) /\ (j = Len(s) + 1 \/ j \in 1 .. Len(s))
  BY <1>1, <1>3
<1>5. CASE j = Len(s) + 1
  BY <1>1, <1>2, <1>4, <1>5, Zenon
<1>6. CASE j \in 1 .. Len(s)
  <2>1. s[i] < s[j]
    BY <1>1, <1>3, <1>4, <1>6, Zenon DEF Rising
  <2>. QED  BY <1>2, <1>4, <1>6, <2>1, Zenon
<1>. QED  BY <1>4, <1>5, <1>6, Zenon

\* Each step keeps the records within those produced.
LEMMA BoundedStep ==
    ASSUME NEW k \in Kinds, made[k] \in Nat, Bounded(k), KindStep(k)
    PROVE  Bounded(k)'
<1>0. made'[k] \in {made[k], made[k] + 1} /\ 1 .. made[k] \subseteq 1 .. made'[k]
  BY DEF KindStep
<1>1. CASE KindIdle(k)
  BY <1>0, <1>1, Zenon DEF Bounded, KindIdle
<1>2. CASE KindShow(k)
  BY <1>0, <1>2, Zenon DEF Bounded, KindShow, Seen
<1>3. ASSUME NEW p \in Senders, KindTake(p, k) PROVE Bounded(k)'
  BY <1>0, <1>3, Zenon DEF Bounded, KindTake
<1>4. ASSUME NEW p \in Senders, KindSend(p, k) PROVE Bounded(k)'
  BY <1>0, <1>4 DEF Bounded, KindSend
<1>5. CASE made'[k] = made[k] + 1 /\ KindWrite(k)
  BY <1>0, <1>5 DEF Bounded, KindWrite
<1>6. CASE made'[k] = made[k] + 1 /\ KindLine(k)
  BY <1>0, <1>6 DEF Bounded, KindLine, Senders
<1>. QED  BY <1>1, <1>2, <1>3, <1>4, <1>5, <1>6, Zenon DEF KindStep

\* A loop that takes the entry of a kind keeps the order: the entry is newer
\* than all that was seen, and a flush beside it holds the same entry.
LEMMA OrderTake ==
    ASSUME NEW k \in Kinds, made[k] \in Nat, Bounded(k), OrderOf(k),
           NEW p \in Senders, KindTake(p, k)
    PROVE  OrderOf(k)'
<1>0. /\ Seen(k)' = Seen(k) /\ InCache(k)' = InCache(k) /\ Held(p, k)' = InCache(k)
      /\ \A q \in Senders \ {p} : Held(q, k)' = Held(q, k)
      /\ OnWay(k)' = OnWay(k) /\ Written(k)' = Written(k)
  BY Zenon DEF KindTake, Seen
<1>1. /\ Seen(k) \subseteq Int /\ InCache(k) \subseteq Int
      /\ \A q \in Senders : Held(q, k) \subseteq Int
  BY DEF Bounded, Seen
<1>2. Follows(OnWay(k), Written(k))'
  BY <1>0, Zenon DEF OrderOf, Follows
<1>3. \A x \in Seen(k)', y \in InCache(k)' : x < y
  BY <1>0, Zenon DEF OrderOf
<1>4. Follows(InCache(k), Seen(k)) /\ Follows(InCache(k), InCache(k))
  BY <1>1 DEF OrderOf, Follows
<1>5. \A q \in Senders : Follows(Held(q, k), Seen(k))' /\ Follows(InCache(k), Held(q, k))'
  BY <1>0, <1>4 DEF OrderOf, Follows
<1>6. ASSUME NEW q \in Senders, q # p
      PROVE  Follows(InCache(k), Seen(k) \cup Held(q, k)) /\ Follows(Held(q, k), Seen(k) \cup InCache(k))
  <2>1. Follows(InCache(k), Held(q, k)) /\ Follows(Held(q, k), Seen(k))
    BY Zenon DEF OrderOf
  <2>2. Held(q, k) \subseteq InCache(k) \cup Seen(k) \/ InCache(k) = {}
    <3>1. CASE q = "monitor"
      BY <3>1, Zenon DEF OrderOf, KindTake
    <3>2. CASE q \in Flushers
      <4>1. Hand(q).kind # k => Held(q, k) = {}
        BY Zenon DEF Held, Of
      <4>. QED  BY <3>2, <4>1, Zenon DEF OrderOf
    <3>. QED  BY <3>1, <3>2, Zenon DEF Senders
  <2>. QED  BY <1>1, <1>4, <2>1, <2>2, Zenon DEF Follows
<1>7. \A q, r \in Senders : q # r => Follows(Held(q, k), Seen(k) \cup Held(r, k))'
  <2>1. SUFFICES ASSUME NEW q \in Senders, NEW r \in Senders, q # r
                 PROVE  Follows(Held(q, k)', Seen(k)' \cup Held(r, k)')
    BY Zenon DEF Follows
  <2>2. CASE q = p
    BY <1>0, <1>6, <2>1, <2>2, Zenon
  <2>3. CASE r = p
    BY <1>0, <1>6, <2>1, <2>3, Zenon
  <2>4. CASE q # p /\ r # p
    BY <1>0, <2>1, <2>4, Zenon DEF OrderOf
  <2>. QED  BY <2>2, <2>3, <2>4, Zenon
<1>8. mpc' = "direct" \/ Held("monitor", k)' \subseteq InCache(k)' \cup Seen(k)'
  BY <1>0, Zenon DEF OrderOf, KindTake, Senders
<1>9. \A f \in Flushers : Hand(f)'.kind = k => InCache(k)' \in {{}, Held(f, k)'}
  BY <1>0, Zenon DEF OrderOf, KindTake, Senders
<1>. QED  BY <1>2, <1>3, <1>5, <1>7, <1>8, <1>9, Zenon DEF OrderOf

\* The rendezvous with the writer keeps the order, whoever was first.
LEMMA OrderSend ==
    ASSUME NEW k \in Kinds, made[k] \in Nat, Bounded(k), OrderOf(k),
           NEW p \in Senders, KindSend(p, k)
    PROVE  OrderOf(k)'
<1>0. /\ Seen(k) = Written(k) /\ Seen(k)' = Seen(k) \cup Held(p, k) /\ InCache(k)' = {}
      /\ OnWay(k)' = Held(p, k) /\ Written(k)' = Written(k) /\ Held(p, k)' = {}
      /\ \A q \in Senders \ {p} : Held(q, k)' = Held(q, k)
  BY Zenon DEF KindSend, Seen
<1>2. Follows(OnWay(k), Written(k))'
  BY <1>0, ZenonT(30) DEF OrderOf, Follows
<1>3. \A x \in Seen(k)', y \in InCache(k)' : x < y
  BY <1>0, Zenon
<1>5. \A q \in Senders : Follows(Held(q, k), Seen(k))' /\ Follows(InCache(k), Held(q, k))'
  BY <1>0 DEF OrderOf, Follows
<1>7. \A q, r \in Senders : q # r => Follows(Held(q, k), Seen(k) \cup Held(r, k))'
  <2>1. SUFFICES ASSUME NEW q \in Senders, NEW r \in Senders, q # r
                 PROVE  Follows(Held(q, k)', Seen(k)' \cup Held(r, k)')
    BY Zenon DEF Follows
  <2>2. CASE q = p
    BY <1>0, <2>2, Zenon DEF Follows
  <2>3. CASE r = p
    <3>1. Follows(Held(q, k), Seen(k) \cup Held(p, k))
      BY <2>1, <2>3, Zenon DEF OrderOf
    <3>. QED  BY <1>0, <2>1, <2>3, <3>1, Zenon DEF Follows
  <2>4. CASE q # p /\ r # p
    <3>1. Follows(Held(q, k), Seen(k) \cup Held(p, k)) /\ Follows(Held(q, k), Seen(k) \cup Held(r, k))
      BY <2>1, <2>4, Zenon DEF OrderOf
    <3>. QED  BY <1>0, <2>1, <2>4, <3>1, Zenon DEF Follows
  <2>. QED  BY <2>2, <2>3, <2>4, Zenon
<1>8. mpc' = "direct" \/ Held("monitor", k)' \subseteq InCache(k)' \cup Seen(k)'
  <2>1. CASE p = "monitor"
    BY <1>0, <2>1, Zenon
  <2>2. CASE p \in Flushers
    <3>1. Held("monitor", k) \subseteq InCache(k) \cup Seen(k) /\ InCache(k) \subseteq Held(p, k)
      BY <2>2, Zenon DEF OrderOf, KindSend
    <3>. QED  BY <1>0, <2>2, <3>1, Zenon DEF Senders
  <2>. QED  BY <2>1, <2>2, Zenon DEF Senders
<1>9. \A f \in Flushers : Hand(f)'.kind = k => InCache(k)' \in {{}, Held(f, k)'}
  BY <1>0, Zenon
<1>. QED  BY <1>2, <1>3, <1>5, <1>7, <1>8, <1>9, Zenon DEF OrderOf

\* Every step keeps the order of a kind.
LEMMA OrderStep ==
    ASSUME NEW k \in Kinds, made[k] \in Nat, Bounded(k), OrderOf(k), KindStep(k)
    PROVE  OrderOf(k)'
<1>1. CASE KindIdle(k) \/ KindShow(k)
  <2>1. /\ Seen(k)' = Seen(k) /\ InCache(k)' = InCache(k)
        /\ \A p \in Senders : Held(p, k)' = Held(p, k)
        /\ \A p \in Senders : Hand(p)'.kind = k => Hand(p).kind = k
    BY <1>1, Zenon DEF KindIdle, KindShow, Seen
  <2>2. mpc' = "direct" \/ Held("monitor", k)' = {} \/ (mpc # "direct" /\ mpc' # "direct")
    BY <1>1, Zenon DEF KindIdle, KindShow
  <2>3. mpc' = "direct" \/ Held("monitor", k)' \subseteq InCache(k)' \cup Seen(k)'
    BY <2>1, <2>2, Zenon DEF OrderOf, Senders
  <2>4. \A f \in Flushers : Hand(f)'.kind = k => InCache(k)' \in {{}, Held(f, k)'}
    BY <2>1, Zenon DEF OrderOf, Senders
  <2>5. Follows(OnWay(k), Written(k))'
    BY <1>1 DEF KindIdle, KindShow, OrderOf, Follows
  <2>6. \A x \in Seen(k)', y \in InCache(k)' : x < y
    BY <2>1, Zenon DEF OrderOf
  <2>7. \A p \in Senders : Follows(Held(p, k), Seen(k))' /\ Follows(InCache(k), Held(p, k))'
    BY <2>1 DEF OrderOf, Follows
  <2>8. \A q, r \in Senders : q # r => Follows(Held(q, k), Seen(k) \cup Held(r, k))'
    BY <2>1 DEF OrderOf, Follows
  <2>. QED  BY <2>3, <2>4, <2>5, <2>6, <2>7, <2>8, Zenon DEF OrderOf
<1>5. CASE KindWrite(k)
  <2>1. /\ Seen(k)' = Seen(k) /\ \A x \in Seen(k) : x \in Int /\ x < made[k] + 1
        /\ \A p \in Senders : \A x \in Held(p, k) : x \in Int /\ x < made[k] + 1
    BY <1>5 DEF KindWrite, Seen, Bounded
  <2>2. mpc' = "direct" \/ Held("monitor", k)' \subseteq InCache(k)' \cup Seen(k)'
    BY <1>5, <2>1, Zenon DEF KindWrite, OrderOf, Senders
  <2>3. \A x \in Seen(k)', y \in InCache(k)' : x < y
    BY <1>5, <2>1, Zenon DEF KindWrite, OrderOf
  <2>4. \A p \in Senders : Follows(Held(p, k), Seen(k))' /\ Follows(InCache(k), Held(p, k))'
    BY <1>5, <2>1 DEF KindWrite, OrderOf, Follows
  <2>. QED  BY <1>5, <2>1, <2>2, <2>3, <2>4 DEF KindWrite, OrderOf, Follows
<1>6. CASE KindLine(k)
  <2>1. /\ Seen(k)' = Seen(k) /\ \A x \in Seen(k) : x \in Int /\ x < made[k] + 1
        /\ InCache(k)' = {} /\ mpc' = "direct" /\ OnWay(k)' = OnWay(k) /\ Written(k)' = Written(k)
        /\ \A p \in Senders : Held(p, k)' = IF p = "monitor" THEN {made[k] + 1} ELSE {}
    <3>1. Seen(k)' = Seen(k) /\ \A x \in Seen(k) : x \in Int /\ x < made[k] + 1
      BY <1>6 DEF KindLine, Seen, Bounded
    <3>2. \A p \in Senders : Held(p, k)' = IF p = "monitor" THEN {made[k] + 1} ELSE {}
      BY <1>6, Zenon DEF KindLine, Senders
    <3>. QED  BY <1>6, <3>1, <3>2, Zenon DEF KindLine
  <2>2. Follows(OnWay(k), Written(k))'
    BY <2>1, ZenonT(30) DEF OrderOf, Follows
  <2>3. \A p \in Senders : Follows(Held(p, k), Seen(k))' /\ Follows(InCache(k), Held(p, k))'
    BY <2>1 DEF Follows
  <2>4. \A q, r \in Senders : q # r => Follows(Held(q, k), Seen(k) \cup Held(r, k))'
    BY <2>1 DEF Follows
  <2>. QED  BY <2>1, <2>2, <2>3, <2>4, Zenon DEF OrderOf
<1>. QED  BY <1>1, <1>5, <1>6, OrderTake, OrderSend, Zenon DEF KindStep

\* Every message, and the cache, hold the records of a kind in their order.
Sorted(k) ==
    /\ Rising(msgCache[k])
    /\ AtWriter.kind = k => Rising(AtWriter.items)
    /\ \A p \in Senders : Hand(p).kind = k => Rising(Hand(p).items)

\* Each step keeps the messages and the cache sorted (line 83).
LEMMA SortedStep ==
    ASSUME IInv, View, ~broken', NEW k \in Kinds, Bounded(k), Sorted(k)
    PROVE  Sorted(k)'
<1>0. /\ AtWriter \in Messages /\ \A p \in Senders : Hand(p) \in Messages
      /\ msgCache \in [Kinds -> Seq(1 .. MaxItems)] /\ made \in [Kinds -> 0 .. MaxItems]
      /\ MaxItems \in Nat /\ "monitor" \in Senders
  BY MessagesTyped, Zenon DEF Senders
<1>s. ASSUME NEW m, NEW n, Same(m, n), n.kind = k => Rising(n.items)
      PROVE  m.kind = k => Rising(m.items)
  BY <1>s, Zenon DEF Same
<1>e. Rising(<<>>) /\ \A x : Rising(<<x>>)
  <2>1. DOMAIN <<>> = {} /\ \A x : DOMAIN <<x>> = {1}
    OBVIOUS
  <2>. QED  BY <2>1 DEF Rising
<1>n. NoMsg.kind # k
  BY NoRecords, Zenon
<1>w. ASSUME Same(AtWriter', AtWriter) PROVE AtWriter'.kind = k => Rising(AtWriter'.items)
  BY <1>w, <1>s, Zenon DEF Sorted
<1>h. ASSUME NEW S, HandsKept(S), NEW p \in Senders \ S PROVE Hand(p)'.kind = k => Rising(Hand(p)'.items)
  BY <1>h, <1>s, Zenon DEF Sorted, HandsKept
<1>1. CASE IdleView
  <2>1. msgCache' = msgCache /\ Same(AtWriter', AtWriter) /\ HandsKept({})
    BY <1>1, Zenon DEF IdleView
  <2>. QED  BY <1>w, <1>h, <2>1 DEF Sorted
<1>2. ASSUME NEW j \in Kinds, WriteView(j) PROVE Sorted(k)'
  <2>1. Same(AtWriter', AtWriter) /\ HandsKept({})
    BY <1>2, Zenon DEF WriteView
  <2>2. Rising(msgCache'[k])
    <3>1. CASE j = k
      <4>1. msgCache'[k] = Append(msgCache[k], made[k] + 1)
        BY <1>0, <1>2, <3>1, Zenon DEF WriteView
      <4>2. made[k] + 1 \in Int /\ \A y \in Range(msgCache[k]) : y < made[k] + 1
        BY <1>0 DEF Bounded, InCache
      <4>. QED  BY <1>0, <4>1, <4>2, RisingAppend, Zenon DEF Sorted
    <3>2. CASE j # k
      BY <1>0, <1>2, <3>2, Zenon DEF WriteView, Sorted
    <3>. QED  BY <3>1, <3>2, Zenon
  <2>. QED  BY <1>w, <1>h, <2>1, <2>2 DEF Sorted
<1>3. CASE LineView
  <2>1. msgCache' = msgCache /\ Same(AtWriter', AtWriter)
    BY <1>3, Zenon DEF LineView
  <2>2. \A f \in Flushers : Hand(f)' = NoMsg
    BY <1>3, Zenon DEF LineView
  <2>3. Hand("monitor")'.items = <<made["log"] + 1>>
    BY <1>3 DEF LineView
  <2>. QED  BY <1>w, <1>e, <1>n, <2>1, <2>2, <2>3, Zenon DEF Sorted, Senders
<1>4. ASSUME NEW p \in Senders, NEW j \in Kinds, TakeView(p, j) PROVE Sorted(k)'
  <2>1. msgCache' = msgCache /\ Same(AtWriter', AtWriter) /\ HandsKept({p})
    BY <1>4, Zenon DEF TakeView
  <2>2. Hand(p)'.kind = j /\ Hand(p)'.items = msgCache[j]
    BY <1>4 DEF TakeView, Batch
  <2>. QED  BY <1>w, <1>h, <2>1, <2>2 DEF Sorted
<1>5. ASSUME NEW p \in Senders, SendView(p) PROVE Sorted(k)'
  <2>1. AtWriter' = Hand(p) /\ Hand(p)' = NoMsg /\ HandsKept({p})
        /\ msgCache' = [msgCache EXCEPT ![Hand(p).kind] = <<>>]
    BY <1>5, Zenon DEF SendView
  <2>2. Rising(msgCache'[k])
    BY <1>0, <1>e, <2>1, Zenon DEF Sorted
  <2>3. \A q \in Senders : Hand(q)'.kind = k => Rising(Hand(q)'.items)
    BY <1>h, <1>n, <2>1, Zenon
  <2>. QED  BY <2>1, <2>2, <2>3, Zenon DEF Sorted
<1>6. CASE ShowView
  <2>1. msgCache' = msgCache /\ AtWriter' = NoMsg /\ HandsKept({})
    BY <1>6, Zenon DEF ShowView
  <2>. QED  BY <1>h, <1>n, <2>1 DEF Sorted
<1>7. CASE FailView
  BY <1>7, Zenon DEF FailView
<1>. QED  BY <1>1, <1>2, <1>3, <1>4, <1>5, <1>6, <1>7, Zenon DEF View

\* What a step does to the records that the peer has.
LEMMA WireStep ==
    ASSUME IInv, View, NEW k \in Kinds
    PROVE  \/ wire'[k] = wire[k]
           \/ /\ AtWriter.kind = k /\ wire'[k] = wire[k] \o AtWriter.items /\ ~broken
              /\ AtWriter.items \in Seq(1 .. MaxItems) /\ wire[k] \in Seq(1 .. MaxItems)
              /\ KindShow(k)
<1>0. AtWriter \in Messages /\ wire \in [Kinds -> Seq(1 .. MaxItems)]
  BY MessagesTyped, Zenon
<1>1. CASE ShowView
  <2>1. ~broken /\ ~broken'
    BY <1>1, Zenon DEF ShowView
  <2>2. wire' = [wire EXCEPT ![AtWriter.kind] = @ \o AtWriter.items]
    BY <1>1, Zenon DEF ShowView
  <2>3. CASE AtWriter.kind = k
    <3>1. KindShow(k)
      BY <1>1, KindShows, Zenon
    <3>. QED  BY <1>0, <2>1, <2>2, <2>3, <3>1, Zenon DEF Messages
  <2>. QED  BY <1>0, <2>2, <2>3, Zenon
<1>. QED  BY <1>1, Zenon DEF View, IdleView, LineView, FailView, WriteView, TakeView, SendView

\* What holds of the records of kind k.
RecordsOf(k) == Bounded(k) /\ OrderOf(k) /\ Sorted(k)

\* The order of the records: as long as no write has failed, and for what the
\* peer has got.
Ordered ==
    /\ ~broken => \A k \in Kinds : RecordsOf(k)
    /\ \A k \in Kinds : Fresh(wire[k])

\* Each step keeps the records ordered.
LEMMA OrderedStep ==
    ASSUME IInv, Course, Ordered, [Next]_vars
    PROVE  Ordered'
<1>1. View
  BY StepView, Zenon
<1>2. ASSUME ~broken', NEW k \in Kinds PROVE RecordsOf(k)'
  <2>1. KindStep(k) /\ ~broken
    BY <1>1, <1>2, KindSteps, Zenon
  <2>2. Bounded(k) /\ OrderOf(k) /\ Sorted(k)
    BY <1>2, <2>1, Zenon DEF Ordered, RecordsOf
  <2>3. made[k] \in Nat
    BY MessagesTyped
  <2>4. Bounded(k)' /\ OrderOf(k)'
    BY <2>1, <2>2, <2>3, BoundedStep, OrderStep, Zenon
  <2>5. Sorted(k)'
    BY <1>1, <1>2, <2>2, SortedStep, Zenon
  <2>. QED  BY <2>4, <2>5, Zenon DEF RecordsOf
<1>3. ASSUME NEW k \in Kinds PROVE Fresh(wire'[k])
  <2>1. CASE wire'[k] = wire[k]
    BY <2>1, Zenon DEF Ordered
  <2>2. CASE /\ AtWriter.kind = k /\ wire'[k] = wire[k] \o AtWriter.items /\ ~broken
             /\ AtWriter.items \in Seq(1 .. MaxItems) /\ wire[k] \in Seq(1 .. MaxItems)
    <3>1. Follows(Range(AtWriter.items), Range(wire[k]))
      BY <2>2, Zenon DEF Ordered, RecordsOf, OrderOf, OnWay, Of, Written
    <3>2. Fresh(wire[k]) /\ Rising(AtWriter.items)
      BY <2>2, Zenon DEF Ordered, RecordsOf, Sorted
    <3>. QED  BY <2>2, <3>1, <3>2, FreshConcat, Zenon
  <2>. QED  BY <1>1, <2>1, <2>2, WireStep, Zenon
<1>. QED  BY <1>2, <1>3, Zenon DEF Ordered

\* A fresh connection has no records.
LEMMA OrderedInit == Init => Ordered
<1>. SUFFICES ASSUME Init PROVE Ordered
  BY Zenon
<1>0. AtWriter = NoMsg /\ (\A p \in Senders : Hand(p) = NoMsg) /\ "monitor" \in Senders
  BY Zenon DEF Init, AtWriter, Hand, Senders
<1>1. Range(<<>>) = {} /\ Rising(<<>>) /\ Fresh(<<>>) /\ <<>> \in Seq(1 .. MaxItems)
  BY DEF Range, Rising, Fresh
<1>2. ASSUME NEW k \in Kinds
      PROVE  /\ wire[k] = <<>> /\ msgCache[k] = <<>> /\ made[k] = 0 /\ NoMsg.kind # k
             /\ Written(k) = {} /\ OnWay(k) = {} /\ InCache(k) = {} /\ Seen(k) = {}
             /\ \A p \in Senders : Held(p, k) = {}
  <2>1. wire[k] = <<>> /\ msgCache[k] = <<>> /\ made[k] = 0 /\ NoMsg.kind # k
    BY NoRecords, Zenon DEF Init
  <2>2. Written(k) = {} /\ OnWay(k) = {} /\ InCache(k) = {}
    BY <1>0, <1>1, <2>1, NoneOf, Zenon DEF Written, OnWay, InCache
  <2>3. \A p \in Senders : Held(p, k) = {}
    BY <1>0, NoneOf, Zenon DEF Held
  <2>. QED  BY <2>1, <2>2, <2>3, Zenon DEF Seen
<1>5. ASSUME NEW k \in Kinds PROVE RecordsOf(k)
  <2>1. Bounded(k) /\ OrderOf(k)
    BY <1>0, <1>2, Zenon DEF Bounded, OrderOf, Follows
  <2>2. Sorted(k)
    BY <1>0, <1>1, <1>2, Zenon DEF Sorted
  <2>. QED  BY <2>1, <2>2, Zenon DEF RecordsOf
<1>7. \A k \in Kinds : Fresh(wire[k])
  BY <1>1, <1>2, Zenon
<1>. QED  BY <1>5, <1>7, Zenon DEF Ordered

\* What the peer has and what is on its way stays in order.
LEMMA OrderInvariant == Spec => []Ordered
<1>1. IInv /\ Course /\ Ordered /\ [Next]_vars => Ordered'
  BY OrderedStep, Zenon
<1>. QED  BY <1>1, OrderedInit, Invariance, CourseInvariant, PTL DEF Spec

\* A record that the peer sees for the first time is newer than all that it has
\* seen, although timer callbacks and the unlocked flush of line 249 of
\* DockerLog.go send the same cache (lines 99-114).
THEOREM NewestLast == Spec => []FreshInOrder
<1>1. Ordered => FreshInOrder
  BY Zenon DEF Ordered, FreshInOrder, Fresh
<1>. QED  BY <1>1, OrderInvariant, PTL
==============================================================================
