---------------------------- MODULE LogConnection ----------------------------
(***************************************************************************)
(* container_log/ConnectionManage.go with the goroutines that              *)
(* container_log/DockerLog.go and MinioLog.go run on a connection: one      *)
(* browser connection that follows the log of one container.               *)
(*                                                                         *)
(* The monitor goroutine (DockerLog.Start) waits for the pod, then copies   *)
(* log frames into the cache; two more goroutines add GPU and resource      *)
(* records.  The first write into an idle cache starts a 600 ms timer whose *)
(* callback, a new goroutine, sends the cache to the writer goroutine over  *)
(* the unbuffered channel WriteMsg.  A reader goroutine notices that the    *)
(* peer is gone.  The mutex guards the cache, except in the flush(false)    *)
(* of line 249 of DockerLog.go, which takes no lock.                        *)
(*                                                                         *)
(* A critical section that cannot block is one action.  A goroutine that    *)
(* holds the mutex while it sends shows in "lock".                          *)
(***************************************************************************)
EXTENDS Integers, Sequences, FiniteSets, Functions

CONSTANTS
    Flushers,   \* goroutines for callbacks of the flush timer
    Stats,      \* kinds of records besides the log, within {"gpu", "res"}
    MaxItems,   \* bound on the records of each kind
    MaxPolls,   \* bound on the status messages before the log starts
    Sources     \* the monitors NewLogMonitor may choose, of "docker" and "minio"

ASSUME ConstantsAssumption ==
    /\ "monitor" \notin Flushers /\ "free" \notin Flushers
    /\ Stats \subseteq {"gpu", "res"}
    /\ MaxItems \in Nat /\ MaxPolls \in Nat
    /\ Sources \subseteq {"docker", "minio"}

VARIABLES
    lock,       \* holder of c.mutex that is blocked in a send, or "free"
    closed,     \* c.closed, with the context cancelled, the monitor told, the
                \* socket closed and the hub entry gone: onClose does them at once
    dead,       \* the Go runtime ended the process
    gone,       \* the peer has left
    broken,     \* a WriteMessage has failed; later ones fail as well
    msgCache,   \* the records cached under each kind
    sendingFlag,
    timer,      \* c.timeAfter is running
    fpc,        \* each flush goroutine: "none", "wait", "range" or "send"
    todo,       \* keys that each range loop over msgCache must still produce
    mpc,        \* where the monitor is
    ret,        \* where the monitor goes on after the writeMid it is in
    msg,        \* what each sender has in hand
    wpc, wmsg,  \* writer goroutine and the message it received
    rpc,        \* reader goroutine
    closer,     \* the 2 s timer that calls onClose: "none", "armed", "done"
    streaming,  \* the GPU and resource goroutines run
    made,       \* how many records of each kind were produced
    podSeen,    \* DockerLog.Start's started: the pod was listed
    polls,      \* polls that sent a status line and will poll again
    wire,       \* records that WriteMessage has written, of each kind
    ended       \* LOG_END has been written

vars == <<lock, closed, dead, gone, broken, msgCache, sendingFlag, timer, fpc,
          todo, mpc, ret, msg, wpc, wmsg, rpc, closer, streaming, made,
          podSeen, polls, wire, ended>>

Kinds == {"log"} \cup Stats
Senders == {"monitor"} \cup Flushers

\* A message on the channel: records of one kind, a status line or LOG_END.
NoMsg == [kind |-> "none", items |-> <<>>]
StatMsg == [kind |-> "stat", items |-> <<>>]
EndMsg == [kind |-> "end", items |-> <<>>]
Batch(k) == [kind |-> k, items |-> msgCache[k]]

Cached == {k \in Kinds : msgCache[k] # <<>>}

cacheVars == <<msgCache, sendingFlag, timer, made>>
monVars == <<mpc, ret, streaming, podSeen, polls, closer>>
wireVars == <<wire, ended, broken>>
peerVars == <<gone, rpc>>

-----------------------------------------------------------------------------

\* Mutant: line 83 puts the new record before the cached ones.
writeInFront(k) ==
    /\ lock = "free" /\ made[k] < MaxItems
    /\ made' = [made EXCEPT ![k] = @ + 1]
    /\ msgCache' = [msgCache EXCEPT ![k] = <<made[k] + 1>> \o @]
    /\ sendingFlag' = TRUE
    /\ timer' = (timer \/ ~sendingFlag)

\* Mutant: every write starts a timer (no test of sendingFlag).
writeAlwaysArms(k) ==
    /\ lock = "free" /\ made[k] < MaxItems
    /\ made' = [made EXCEPT ![k] = @ + 1]
    /\ msgCache' = [msgCache EXCEPT ![k] = Append(@, made[k] + 1)]
    /\ sendingFlag' = TRUE
    /\ timer' = TRUE

\* write, under the mutex: append to the kind's entry; the first write since
\* the last flush restarts the timer.
write(k) ==
    /\ lock = "free" /\ made[k] < MaxItems
    /\ made' = [made EXCEPT ![k] = @ + 1]
    /\ msgCache' = [msgCache EXCEPT ![k] = Append(@, made[k] + 1)]
    /\ sendingFlag' = TRUE
    /\ timer' = (timer \/ ~sendingFlag)

\* The GPU and resource goroutines; a record that was on its way when the
\* connection closed is still written to the cache.
WriteStat(k) ==
    /\ streaming /\ write(k)
    /\ UNCHANGED <<lock, closed, dead, fpc, todo, msg, wpc, wmsg, monVars,
                   wireVars, peerVars>>

WriteLog ==
    /\ mpc = "copy" /\ write("log")
    /\ UNCHANGED <<lock, closed, dead, fpc, todo, msg, wpc, wmsg, monVars,
                   wireVars, peerVars>>

-----------------------------------------------------------------------------
\* The timer starts a goroutine that waits for the mutex.
FireTimer(f) ==
    /\ timer /\ fpc[f] = "none"
    /\ timer' = FALSE
    /\ fpc' = [fpc EXCEPT ![f] = "wait"]
    /\ UNCHANGED <<lock, closed, dead, msgCache, sendingFlag, made, todo, msg,
                   wpc, wmsg, monVars, wireVars, peerVars>>

\* flush(true), lines 100-104.
FlushLock(f) ==
    /\ fpc[f] = "wait" /\ lock = "free"
    /\ IF closed
       THEN /\ fpc' = [fpc EXCEPT ![f] = "none"]
            /\ sendingFlag' = FALSE
            /\ UNCHANGED <<lock, todo>>
       ELSE /\ fpc' = [fpc EXCEPT ![f] = "range"]
            /\ lock' = f
            /\ todo' = [todo EXCEPT ![f] = Cached]
            /\ UNCHANGED sendingFlag
    /\ UNCHANGED <<closed, dead, msgCache, timer, made, msg, wpc, wmsg,
                   monVars, wireVars, peerVars>>

\* Line 106: the loop takes any entry of the map.  Entries that came in after
\* the loop began may or may not be produced.
Take(p, k) ==
    /\ k \in Cached
    /\ msg' = [msg EXCEPT ![p] = Batch(k)]
    /\ todo' = [todo EXCEPT ![p] = @ \ {k}]

Exhausted(p) == todo[p] \cap Cached = {}

FlushTake(f) ==
    /\ fpc[f] = "range"
    /\ \E k \in Kinds : Take(f, k)
    /\ fpc' = [fpc EXCEPT ![f] = "send"]
    /\ UNCHANGED <<lock, closed, dead, cacheVars, wpc, wmsg, monVars, wireVars,
                   peerVars>>

\* Mutant: sendingFlag stays set (line 112 is missing).
FlushEndKeepsFlag(f) ==
    /\ fpc[f] = "range" /\ Exhausted(f)
    /\ fpc' = [fpc EXCEPT ![f] = "none"]
    /\ lock' = "free"
    /\ UNCHANGED <<closed, dead, cacheVars, todo, msg, wpc, wmsg, monVars,
                   wireVars, peerVars>>

\* Lines 112 and 102.
FlushEnd(f) ==
    /\ fpc[f] = "range" /\ Exhausted(f)
    /\ fpc' = [fpc EXCEPT ![f] = "none"]
    /\ lock' = "free"
    /\ sendingFlag' = FALSE
    /\ UNCHANGED <<closed, dead, msgCache, timer, made, todo, msg, wpc, wmsg,
                   monVars, wireVars, peerVars>>

\* The rendezvous on WriteMsg: the writer is in its select.
Handover(p) ==
    /\ wpc = "select"
    /\ wpc' = "write"
    /\ wmsg' = msg[p]
    /\ msg' = [msg EXCEPT ![p] = NoMsg]

\* Lines 107-108: the entry is deleted by key, whatever it holds by then; a
\* loop of another goroutine does not produce a deleted entry.
Delete(k) ==
    /\ msgCache' = [msgCache EXCEPT ![k] = <<>>]
    /\ todo' = [p \in Senders |-> todo[p] \ {k}]

FlushSend(f) ==
    /\ fpc[f] = "send" /\ Handover(f)
    /\ Delete(msg[f].kind)
    /\ fpc' = [fpc EXCEPT ![f] = "range"]
    /\ UNCHANGED <<lock, closed, dead, sendingFlag, timer, made, monVars,
                   wireVars, peerVars>>

-----------------------------------------------------------------------------
(***************************************************************************)
(* The monitor.  Its mpc is "poll" in the pod loop, "open" before it asks    *)
(* for the log, "copy" in StdCopy, "flush", "range" and "send" in the        *)
(* unlocked flush, "mid" and "midsend" in writeMid, "object" and "direct"    *)
(* in MinioLog.Start, and "done".                                            *)
(***************************************************************************)
\* Line 67: what writeMid sends and where the monitor goes on.
writeMid(m, next) ==
    /\ mpc' = "mid" /\ ret' = next
    /\ msg' = [msg EXCEPT !["monitor"] = m]

\* Lines 126-191: a look at the pod ends the monitor when the connection is
\* closed.  It sends a status line and polls again, ends or goes on; a running pod
\* without containers is silent; a pod that was there and is gone ends the log.
Poll ==
    /\ mpc = "poll"
    /\ IF closed
       THEN mpc' = "done" /\ UNCHANGED <<ret, msg, podSeen, polls>>
       ELSE \/ /\ polls < MaxPolls
               /\ polls' = polls + 1
               /\ podSeen' \in {podSeen, TRUE}
               /\ writeMid(StatMsg, "poll")
            \/ /\ podSeen' = TRUE
               /\ \E next \in {"open", "done"} : writeMid(StatMsg, next)
               /\ UNCHANGED polls
            \/ /\ podSeen' = TRUE
               /\ UNCHANGED <<mpc, ret, msg, polls>>
            \/ /\ podSeen
               /\ writeMid(EndMsg, "done")
               /\ UNCHANGED <<podSeen, polls>>
    /\ UNCHANGED <<lock, closed, dead, cacheVars, fpc, todo, wpc, wmsg, streaming,
                   closer, wireVars, peerVars>>

\* Lines 205-238: start the two goroutines and ask for the log; on an error
\* Start returns and nothing closes the connection.
Open ==
    /\ mpc = "open"
    /\ streaming' = TRUE
    /\ mpc' \in {"copy", "done"}
    /\ UNCHANGED <<lock, closed, dead, cacheVars, fpc, todo, msg, wpc, wmsg, ret,
                   podSeen, polls, closer, wireVars, peerVars>>

\* Mutant: LOG_END follows the copy at once (line 249 is missing).
CopyEndNoFlush ==
    /\ mpc = "copy"
    /\ writeMid(EndMsg, "return")
    /\ UNCHANGED <<lock, closed, dead, cacheVars, fpc, todo, wpc, wmsg, streaming,
                   podSeen, polls, closer, wireVars, peerVars>>

\* Lines 245-248: the log ends, with an error or without one.
CopyEnd ==
    /\ mpc = "copy"
    /\ \/ writeMid(StatMsg, "flush")
       \/ mpc' = "flush" /\ UNCHANGED <<ret, msg>>
    /\ UNCHANGED <<lock, closed, dead, cacheVars, fpc, todo, wpc, wmsg, streaming,
                   podSeen, polls, closer, wireVars, peerVars>>

\* Mutant: writeMid does not look at closed (line 70).
MidLockBlind ==
    /\ mpc = "mid" /\ lock = "free"
    /\ mpc' = "midsend"
    /\ lock' = "monitor"
    /\ UNCHANGED <<closed, dead, cacheVars, fpc, todo, msg, wpc, wmsg, ret,
                   streaming, podSeen, polls, closer, wireVars, peerVars>>

\* writeMid, lines 68-70.
MidLock ==
    /\ mpc = "mid" /\ lock = "free"
    /\ IF closed
       THEN /\ msg' = [msg EXCEPT !["monitor"] = NoMsg]
            /\ mpc' = ret
            /\ UNCHANGED lock
       ELSE /\ mpc' = "midsend"
            /\ lock' = "monitor"
            /\ UNCHANGED msg
    /\ UNCHANGED <<closed, dead, cacheVars, fpc, todo, wpc, wmsg, ret, streaming,
                   podSeen, polls, closer, wireVars, peerVars>>

\* writeMid, lines 71 and 69.
MidSend ==
    /\ mpc = "midsend" /\ Handover("monitor")
    /\ mpc' = ret
    /\ lock' = "free"
    /\ UNCHANGED <<closed, dead, cacheVars, fpc, todo, ret, streaming, podSeen, polls,
                   closer, wireVars, peerVars>>

\* flush(false): the cache and the flag are used without the mutex.
UnlockedFlush ==
    /\ mpc = "flush"
    /\ IF closed
       THEN /\ sendingFlag' = FALSE
            /\ writeMid(EndMsg, "return")
            /\ UNCHANGED todo
       ELSE /\ mpc' = "range"
            /\ todo' = [todo EXCEPT !["monitor"] = Cached]
            /\ UNCHANGED <<sendingFlag, ret, msg>>
    /\ UNCHANGED <<lock, closed, dead, msgCache, timer, made, fpc, wpc, wmsg,
                   streaming, podSeen, polls, closer, wireVars, peerVars>>

UnlockedTake ==
    /\ mpc = "range"
    /\ \E k \in Kinds : Take("monitor", k)
    /\ mpc' = "send"
    /\ UNCHANGED <<lock, closed, dead, cacheVars, fpc, wpc, wmsg, ret, streaming,
                   podSeen, polls, closer, wireVars, peerVars>>

UnlockedSend ==
    /\ mpc = "send" /\ Handover("monitor")
    /\ Delete(msg["monitor"].kind)
    /\ mpc' = "range"
    /\ UNCHANGED <<lock, closed, dead, sendingFlag, timer, made, fpc, ret,
                   streaming, podSeen, polls, closer, wireVars, peerVars>>

\* Lines 112 of ConnectionManage.go and 250 of DockerLog.go.
UnlockedEnd ==
    /\ mpc = "range" /\ Exhausted("monitor")
    /\ sendingFlag' = FALSE
    /\ writeMid(EndMsg, "return")
    /\ UNCHANGED <<lock, closed, dead, msgCache, timer, made, fpc, todo, wpc,
                   wmsg, streaming, podSeen, polls, closer, wireVars, peerVars>>

\* Mutant: nothing closes the connection when the log has ended.
ReturnOpen ==
    /\ mpc = "return"
    /\ mpc' = "done"
    /\ UNCHANGED <<lock, closed, dead, cacheVars, fpc, todo, msg, wpc, wmsg, ret,
                   streaming, podSeen, polls, closer, wireVars, peerVars>>

\* Lines 240-242: on return the 2 s timer that closes the connection starts.
Return ==
    /\ mpc = "return"
    /\ mpc' = "done"
    /\ closer' = "armed"
    /\ UNCHANGED <<lock, closed, dead, cacheVars, fpc, todo, msg, wpc, wmsg, ret,
                   streaming, podSeen, polls, wireVars, peerVars>>

\* MinioLog.Start: each line, and an error, goes straight to the channel.
MinioLine ==
    /\ mpc = "object"
    /\ \/ /\ made["log"] < MaxItems
          /\ made' = [made EXCEPT !["log"] = @ + 1]
          /\ msg' = [msg EXCEPT !["monitor"] =
                       [kind |-> "log", items |-> <<made["log"] + 1>>]]
          /\ ret' = "object"
       \/ /\ msg' = [msg EXCEPT !["monitor"] = StatMsg]
          /\ ret' = "done"
          /\ UNCHANGED made
    /\ mpc' = "direct"
    /\ UNCHANGED <<lock, closed, dead, msgCache, sendingFlag, timer, fpc, todo,
                   wpc, wmsg, streaming, podSeen, polls, closer, wireVars, peerVars>>

MinioSend ==
    /\ mpc = "direct" /\ Handover("monitor")
    /\ mpc' = IF closed THEN "done" ELSE ret
    /\ UNCHANGED <<lock, closed, dead, cacheVars, fpc, todo, ret, streaming, podSeen, polls,
                   closer, wireVars, peerVars>>

\* The end of the object: lines 32-36.
MinioEnd ==
    /\ mpc = "object"
    /\ mpc' = "done"
    /\ UNCHANGED <<lock, closed, dead, cacheVars, fpc, todo, msg, wpc, wmsg, ret,
                   streaming, podSeen, polls, closer, wireVars, peerVars>>

-----------------------------------------------------------------------------
\* onClose, under the mutex.
onClose ==
    /\ lock = "free"
    /\ closed' = TRUE

\* Lines 141-146: a write fails once the socket is closed, and may fail once
\* the peer is gone; gorilla/websocket fails every later write as well.
WriterWrite ==
    /\ wpc = "write"
    /\ \/ /\ ~closed /\ ~broken
          /\ wire' = IF wmsg.kind \in Kinds
                     THEN [wire EXCEPT ![wmsg.kind] = @ \o wmsg.items] ELSE wire
          /\ ended' = (ended \/ wmsg.kind = "end")
          /\ wpc' = "select"
          /\ UNCHANGED broken
       \/ /\ closed \/ broken \/ gone
          /\ broken' = TRUE
          /\ wpc' = "close"
          /\ UNCHANGED <<wire, ended>>
    /\ wmsg' = NoMsg
    /\ UNCHANGED <<lock, closed, dead, cacheVars, fpc, todo, msg, monVars,
                   peerVars>>

WriterClose ==
    /\ wpc = "close" /\ onClose
    /\ wpc' = "select"
    /\ UNCHANGED <<lock, dead, cacheVars, fpc, todo, msg, wmsg, monVars, wireVars,
                   peerVars>>

WriterExit ==
    /\ wpc = "select" /\ closed
    /\ wpc' = "exit"
    /\ UNCHANGED <<lock, closed, dead, cacheVars, fpc, todo, msg, wmsg, monVars,
                   wireVars, peerVars>>

\* Lines 123-126: ReadMessage returns an error.  What the peer sends changes
\* nothing: onMessage decodes it and drops it.
ReaderError ==
    /\ rpc = "read" /\ (gone \/ closed)
    /\ rpc' = "close"
    /\ UNCHANGED <<lock, closed, dead, cacheVars, fpc, todo, msg, wpc, wmsg,
                   monVars, wireVars, gone>>

\* The onClose of line 126, then line 119.
ReaderClose ==
    /\ rpc = "close" /\ onClose
    /\ rpc' = "exit"
    /\ UNCHANGED <<lock, dead, cacheVars, fpc, todo, msg, wpc, wmsg, monVars,
                   wireVars, gone>>

CloserFires ==
    /\ closer = "armed" /\ onClose
    /\ closer' = "done"
    /\ UNCHANGED <<lock, dead, cacheVars, fpc, todo, msg, wpc, wmsg, mpc, ret,
                   streaming, podSeen, polls, wireVars, peerVars>>

PeerLeaves ==
    /\ ~gone
    /\ gone' = TRUE
    /\ UNCHANGED <<lock, closed, dead, cacheVars, fpc, todo, msg, wpc, wmsg,
                   monVars, wireVars, rpc>>

\* The unlocked loop meets a map operation of another goroutine: the runtime
\* may end the process ("concurrent map iteration and map write").
FatalError ==
    /\ mpc = "range"
    /\ \/ \E f \in Flushers : fpc[f] = "range"
       \/ lock = "free" /\ \E k \in Stats : made[k] < MaxItems
    /\ dead' = TRUE
    /\ UNCHANGED <<lock, closed, cacheVars, fpc, todo, msg, wpc, wmsg, monVars,
                   wireVars, peerVars>>

-----------------------------------------------------------------------------
Init ==
    /\ lock = "free"
    /\ closed = FALSE /\ dead = FALSE /\ gone = FALSE /\ broken = FALSE
    /\ msgCache = [k \in Kinds |-> <<>>]
    /\ sendingFlag = FALSE /\ timer = FALSE
    /\ fpc = [f \in Flushers |-> "none"]
    /\ todo = [p \in Senders |-> {}]
    /\ \E s \in Sources : mpc \in IF s = "minio" THEN {"object"} ELSE {"poll", "open"}
    /\ ret = "done"
    /\ msg = [p \in Senders |-> NoMsg]
    /\ wpc = "select" /\ wmsg = NoMsg
    /\ rpc = "read"
    /\ closer = "none"
    /\ streaming = FALSE
    /\ made = [k \in Kinds |-> 0]
    /\ podSeen = FALSE /\ polls = 0
    /\ wire = [k \in Kinds |-> <<>>]
    /\ ended = FALSE

Flush(f) == FireTimer(f) \/ FlushLock(f) \/ FlushTake(f) \/ FlushSend(f) \/ FlushEnd(f)

Monitor ==
    \/ Poll \/ Open \/ CopyEnd \/ MidLock \/ MidSend
    \/ UnlockedFlush \/ UnlockedTake \/ UnlockedSend \/ UnlockedEnd \/ Return
    \/ MinioLine \/ MinioSend \/ MinioEnd

Writer == WriterWrite \/ WriterClose \/ WriterExit
Reader == ReaderError \/ ReaderClose

Next ==
    /\ ~dead
    /\ \/ \E k \in Stats : WriteStat(k)
       \/ WriteLog
       \/ \E f \in Flushers : Flush(f)
       \/ Monitor \/ Writer \/ Reader \/ CloserFires
       \/ PeerLeaves \/ FatalError

Spec == Init /\ [][Next]_vars

(***************************************************************************)
(* Fairness: the Go scheduler runs every goroutine that is not blocked, and  *)
(* a timer fires.  The peer, the container and the pod owe nothing: no       *)
(* fairness for what comes from them.                                        *)
(***************************************************************************)
Running ==
    \/ MidLock \/ MidSend \/ UnlockedFlush \/ UnlockedTake \/ UnlockedSend
    \/ UnlockedEnd \/ Return \/ MinioSend

Fairness ==
    /\ \A f \in Flushers : WF_vars(~dead /\ Flush(f))
    /\ WF_vars(~dead /\ Running)
    /\ WF_vars(~dead /\ Writer)
    /\ WF_vars(~dead /\ Reader)
    /\ WF_vars(~dead /\ CloserFires)

FairSpec == Spec /\ Fairness

-----------------------------------------------------------------------------
Live(f) == fpc[f] # "none"

Messages ==
    [kind : Kinds \cup {"none", "stat", "end"}, items : Seq(1 .. MaxItems)]

\* Every variable of the model stays in its range.
TypeOK ==
    /\ lock \in Senders \cup {"free"}
    /\ closed \in BOOLEAN /\ dead \in BOOLEAN /\ gone \in BOOLEAN
    /\ broken \in BOOLEAN /\ sendingFlag \in BOOLEAN /\ timer \in BOOLEAN
    /\ streaming \in BOOLEAN /\ podSeen \in BOOLEAN /\ ended \in BOOLEAN
    /\ msgCache \in [Kinds -> Seq(1 .. MaxItems)]
    /\ fpc \in [Flushers -> {"none", "wait", "range", "send"}]
    /\ todo \in [Senders -> SUBSET Kinds]
    /\ mpc \in {"poll", "open", "copy", "flush", "range", "send", "mid",
                "midsend", "return", "object", "direct", "done"}
    /\ ret \in {"poll", "open", "flush", "return", "object", "done"}
    /\ msg \in [Senders -> Messages]
    /\ wpc \in {"select", "write", "close", "exit"} /\ wmsg \in Messages
    /\ rpc \in {"read", "close", "exit"}
    /\ closer \in {"none", "armed", "done"}
    /\ made \in [Kinds -> 0 .. MaxItems]
    /\ polls \in 0 .. MaxPolls
    /\ wire \in [Kinds -> Seq(1 .. MaxItems)]

\* A record never stays behind in the cache of an open connection: a timer is
\* running, or a flush goroutine has yet to end (lines 87-95 and 112).  The
\* unlocked flush clears sendingFlag behind the back of both.
NoStrandedRecords ==
    Cached # {} /\ ~closed => timer \/ \E f \in Flushers : Live(f)

\* The unlocked flush can make a second timer run beside a waiting callback,
\* never a third (lines 87-94).
AtMostTwoFlushes ==
    Cardinality({f \in Flushers : Live(f)}) + (IF timer THEN 1 ELSE 0) <= 2

\* A goroutine that sends under the mutex (lines 71 and 107) never faces a
\* connection that is closed already, whose writer would not take the message.
LockedSendsOpen ==
    \A p \in Senders : lock = p => ~closed

\* LOG_END reaches the peer only after every record of the log that StdCopy
\* read, although the cache is flushed by timer callbacks and, without the
\* mutex, by the monitor (lines 245-250 of DockerLog.go).
EndAfterLog == ended => 1 .. made["log"] \subseteq Range(wire["log"])

\* A record that the peer sees for the first time is newer than all that it has
\* seen of that kind.
FreshInOrder ==
    \A k \in Kinds : \A j \in DOMAIN wire[k] :
        LET earlier == {wire[k][i] : i \in 1 .. j - 1}
        IN  wire[k][j] \notin earlier => \A e \in earlier : e < wire[k][j]

Times(k, i) == Cardinality({j \in DOMAIN wire[k] : wire[k][j] = i})

\* While the log is followed the peer sees a record once; the unlocked flush at
\* the end can repeat records that a timer callback is sending, once.
AtMostTwice ==
    \A k \in Kinds, i \in 1 .. MaxItems :
        Times(k, i) <= IF mpc \in {"poll", "open", "copy"} THEN 1 ELSE 2

\* The flushes, locked and unlocked, show the peer the records of a kind in
\* their order and repeat one only at the end of the log, once.
RecordsInOrder == FreshInOrder /\ AtMostTwice

\* A log record in the cache reaches the peer, unless the connection is closed
\* or a write fails.
LogDelivered ==
    \A i \in 1 .. MaxItems :
        i \in Range(msgCache["log"])
            ~> (i \in Range(wire["log"]) \/ closed \/ broken \/ dead)

\* When the peer leaves, the reader closes the connection (line 126), unless a
\* write fails first: the writer's own onClose can then wait for a sender that
\* waits for the writer.
PeerGoneCloses == gone ~> (closed \/ broken \/ dead)

\* The same without exception where no goroutine sends under the mutex, as in
\* MinioLog.Start: the writer's onClose can always go on.
PeerGoneAlwaysCloses == gone /\ mpc \in {"object", "direct"} ~> closed

\* When the log ends the connection is closed (lines 240-242).
LogEndCloses == mpc = "flush" ~> (closed \/ broken \/ dead)

\* No connection outlives its peer or its log: onClose is reached in each case.
ConnectionCloses == PeerGoneCloses /\ PeerGoneAlwaysCloses /\ LogEndCloses
=============================================================================
