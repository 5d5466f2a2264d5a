------------------------------ MODULE StdCopy ------------------------------
(***************************************************************************)
(* container_log/StuCopy.go: the log of a container comes as one stream of   *)
(* frames, a header and a payload each.  stdWriter.Write puts a frame on the *)
(* stream; StdCopy reads the stream in pieces of any length, finds the       *)
(* frames and hands each payload to outFun (ConnectDef.write, the WriteLog   *)
(* of LogConnection).  A byte is known by its offset in the stream.          *)
(***************************************************************************)
EXTENDS Naturals, Sequences

CONSTANTS
    HeaderLen,      \* stdWriterPrefixLen, 8 in the code
    StartingBufLen, \* startingBufLen, 32 KiB + HeaderLen + 1 in the code
    PayloadSizes,   \* frame sizes that occur
    MaxFrames       \* bound on the frames sent

ASSUME CopyAssumption ==
    /\ HeaderLen \in Nat \ {0}
    /\ StartingBufLen \in Nat
    /\ StartingBufLen > HeaderLen
    /\ PayloadSizes \subseteq Nat
    /\ MaxFrames \in Nat

VARIABLES
    frames,     \* frames written, each with the offset its header starts at
    total,      \* bytes written
    arriving,   \* bytes that will arrive: total unless the connection is cut
    ending,     \* "open", or how the stream ends for the reader: "EOF", "error"
    copyPc,     \* "header", "frame" (the two read loops) or "returned"
    base,       \* offset of the byte at buf[0]
    nr,         \* bytes in the buffer
    bufLen,     \* length of the buffer
    frameSize,  \* size in the header at buf[0]
    out         \* frames handed to outFun

copyVars == <<frames, total, arriving, ending, copyPc, base, nr, bufLen,
              frameSize, out>>
streamVars == <<frames, total, arriving, ending>>
readerVars == <<copyPc, base, nr, bufLen, frameSize, out>>

LogStreams == {"stdin", "stdout", "stderr"}
StdType == LogStreams \cup {"systemerr", "unknown"}

FrameRecords == [kind : StdType, size : PayloadSizes, at : Nat]
OutRecords == [kind : StdType, size : Nat]

\* The header at an offset where no frame starts is garbage.
Garbage == [kind |-> "unknown", size |-> 0]

StartsAt(o) == {i \in 1 .. Len(frames) : frames[i].at = o}
Frame(i) == [kind |-> frames[i].kind, size |-> frames[i].size]

HeaderAt(o) ==
    IF StartsAt(o) = {} THEN Garbage
    ELSE Frame(CHOOSE i \in StartsAt(o) : TRUE)

CopyInit ==
    /\ frames = <<>>
    /\ total = 0
    /\ arriving = 0
    /\ ending = "open"
    /\ copyPc = "header"
    /\ base = 0
    /\ nr = 0
    /\ bufLen = StartingBufLen
    /\ frameSize = 0
    /\ out = <<>>

-----------------------------------------------------------------------------
\* stdWriter.Write: header and payload go out in one piece.
StdWrite(k, s) ==
    /\ ending = "open" /\ Len(frames) < MaxFrames
    /\ frames' = Append(frames, [kind |-> k, size |-> s, at |-> total])
    /\ total' = total + HeaderLen + s
    /\ arriving' = total'
    /\ UNCHANGED <<ending, readerVars>>

\* The daemon ends the stream, or the connection goes and with it any part
\* of what has not been read.
EndStream(n, how) ==
    /\ ending = "open"
    /\ base + nr <= n /\ n <= total
    /\ arriving' = n
    /\ ending' = how
    /\ UNCHANGED <<frames, total, readerVars>>

Needed == IF copyPc = "header" THEN HeaderLen ELSE frameSize + HeaderLen

\* Lines 106-119 and 152-165: one call of src.Read in one of the two loops;
\* it gives n bytes, and with the last of them or after them the end.
Read(n, er) ==
    /\ copyPc \in {"header", "frame"}
    /\ nr < Needed
    /\ n <= bufLen - nr
    /\ base + nr + n <= arriving
    /\ IF er THEN ending # "open" /\ base + nr + n = arriving ELSE n > 0
    /\ nr' = nr + n
    /\ copyPc' = IF er /\ (ending = "error" \/ nr + n < Needed)
                 THEN "returned" ELSE copyPc
    /\ UNCHANGED <<streamVars, base, bufLen, frameSize, out>>

\* Lines 121-149: the kind is looked at, the buffer grows if it has to.
ReadHeader ==
    /\ copyPc = "header" /\ nr >= HeaderLen
    /\ LET h == HeaderAt(base) IN
       \/ /\ h.kind = "unknown"
          /\ copyPc' = "returned"
          /\ UNCHANGED <<bufLen, frameSize>>
       \/ /\ h.kind # "unknown"
          /\ copyPc' = "frame"
          /\ frameSize' = h.size
          /\ bufLen' = IF h.size + HeaderLen > bufLen
                       THEN bufLen + (h.size + HeaderLen - bufLen + 1)
                       ELSE bufLen
    /\ UNCHANGED <<streamVars, base, nr, out>>

\* Mutant: an error frame is shown as log.
CopyFrameAny ==
    /\ copyPc = "frame" /\ nr >= frameSize + HeaderLen
    /\ out' = Append(out, [kind |-> HeaderAt(base).kind, size |-> frameSize])
    /\ base' = base + (frameSize + HeaderLen)
    /\ nr' = nr - (frameSize + HeaderLen)
    /\ copyPc' = "header"
    /\ UNCHANGED <<streamVars, bufLen, frameSize>>

\* Lines 167-191: the payload goes to outFun (dstout is ioutil.Discard, which
\* takes everything) and the rest of the buffer moves to its beginning.
CopyFrame ==
    /\ copyPc = "frame" /\ nr >= frameSize + HeaderLen
    /\ \/ /\ HeaderAt(base).kind = "systemerr"
          /\ copyPc' = "returned"
          /\ UNCHANGED <<base, nr, out>>
       \/ /\ HeaderAt(base).kind # "systemerr"
          /\ out' = Append(out, [kind |-> HeaderAt(base).kind, size |-> frameSize])
          /\ base' = base + (frameSize + HeaderLen)
          /\ nr' = nr - (frameSize + HeaderLen)
          /\ copyPc' = "header"
    /\ UNCHANGED <<streamVars, bufLen, frameSize>>

Daemon ==
    \/ \E k \in StdType, s \in PayloadSizes : StdWrite(k, s)
    \/ \E n \in 0 .. total, how \in {"EOF", "error"} : EndStream(n, how)

Reader ==
    \/ \E n \in 0 .. bufLen, er \in BOOLEAN : Read(n, er)
    \/ ReadHeader
    \/ CopyFrame

CopyNext == Daemon \/ Reader

CopySpec == CopyInit /\ [][CopyNext]_copyVars

-----------------------------------------------------------------------------
\* Types of the variables; every byte count of StdCopy stays a natural number.
CopyTypeOK ==
    /\ frames \in Seq(FrameRecords)
    /\ total \in Nat
    /\ arriving \in Nat
    /\ ending \in {"open", "EOF", "error"}
    /\ copyPc \in {"header", "frame", "returned"}
    /\ base \in Nat
    /\ nr \in Nat
    /\ bufLen \in Nat
    /\ frameSize \in Nat
    /\ out \in Seq(OutRecords)

\* What has been read is not lost before it is needed: the buffer always has
\* room for what the loop waits for, so no call of src.Read is made with an
\* empty slice, which would return nothing for ever (lines 108, 146-148, 154).
ReadHasRoom ==
    copyPc # "returned" => nr <= bufLen /\ Needed <= bufLen

\* buf[0] is the first byte of the first frame that has not been handed out,
\* whatever the pieces in which the stream was read (lines 189-191).
AtFrameStart ==
    /\ Len(out) <= Len(frames)
    /\ base = IF Len(out) < Len(frames) THEN frames[Len(out) + 1].at ELSE total

\* StdCopy with the writer at the other end implements the frame channel: the
\* log connection gets the frames written, whole, once and in order, and
\* StdCopy returns early only at an error frame or a cut.
Channel == INSTANCE FrameChannel WITH
    Kinds <- StdType,
    LogKinds <- LogStreams,
    Sizes <- PayloadSizes,
    sent <- [i \in 1 .. Len(frames) |-> Frame(i)],
    received <- out,
    closed <- ending # "open",
    cut <- ending = "error" \/ arriving < total,
    stopped <- copyPc = "returned"

\* The specification of the channel, under the mapping above, which StdCopy
\* implements.
ChannelSpec == Channel!ChanSpec

\* A call of src.Read returns what has arrived.
FairCopySpec == CopySpec /\ WF_copyVars(Reader)

\* StdCopy returns once the stream has ended, in whatever pieces it was read and
\* wherever it was cut.
CopyReturns == <>[](ending # "open" => copyPc = "returned")
=============================================================================
