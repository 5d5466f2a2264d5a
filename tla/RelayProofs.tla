---------------------------- MODULE RelayProofs ----------------------------
(***************************************************************************)
(* What passes through the relays.  StdCopy with the writer at the other end *)
(* implements FrameChannel, for every header length, every starting buffer    *)
(* that holds more than a header, every set of frame sizes and every number   *)
(* of frames.  What a caller is told of a relayed call, for any number of     *)
(* calls, attempts and callback tries, and whatever the calls are.  The part  *)
(* of an object that a Range header asks for.                                 *)
(***************************************************************************)
EXTENDS StdCopy, NodeCalls, HttpRange, TLAPS

\* RangeExact for every header of int64 positions and every size of an object:
\* what GetOffsetLength of utils/httprange.go returns is what was asked for.
THEOREM RangeIsExact ==
  ASSUME NEW h \in Headers(0 .. MaxInt, 0 .. MaxInt), NEW size \in 0 .. MaxInt
  PROVE  RangeExact(h, size)
<1> USE MaxIntAssumption
<1> SUFFICES ASSUME ~ParseRejects(h) PROVE RangeExact(h, size)
  BY Zenon DEF RangeExact
<1>1. h.first \in Fields(0 .. MaxInt) /\ h.last \in Fields(0 .. MaxInt)
  BY Zenon DEF Headers
<1>2. h.first.form \in {"empty", "number"} /\ h.last.form \in {"empty", "number"}
  BY Zenon DEF ParseRejects, FieldValid
<1>3. CASE h.first.form = "number" /\ h.last.form = "number"
  <2>1. PICK a \in Nat, z \in Nat : a = h.first.val /\ z = h.last.val
    BY <1>1, <1>3 DEF Fields
  <2>2. a <= z
    BY <1>3, <2>1 DEF ParseRejects, Offset
  <2>3. ParseRequestRangeSpec(h) = [isSuffixLength |-> FALSE, start |-> a, end |-> z]
    BY <1>3, <2>1 DEF ParseRequestRangeSpec, Offset
  <2>4. WantedBytes(h, size) = {b \in 0 .. size - 1 : b >= a /\ b <= z}
    BY <1>3, <2>1, Zenon DEF WantedBytes
  <2>5. ParseRequestRangeSpec(h) # NilSpec
    BY <2>1, <2>3 DEF NilSpec
  <2>6. CASE a >= size
    <3>1. GetOffsetLength(ParseRequestRangeSpec(h), size) = Failed
      BY <2>1, <2>3, <2>5, <2>6 DEF GetOffsetLength, GetLengthFails
    <3> QED BY <1>3, <2>1, <2>6, <3>1 DEF RangeExact, Failed
  <2>7. CASE a < size
    <3>1. PICK n \in Nat : n = (IF size <= z THEN size - 1 ELSE z) - a + 1
      BY <2>1, <2>2, <2>7
    <3>2. GetOffsetLength(ParseRequestRangeSpec(h), size) = Selected(a, n)
      <4>1. ~GetLengthFails(ParseRequestRangeSpec(h), size)
        BY <2>1, <2>3, <2>7 DEF GetLengthFails
      <4>2. GetLength(ParseRequestRangeSpec(h), size) = n
        BY <2>1, <2>3, <2>5, <3>1 DEF GetLength
      <4> QED BY <2>3, <2>5, <4>1, <4>2 DEF GetOffsetLength
    <3>3. /\ a + n <= size /\ a + n <= z + 1
          /\ a + n = size \/ a + n = z + 1
      <4>1. CASE size <= z
        <5>1. n = (size - 1) - a + 1
          BY <3>1, <4>1, Zenon
        <5> QED BY <4>1, <5>1
      <4>2. CASE ~(size <= z)
        <5>1. n = z - a + 1
          BY <3>1, <4>2, Zenon
        <5> QED BY <4>2, <5>1
      <4> QED BY <4>1, <4>2, Zenon
    <3>4. ASSUME NEW b \in Int
          PROVE  (a <= b /\ b < a + n) <=> (b \in 0 .. size - 1 /\ b >= a /\ b <= z)
      BY <3>3
    <3>5. \A b \in Int : (a <= b /\ b < a + n) <=> b \in WantedBytes(h, size)
      BY <2>4, <3>4, Zenon
    <3> QED BY <1>3, <2>1, <2>7, <3>2, <3>3, <3>5 DEF RangeExact, Selected
  <2> QED BY <2>1, <2>6, <2>7
<1>4. CASE h.first.form = "number" /\ h.last.form = "empty"
  <2>1. PICK a \in Nat : a = h.first.val
    BY <1>1, <1>4 DEF Fields
  <2>3. ParseRequestRangeSpec(h) = [isSuffixLength |-> FALSE, start |-> a, end |-> -1]
    BY <1>4, <2>1 DEF ParseRequestRangeSpec, Offset
  <2>4. WantedBytes(h, size) = {b \in 0 .. size - 1 : b >= a}
    BY <1>4, <2>1, Zenon DEF WantedBytes
  <2>5. ParseRequestRangeSpec(h) # NilSpec
    BY <2>1, <2>3 DEF NilSpec
  <2>6. CASE a >= size
    <3>1. GetOffsetLength(ParseRequestRangeSpec(h), size) = Failed
      BY <2>1, <2>3, <2>5, <2>6 DEF GetOffsetLength, GetLengthFails
    <3> QED BY <1>4, <2>1, <2>6, <3>1 DEF RangeExact, Failed
  <2>7. CASE a < size
    <3>1. GetOffsetLength(ParseRequestRangeSpec(h), size) = Selected(a, size - a)
      BY <2>1, <2>3, <2>5, <2>7 DEF GetOffsetLength, GetLengthFails, GetLength
    <3> QED BY <1>4, <2>1, <2>4, <2>7, <3>1 DEF RangeExact, Selected
  <2> QED BY <2>1, <2>6, <2>7
<1>5. CASE h.first.form = "empty"
  <2>1. h.last.form = "number"
    BY <1>2, <1>5, Zenon DEF ParseRejects, Offset
  <2>2. PICK z \in Nat : z = h.last.val /\ z > 0
    BY <1>1, <1>5, <2>1 DEF Fields, ParseRejects, Offset
  <2>3. ParseRequestRangeSpec(h) = [isSuffixLength |-> TRUE, start |-> -z, end |-> -1]
    BY <1>5, <2>1, <2>2 DEF ParseRequestRangeSpec, Offset
  <2>4. WantedBytes(h, size) = {b \in 0 .. size - 1 : b >= size - z}
    BY <1>5, <2>2, Zenon DEF WantedBytes
  <2>5. ParseRequestRangeSpec(h) # NilSpec
    BY <2>3 DEF NilSpec
  <2>6. PICK a \in Nat, n \in Nat : /\ a = (IF size - z < 0 THEN 0 ELSE size - z)
                                    /\ n = (IF z > size THEN size ELSE z)
    BY <2>2
  <2>7. GetOffsetLength(ParseRequestRangeSpec(h), size) = Selected(a, n)
    <3>1. ~GetLengthFails(ParseRequestRangeSpec(h), size)
      BY <2>3 DEF GetLengthFails
    <3>2. GetLength(ParseRequestRangeSpec(h), size) = n
      BY <2>2, <2>3, <2>5, <2>6 DEF GetLength
    <3>3. a = (IF size + (-z) < 0 THEN 0 ELSE size + (-z))
      BY <2>2, <2>6, Zenon
    <3> QED BY <2>3, <2>5, <3>1, <3>2, <3>3 DEF GetOffsetLength
  <2>8. a + n = size
    <3>1. CASE z > size
      BY <2>2, <2>6, <3>1
    <3>2. CASE ~(z > size)
      BY <2>2, <2>6, <3>2
    <3> QED BY <3>1, <3>2, Zenon
  <2>9. ASSUME NEW b \in Int
        PROVE  (a <= b /\ b < size) <=> (b \in 0 .. size - 1 /\ b >= size - z)
    <3>1. CASE size - z < 0
      <4>1. a = 0
        BY <2>6, <3>1, Zenon
      <4> QED BY <2>2, <3>1, <4>1
    <3>2. CASE ~(size - z < 0)
      <4>1. a = size - z
        BY <2>6, <3>2, Zenon
      <4> QED BY <2>2, <3>2, <4>1
    <3> QED BY <3>1, <3>2, Zenon
  <2>10. \A b \in Int : (a <= b /\ b < a + n) <=> b \in WantedBytes(h, size)
    BY <2>4, <2>8, <2>9, Zenon
  <2> QED BY <1>5, <2>2, <2>7, <2>8, <2>10 DEF RangeExact, Selected
<1> QED BY <1>2, <1>3, <1>4, <1>5, Zenon

-----------------------------------------------------------------------------
USE CallsAssumption DEF CallsAssumption, Calls, Attempts

Words == Outcomes \cup {"accepted"}
RelayStates == {"none", "post", "wait", "failed", "over"}
RemoteStates == {"none", "sent", "gone", "ok", "fail", "refused"}

\* The types that what a caller is told depends on.
Typed ==
    /\ param \in [Calls -> Params]
    /\ handler \in [Calls -> {"none", "running", "returned"}]
    /\ relay \in [Calls -> RelayStates]
    /\ tries \in [Calls -> Nat]
    /\ remote \in [Calls -> [Attempts -> RemoteStates]]
    /\ body \in [Calls -> Seq(Words)]
    /\ callbacks \in [Calls -> Seq(CallbackRecords)]
    /\ got \in [Calls -> SUBSET ({0, 1} \X Outcomes)]

\* The attempts up to the last one have been made, and no more than allowed.
Made(c) ==
    /\ \A n \in Attempts : n <= tries[c] => remote[c][n] # "none"
    /\ tries[c] <= Limit(c)
    /\ handler[c] = "none" => relay[c] = "none"
    /\ relay[c] = "none" => tries[c] = 0
    /\ relay[c] = "post" => tries[c] < Limit(c)
    /\ relay[c] = "wait" => tries[c] > 0
    /\ relay[c] = "failed" => tries[c] = Limit(c)

\* Nothing has been told of the outcome.
Untold(c) ==
    /\ \A i \in 1 .. Len(body[c]) : body[c][i] = "accepted"
    /\ callbacks[c] = <<>>
    /\ got[c] = {}

\* The answer, the callbacks on their way and those that have arrived all tell
\* the outcome o, and what it says is so.
Settled(c, o) ==
    /\ \A i \in 1 .. Len(body[c]) : body[c][i] \in {"accepted", o}
    /\ \A i \in 1 .. Len(callbacks[c]) :
          callbacks[c][i].what = o /\ (o = "FAIL" => callbacks[c][i].status = 0)
    /\ \A g \in got[c] : g[2] = o /\ (o = "FAIL" => g[1] = 0)
    /\ o = "ok" => ~Relayed(c) \/ \E n \in Attempts : remote[c][n] = "ok"
    /\ o = "FAIL" => tries[c] = Limit(c)

\* The inductive invariant, call by call: until the relaying is over nothing
\* is told, and then one outcome.
CallInv(c) ==
    /\ Made(c)
    /\ relay[c] # "over" => Untold(c)
    /\ relay[c] = "over" => \E o \in Outcomes : Settled(c, o)

ToldInv == Typed /\ \A c \in Calls : CallInv(c)

-----------------------------------------------------------------------------
\* A call that no step touches keeps its invariant.
LEMMA Unmoved ==
    ASSUME NEW d \in Calls, CallInv(d), param' = param,
           handler'[d] = handler[d], relay'[d] = relay[d], tries'[d] = tries[d], remote'[d] = remote[d],
           body'[d] = body[d], callbacks'[d] = callbacks[d], got'[d] = got[d]
    PROVE  CallInv(d)'
  BY DEF CallInv, Made, Untold, Settled, Limit, Relayed

\* What is at the places of a sequence with one more element.
LEMMA Appended ==
    ASSUME NEW S, NEW s \in Seq(S), NEW e \in S
    PROVE  /\ Append(s, e) \in Seq(S)
           /\ Len(Append(s, e)) = Len(s) + 1
           /\ \A i \in 1 .. Len(Append(s, e)) : Append(s, e)[i] = e \/
                 (i \in 1 .. Len(s) /\ Append(s, e)[i] = s[i])
<1>1. Len(s) \in Nat
  OBVIOUS
<1>2. QED
  BY <1>1

\* A sequence with one element replaced.
LEMMA Replaced ==
    ASSUME NEW S, NEW s \in Seq(S), NEW i \in 1 .. Len(s), NEW e \in S
    PROVE  /\ [s EXCEPT ![i] = e] \in Seq(S)
           /\ Len([s EXCEPT ![i] = e]) = Len(s)
           /\ \A j \in 1 .. Len(s) : [s EXCEPT ![i] = e][j] = IF j = i THEN e ELSE s[j]
  OBVIOUS

\* Write: one more word in the answer of one call.
LEMMA Written ==
    ASSUME Typed, NEW c \in Calls, NEW w \in Words, Write(c, w)
    PROVE  /\ body' \in [Calls -> Seq(Words)]
           /\ \A d \in Calls : d # c => body'[d] = body[d]
           /\ \A i \in 1 .. Len(body'[c]) :
                 body'[c][i] = w \/ (i \in 1 .. Len(body[c]) /\ body'[c][i] = body[c][i])
<1>1. body[c] \in Seq(Words)
  BY Zenon DEF Typed
<1>2. body' = [body EXCEPT ![c] = Append(body[c], w)]
  BY Zenon DEF Write
<1>3. body'[c] = Append(body[c], w) /\ \A d \in Calls : d # c => body'[d] = body[d]
  BY <1>2, Zenon DEF Typed
<1>4. Append(body[c], w) \in Seq(Words)
  BY <1>1, Appended, Zenon
<1>5. body' \in [Calls -> Seq(Words)]
  BY <1>2, <1>4, Zenon DEF Typed
<1>6. \A i \in 1 .. Len(body'[c]) :
         body'[c][i] = w \/ (i \in 1 .. Len(body[c]) /\ body'[c][i] = body[c][i])
  BY <1>1, <1>3, Appended
<1>7. QED
  BY <1>3, <1>5, <1>6, Zenon

\* Callback: one more callback with the outcome, or none.
LEMMA CalledBack ==
    ASSUME Typed, NEW c \in Calls, NEW status \in {0, 1}, NEW w \in Outcomes,
           Callback(c, status, w), callbacks[c] = <<>>
    PROVE  /\ callbacks' \in [Calls -> Seq(CallbackRecords)]
           /\ \A d \in Calls : d # c => callbacks'[d] = callbacks[d]
           /\ \A i \in 1 .. Len(callbacks'[c]) :
                 callbacks'[c][i].what = w /\ callbacks'[c][i].status = status
<1> DEFINE r == [status |-> status, what |-> w,
                 left |-> IF param[c].url THEN CallbackTries ELSE 0]
           new == IF param[c].op \in FileOps THEN callbacks[c] ELSE Append(callbacks[c], r)
<1>1. r \in CallbackRecords /\ r.what = w /\ r.status = status
  BY DEF CallbackRecords
<1>2. callbacks[c] \in Seq(CallbackRecords)
  BY Zenon DEF Typed
<1>3. callbacks' = [callbacks EXCEPT ![c] = new]
  BY Zenon DEF Callback
<1> HIDE DEF r
<1>4. new \in Seq(CallbackRecords)
  BY <1>1, <1>2, Appended, Zenon
<1>5. \A i \in 1 .. Len(new) : new[i] = r
  <2>1. CASE param[c].op \in FileOps
    BY <2>1
  <2>2. CASE param[c].op \notin FileOps
    BY <1>1, <1>2, <2>2, Appended
  <2>3. QED
    BY <2>1, <2>2, Zenon
<1> HIDE DEF new
<1>6. callbacks'[c] = new /\ \A d \in Calls : d # c => callbacks'[d] = callbacks[d]
  BY <1>3, Zenon DEF Typed
<1>7. callbacks' \in [Calls -> Seq(CallbackRecords)]
  BY <1>3, <1>4, Zenon DEF Typed
<1>8. QED
  BY <1>1, <1>5, <1>6, <1>7, Zenon

-----------------------------------------------------------------------------
\* The attempts allowed are a number of attempts.
LEMMA LimitType == ASSUME NEW c \in Calls PROVE Limit(c) \in Attempts
  BY DEF Limit

\* A handler begins.
LEMMA ArriveKeeps ==
    ASSUME ToldInv, NEW c \in Calls, NEW op, Arrive(c, op)
    PROVE  ToldInv'
<1>1. Typed'
  BY Zenon DEF ToldInv, Typed, Arrive, RelayStates
<1>2. CallInv(c)'
  <2>1. relay'[c] = "post"
    BY Zenon DEF ToldInv, Typed, Arrive
  <2>2. Limit(c)' = Limit(c) /\ Limit(c) \in Attempts /\ tries[c] \in Nat
    BY LimitType, Zenon DEF ToldInv, Typed, Arrive, Limit
  <2>3. Made(c) /\ Untold(c) /\ tries[c] = 0
    BY Zenon DEF ToldInv, CallInv, Made, Arrive
  <2>4. Made(c)'
    BY <2>1, <2>2, <2>3 DEF Made, Arrive, ToldInv, Typed
  <2>5. Untold(c)'
    BY <2>3, Zenon DEF Untold, Arrive
  <2>6. QED
    BY <2>1, <2>4, <2>5, Zenon DEF CallInv
<1>3. ASSUME NEW d \in Calls, d # c PROVE CallInv(d)'
  BY <1>3, Unmoved, Zenon DEF ToldInv, Typed, Arrive
<1>4. QED
  BY <1>1, <1>2, <1>3, Zenon DEF ToldInv

\* The immediate answer of a detached call tells no outcome.
LEMMA AnswerAtOnceKeeps ==
    ASSUME ToldInv, NEW c \in Calls, AnswerAtOnce(c)
    PROVE  ToldInv'
<1>1. Typed /\ CallInv(c) /\ "accepted" \in Words
  BY Zenon DEF ToldInv, Words
<1>2. Write(c, "accepted")
  BY Zenon DEF AnswerAtOnce
<1>3. /\ body' \in [Calls -> Seq(Words)]
      /\ \A d \in Calls : d # c => body'[d] = body[d]
      /\ \A i \in 1 .. Len(body'[c]) :
            body'[c][i] = "accepted" \/ (i \in 1 .. Len(body[c]) /\ body'[c][i] = body[c][i])
  BY <1>1, <1>2, Written, Zenon
<1>4. Typed'
  BY <1>1, <1>3, Zenon DEF Typed, AnswerAtOnce
<1>5. Made(c)'
  BY <1>1, Zenon DEF CallInv, Made, AnswerAtOnce, Limit, Typed
<1>6. ASSUME relay[c] # "over" PROVE Untold(c)'
  BY <1>1, <1>3, <1>6, Zenon DEF CallInv, Untold, AnswerAtOnce
<1>7. ASSUME relay[c] = "over" PROVE \E o \in Outcomes : Settled(c, o)'
  <2>1. PICK o \in Outcomes : Settled(c, o)
    BY <1>1, <1>7, Zenon DEF CallInv
  <2>2. Settled(c, o)'
    BY <1>3, <2>1, Zenon DEF Settled, AnswerAtOnce, Limit, Relayed
  <2>3. QED
    BY <2>2, Zenon
<1>8. ASSUME NEW d \in Calls, d # c PROVE CallInv(d)'
  BY <1>3, <1>8, Unmoved, Zenon DEF ToldInv, Typed, AnswerAtOnce
<1>9. CallInv(c)'
  BY <1>5, <1>6, <1>7, Zenon DEF CallInv, AnswerAtOnce
<1>10. QED
  BY <1>4, <1>8, <1>9, Zenon DEF ToldInv

\* Post and Break change only the attempts.
LEMMA PostKeeps ==
    ASSUME ToldInv, NEW c \in Calls, Post(c)
    PROVE  ToldInv'
<1>1. Typed /\ CallInv(c)
  BY Zenon DEF ToldInv
<1>2. tries[c] + 1 \in Attempts /\ tries[c] < Limit(c) /\ tries[c] \in Nat
  <2>1. tries[c] \in Nat
    BY <1>1, Zenon DEF Typed
  <2>2. relay[c] = "post"
    BY Zenon DEF Post
  <2>3. tries[c] < Limit(c)
    BY <1>1, <2>2, Zenon DEF CallInv, Made
  <2>. QED  BY <2>1, <2>3, LimitType
<1>3. /\ tries' = [tries EXCEPT ![c] = tries[c] + 1]
      /\ remote' = [remote EXCEPT ![c] = [remote[c] EXCEPT ![tries[c] + 1] = "sent"]]
      /\ relay' = [relay EXCEPT ![c] = "wait"]
  BY Zenon DEF Post
<1>4. /\ tries'[c] = tries[c] + 1
      /\ remote'[c] = [remote[c] EXCEPT ![tries[c] + 1] = "sent"]
      /\ relay'[c] = "wait"
      /\ \A d \in Calls : d # c => /\ tries'[d] = tries[d]
                                   /\ remote'[d] = remote[d]
                                   /\ relay'[d] = relay[d]
  BY <1>1, <1>3, Zenon DEF Typed
<1>5. [remote[c] EXCEPT ![tries[c] + 1] = "sent"] \in [Attempts -> RemoteStates]
  BY <1>1, <1>2, Zenon DEF Typed, RemoteStates
<1>6. Typed'
  <2>0. relay' \in [Calls -> RelayStates]
    BY <1>1, <1>3, Zenon DEF Typed, RelayStates
  <2>1. tries' \in [Calls -> Nat]
    BY <1>1, <1>2, <1>3, SMTT(30) DEF Typed
  <2>2. remote' \in [Calls -> [Attempts -> RemoteStates]]
    BY <1>1, <1>3, <1>5, Zenon DEF Typed
  <2>3. UNCHANGED <<param, handler, body, callbacks, got>>
    BY Zenon DEF Post
  <2>. QED  BY <1>1, <2>0, <2>1, <2>2, <2>3, Zenon DEF Typed
<1>7. \A n \in Attempts : n <= tries'[c] => remote'[c][n] # "none"
  <2> SUFFICES ASSUME NEW n \in Attempts, n <= tries'[c]
               PROVE  remote'[c][n] # "none"
    BY Zenon
  <2>1. CASE n = tries[c] + 1
    BY <1>1, <1>4, <2>1, Zenon DEF Typed
  <2>2. CASE n # tries[c] + 1
    <3>1. n <= tries[c]
      BY <1>2, <1>4, <2>2
    <3>2. remote[c][n] # "none"
      BY <1>1, <3>1, Zenon DEF CallInv, Made
    <3>. QED  BY <1>4, <2>2, <3>2
  <2>3. QED
    BY <2>1, <2>2, Zenon
<1>8. Limit(c)' = Limit(c)
  BY Zenon DEF Post, Limit
<1>9. Made(c)'
  BY <1>1, <1>2, <1>4, <1>7, <1>8, LimitType DEF Made, CallInv, Post
<1>10. CallInv(c)'
  BY <1>1, <1>4, <1>9, Zenon DEF CallInv, Post, Untold
<1>11. ASSUME NEW d \in Calls, d # c PROVE CallInv(d)'
  BY <1>4, <1>11, Unmoved, Zenon DEF ToldInv, Post
<1>12. QED
  BY <1>6, <1>10, <1>11, Zenon DEF ToldInv

\* A connection that breaks tells nothing.
LEMMA BreakKeeps ==
    ASSUME ToldInv, NEW c \in Calls, Break(c)
    PROVE  ToldInv'
<1>1. Typed'
  BY Zenon DEF ToldInv, Typed, Break, RelayStates
<1>2. CallInv(c)'
  <2>1. relay'[c] = (IF tries[c] < Limit(c) THEN "post" ELSE "failed")
    BY Zenon DEF ToldInv, Typed, Break
  <2>2. Limit(c)' = Limit(c) /\ Limit(c) \in Attempts /\ tries[c] \in Nat
    BY LimitType, Zenon DEF ToldInv, Typed, Break, Limit
  <2>3. Made(c) /\ Untold(c) /\ tries[c] > 0
    BY Zenon DEF ToldInv, CallInv, Made, Break
  <2>4. Made(c)'
    BY <2>1, <2>2, <2>3 DEF Made, Break, ToldInv, Typed
  <2>5. Untold(c)'
    BY <2>3, Zenon DEF Untold, Break
  <2>6. QED
    BY <2>1, <2>4, <2>5, Zenon DEF CallInv
<1>3. ASSUME NEW d \in Calls, d # c PROVE CallInv(d)'
  BY <1>3, Unmoved, Zenon DEF ToldInv, Typed, Break
<1>4. QED
  BY <1>1, <1>2, <1>3, Zenon DEF ToldInv

\* The end of the relaying: the outcome is written or not, and called back.
LEMMA ConcludeKeeps ==
    ASSUME ToldInv, NEW c \in Calls, NEW status \in {0, 1}, NEW w \in Outcomes,
           relay[c] \in {"post", "wait", "failed"},
           Silent(c) \/ Write(c, w), Callback(c, status, w), Finish(c),
           UNCHANGED <<param, tries, remote, got>>,
           w = "ok" => ~Relayed(c) \/ \E n \in Attempts : remote[c][n] = "ok",
           w = "FAIL" => status = 0 /\ tries[c] = Limit(c)
    PROVE  ToldInv'
<1>1. Typed /\ CallInv(c) /\ Made(c) /\ Untold(c) /\ w \in Words
  <2>1. relay[c] # "over"
    OBVIOUS
  <2>. QED  BY <2>1, Zenon DEF ToldInv, CallInv, Words
<1>2. /\ body' \in [Calls -> Seq(Words)]
      /\ \A d \in Calls : d # c => body'[d] = body[d]
      /\ \A i \in 1 .. Len(body'[c]) :
            body'[c][i] = w \/ (i \in 1 .. Len(body[c]) /\ body'[c][i] = body[c][i])
  <2>1. CASE Silent(c)
    BY <1>1, <2>1, Zenon DEF Silent, Typed
  <2>2. CASE Write(c, w)
    BY <1>1, <2>2, Written, Zenon
  <2>3. QED
    BY <2>1, <2>2, Zenon
<1>3. /\ callbacks' \in [Calls -> Seq(CallbackRecords)]
      /\ \A d \in Calls : d # c => callbacks'[d] = callbacks[d]
      /\ \A i \in 1 .. Len(callbacks'[c]) :
            callbacks'[c][i].what = w /\ callbacks'[c][i].status = status
  <2>1. callbacks[c] = <<>>
    BY <1>1, Zenon DEF Untold
  <2>2. QED
    BY <1>1, <2>1, CalledBack, SMTT(30)
<1>4. /\ relay' \in [Calls -> RelayStates]
      /\ relay'[c] = "over"
      /\ \A d \in Calls : d # c => relay'[d] = relay[d]
  BY <1>1, Zenon DEF Finish, Typed, RelayStates
<1>5. /\ handler' \in [Calls -> {"none", "running", "returned"}]
      /\ handler'[c] = "none" => handler[c] = "none"
      /\ \A d \in Calls : d # c => handler'[d] = handler[d]
  BY <1>1, Zenon DEF Finish, Typed
<1>6. Typed'
  BY <1>1, <1>2, <1>3, <1>4, <1>5, Zenon DEF Typed
<1>7. Limit(c)' = Limit(c) /\ Relayed(c)' = Relayed(c)
  BY Zenon DEF Limit, Relayed
<1>8. Made(c)'
  BY <1>1, <1>4, <1>5, <1>7, Zenon DEF Made
<1>9. Settled(c, w)'
  BY <1>1, <1>2, <1>3, <1>7, Zenon DEF Settled, Untold
<1>10. CallInv(c)'
  BY <1>4, <1>8, <1>9, Zenon DEF CallInv
<1>11. ASSUME NEW d \in Calls, d # c PROVE CallInv(d)'
  BY <1>2, <1>3, <1>4, <1>5, <1>11, Unmoved, Zenon DEF ToldInv
<1>12. QED
  BY <1>6, <1>10, <1>11, Zenon DEF ToldInv

\* The relay hears from the other node.
LEMMA AnswerKeeps ==
    ASSUME ToldInv, NEW c \in Calls, NEW what \in Answers, Answer(c, what)
    PROVE  ToldInv'
<1>1. what \in Outcomes /\ what # "FAIL" /\ 1 \in {0, 1}
  BY Zenon DEF Outcomes, Answers
<1>2. tries[c] \in Attempts
  <2>1. tries[c] \in Nat
    BY Zenon DEF ToldInv, Typed
  <2>2. relay[c] = "wait"
    BY Zenon DEF Answer
  <2>3. tries[c] > 0 /\ tries[c] <= Limit(c)
    BY <2>2, Zenon DEF ToldInv, CallInv, Made
  <2>. QED  BY <2>1, <2>3, LimitType
<1>3. what = "ok" => \E n \in Attempts : remote[c][n] = "ok"
  BY <1>2, Zenon DEF Answer
<1>4. Silent(c) \/ Write(c, what)
  BY Zenon DEF Answer
<1>5. QED
  BY <1>1, <1>3, <1>4, ConcludeKeeps, Zenon DEF Answer

\* The relay reports that all the attempts have failed.
LEMMA GiveUpKeeps ==
    ASSUME ToldInv, NEW c \in Calls, GiveUp(c)
    PROVE  ToldInv'
<1>1. "FAIL" \in Outcomes /\ 0 \in {0, 1}
  BY Zenon DEF Outcomes
<1>2. tries[c] = Limit(c)
  BY Zenon DEF ToldInv, CallInv, Made, GiveUp
<1>3. Silent(c) \/ Write(c, "FAIL")
  BY Zenon DEF GiveUp
<1>4. QED
  BY <1>1, <1>2, <1>3, ConcludeKeeps, Zenon DEF GiveUp

\* The relay has uploaded the log itself.
LEMMA UploadKeeps ==
    ASSUME ToldInv, NEW c \in Calls, UploadUntracked(c)
    PROVE  ToldInv'
<1>1. PICK what \in {"ok", "fail"} : Callback(c, 1, what)
  BY Zenon DEF UploadUntracked
<1>2. what \in Outcomes /\ what # "FAIL" /\ 1 \in {0, 1}
  BY Zenon DEF Outcomes, Answers
<1>3. ~Relayed(c)
  BY Zenon DEF UploadUntracked, Relayed
<1>4. QED
  BY <1>1, <1>2, <1>3, ConcludeKeeps, Zenon DEF UploadUntracked

-----------------------------------------------------------------------------
\* A try of a callback that is on its way.
LEMMA TryCallbackKeeps ==
    ASSUME ToldInv, NEW c \in Calls, NEW i, NEW reaches \in BOOLEAN, NEW answered \in BOOLEAN,
           TryCallback(c, i, reaches, answered)
    PROVE  ToldInv'
<1>1. Typed /\ CallInv(c) /\ i \in 1 .. Len(callbacks[c])
  BY Zenon DEF ToldInv, TryCallback
<1> DEFINE old == callbacks[c][i]
           new == [old EXCEPT !.left = IF answered THEN 0 ELSE @ - 1]
           more == IF reaches THEN got[c] \cup {<<old.status, old.what>>} ELSE got[c]
<1>2. old \in CallbackRecords
  BY <1>1 DEF Typed
<1>3. new \in CallbackRecords /\ new.what = old.what /\ new.status = old.status
  BY <1>2, SMTT(30) DEF CallbackRecords, TryCallback
<1>4. callbacks' = [callbacks EXCEPT ![c] = [callbacks[c] EXCEPT ![i] = new]]
  BY Zenon DEF TryCallback
<1>5. got' = [got EXCEPT ![c] = more]
  BY Zenon DEF TryCallback
<1>6. more \in SUBSET ({0, 1} \X Outcomes)
  <2>1. old.status \in {0, 1} /\ old.what \in Outcomes
    BY <1>2, Zenon DEF CallbackRecords
  <2>2. got[c] \in SUBSET ({0, 1} \X Outcomes)
    BY <1>1, Zenon DEF Typed
  <2> HIDE DEF old
  <2>3. QED
    BY <2>1, <2>2
<1>7. \A g \in more : g \in got[c] \/ (g[1] = old.status /\ g[2] = old.what)
  OBVIOUS
<1> HIDE DEF old, new, more
<1>8. /\ [callbacks[c] EXCEPT ![i] = new] \in Seq(CallbackRecords)
      /\ Len([callbacks[c] EXCEPT ![i] = new]) = Len(callbacks[c])
      /\ \A j \in 1 .. Len(callbacks[c]) :
            [callbacks[c] EXCEPT ![i] = new][j] = IF j = i THEN new ELSE callbacks[c][j]
  <2>1. callbacks[c] \in Seq(CallbackRecords)
    BY <1>1, Zenon DEF Typed
  <2>2. new \in CallbackRecords /\ i \in 1 .. Len(callbacks[c])
    BY <1>1, <1>3, Zenon
  <2>. QED  BY <2>1, <2>2, Replaced
<1>9. /\ callbacks' \in [Calls -> Seq(CallbackRecords)]
      /\ Len(callbacks'[c]) = Len(callbacks[c])
      /\ \A j \in 1 .. Len(callbacks'[c]) :
            /\ callbacks'[c][j].what = callbacks[c][j].what
            /\ callbacks'[c][j].status = callbacks[c][j].status
      /\ \A d \in Calls : d # c => callbacks'[d] = callbacks[d]
  BY <1>1, <1>3, <1>4, <1>8, Zenon DEF Typed, old
<1>10. /\ got' \in [Calls -> SUBSET ({0, 1} \X Outcomes)]
       /\ got'[c] = more
       /\ \A d \in Calls : d # c => got'[d] = got[d]
  BY <1>1, <1>5, <1>6, Zenon DEF Typed
<1>11. Typed'
  BY <1>1, <1>9, <1>10, Zenon DEF Typed, TryCallback
<1>12. relay[c] = "over"
  BY <1>1 DEF CallInv, Untold
<1>13. PICK o \in Outcomes : Settled(c, o)
  BY <1>1, <1>12, Zenon DEF CallInv
<1>14. Limit(c)' = Limit(c) /\ Relayed(c)' = Relayed(c)
  BY Zenon DEF Limit, Relayed, TryCallback
<1>15. Settled(c, o)'
  <2>1. \A g \in got'[c] : g[2] = o /\ (o = "FAIL" => g[1] = 0)
    BY <1>1, <1>7, <1>10, <1>13, Zenon DEF Settled, old
  <2>2. \A j \in 1 .. Len(callbacks'[c]) :
           callbacks'[c][j].what = o /\ (o = "FAIL" => callbacks'[c][j].status = 0)
    BY <1>9, <1>13, Zenon DEF Settled
  <2>3. QED
    BY <1>13, <1>14, <2>1, <2>2, Zenon DEF Settled, TryCallback
<1>16. CallInv(c)'
  BY <1>1, <1>12, <1>14, <1>15, Zenon DEF CallInv, Made, TryCallback
<1>17. ASSUME NEW d \in Calls, d # c PROVE CallInv(d)'
  BY <1>9, <1>10, <1>17, Unmoved, Zenon DEF ToldInv, TryCallback
<1>18. QED
  BY <1>11, <1>16, <1>17, Zenon DEF ToldInv

\* The other node handles an attempt: one that was carried out stays so.
LEMMA HandledKeeps ==
    ASSUME ToldInv, NEW c \in Calls, NEW n \in Attempts,
           NEW how \in RemoteStates \ {"none"}, Handled(c, n, how)
    PROVE  ToldInv'
<1>1. Typed /\ CallInv(c)
  BY Zenon DEF ToldInv
<1>2. remote' = [remote EXCEPT ![c] = [remote[c] EXCEPT ![n] = how]] /\ remote[c][n] = "sent"
  BY Zenon DEF Handled
<1>3. /\ remote' \in [Calls -> [Attempts -> RemoteStates]]
      /\ remote'[c] = [remote[c] EXCEPT ![n] = how]
      /\ \A d \in Calls : d # c => remote'[d] = remote[d]
  BY <1>1, <1>2, Zenon DEF Typed
<1>4. \A k \in Attempts : /\ remote[c][k] = "ok" => remote'[c][k] = "ok"
                          /\ remote[c][k] # "none" => remote'[c][k] # "none"
  BY <1>1, <1>2, <1>3 DEF Typed
<1>5. Typed'
  BY <1>1, <1>3, Zenon DEF Typed, Handled
<1>6. Limit(c)' = Limit(c) /\ Relayed(c)' = Relayed(c)
  BY Zenon DEF Limit, Relayed, Handled
<1>7. Made(c)'
  BY <1>1, <1>4, <1>6, Zenon DEF CallInv, Made, Handled
<1>8. \A o \in Outcomes : Settled(c, o) => Settled(c, o)'
  BY <1>4, <1>6, Zenon DEF Settled, Handled
<1>9. Untold(c)' = Untold(c) /\ relay' = relay
  BY Zenon DEF Untold, Handled
<1>10. CallInv(c)'
  BY <1>1, <1>7, <1>8, <1>9, Zenon DEF CallInv
<1>11. ASSUME NEW d \in Calls, d # c PROVE CallInv(d)'
  BY <1>3, <1>11, Unmoved, Zenon DEF ToldInv, Handled
<1>12. QED
  BY <1>5, <1>10, <1>11, Zenon DEF ToldInv

\* The steps of the other node are all of this form.
LEMMA LocalKeeps ==
    ASSUME ToldInv, NEW c \in Calls, NEW n \in Attempts, LocalStep(c, n)
    PROVE  ToldInv'
<1> USE HandledKeeps DEF RemoteStates
<1>1. CASE LocalFail(c, n)
  BY <1>1, Zenon DEF LocalFail
<1>2. CASE LocalSetDirQuota(c, n)
  BY <1>2, Zenon DEF LocalSetDirQuota
<1>3. CASE LocalReleaseDir(c, n)
  BY <1>3, Zenon DEF LocalReleaseDir
<1>4. CASE LocalRead(c, n)
  BY <1>4, Zenon DEF LocalRead
<1>5. CASE LocalRefuse(c, n)
  BY <1>5, Zenon DEF LocalRefuse
<1>6. ASSUME NEW ok \in BOOLEAN, LocalUpload(c, n, ok)
      PROVE  ToldInv'
  <2>1. PICK how \in {"ok", "sent", "fail"} : Handled(c, n, how)
    BY <1>6, Zenon DEF LocalUpload
  <2>2. QED
    BY <2>1, Zenon
<1>7. CASE Lose(c, n)
  BY <1>7, Zenon DEF Lose
<1>8. QED
  BY <1>1, <1>2, <1>3, <1>4, <1>5, <1>6, <1>7, Zenon DEF LocalStep

-----------------------------------------------------------------------------
\* What a caller is told: the invariant holds in every state.
THEOREM CallsInvariant == CallsSpec => []ToldInv
<1>1. CallsInit => ToldInv
  <2> SUFFICES ASSUME CallsInit
               PROVE  ToldInv
    BY Zenon
  <2>1. Typed
    BY DEF CallsInit, Typed, RelayStates, RemoteStates
  <2>2. ASSUME NEW c \in Calls PROVE CallInv(c)
    <3>1. Made(c)
      BY LimitType DEF CallsInit, Made
    <3>2. Untold(c)
      BY DEF CallsInit, Untold
    <3>3. relay[c] = "none"
      BY Zenon DEF CallsInit
    <3>4. QED
      BY <3>1, <3>2, <3>3, Zenon DEF CallInv
  <2>3. QED
    BY <2>1, <2>2, Zenon DEF ToldInv
<1>2. ToldInv /\ [CallsNext]_callVars => ToldInv'
  <2> SUFFICES ASSUME ToldInv, [CallsNext]_callVars
               PROVE  ToldInv'
    BY Zenon
  <2>1. CASE UNCHANGED callVars
    <3>1. Typed'
      BY <2>1, Zenon DEF ToldInv, Typed, callVars
    <3>2. ASSUME NEW d \in Calls PROVE CallInv(d)'
      BY <2>1, Unmoved, Zenon DEF ToldInv, callVars
    <3>3. QED
      BY <3>1, <3>2, Zenon DEF ToldInv
  <2>2. ASSUME NEW c \in Calls, RelayStep(c)
        PROVE  ToldInv'
    <3>1. ASSUME NEW what \in Answers, Answer(c, what)
          PROVE  ToldInv'
      BY <3>1, AnswerKeeps, Zenon
    <3>2. QED
      BY <2>2, <3>1, AnswerAtOnceKeeps, UploadKeeps, PostKeeps, BreakKeeps, GiveUpKeeps, Zenon
      DEF RelayStep, Answers
  <2>3. ASSUME NEW c \in Calls, CallerStep(c)
        PROVE  ToldInv'
    BY <2>3, ArriveKeeps, Zenon
    DEF CallerStep, GetImageDiskQuotaInfoHandler, GetNodeSpaceInfoHandler, ReleaseDirHandler,
        SetDirQuotaHandler, GetDirQuotaInfoHandler, UploadLogByTrackNo, PodFilesHandler,
        PodFileHandler
  <2>4. ASSUME NEW c \in Calls, CallbackStep(c)
        PROVE  ToldInv'
    BY <2>4, TryCallbackKeeps, Zenon DEF CallbackStep
  <2>5. ASSUME NEW c \in Calls, NEW n \in Attempts, LocalStep(c, n)
        PROVE  ToldInv'
    BY <2>5, LocalKeeps, Zenon
  <2>6. QED
    BY <2>1, <2>2, <2>3, <2>4, <2>5, Zenon DEF CallsNext
<1>3. QED
  BY <1>1, <1>2, PTL DEF CallsSpec

\* All that a call was told is the one outcome.
LEMMA ToldIsOutcome ==
    ASSUME ToldInv, NEW c \in Calls, Told(c) # {}
    PROVE  \E o \in Outcomes : Settled(c, o) /\ Told(c) = {o}
<1>1. relay[c] = "over"
  BY Zenon DEF ToldInv, CallInv, Untold, Told, Elements
<1>2. PICK o \in Outcomes : Settled(c, o)
  BY <1>1, Zenon DEF ToldInv, CallInv
<1>3. \A w \in Told(c) : w = o
  BY <1>2, Zenon DEF Told, Elements, Settled
<1>4. QED
  BY <1>2, <1>3, Zenon

\* OneOutcome for every number of calls and attempts: the answer of a relayed
\* call and all its callbacks agree.
THEOREM RelayTellsOnce == CallsSpec => []OneOutcome
<1>1. ToldInv => OneOutcome
  BY ToldIsOutcome, Zenon DEF OneOutcome
<1>2. QED
  BY <1>1, CallsInvariant, PTL

\* SuccessExecuted likewise: success is told only of what was carried out.
THEOREM RelayTellsTruth == CallsSpec => []SuccessExecuted
<1>1. ToldInv => SuccessExecuted
  <2> SUFFICES ASSUME ToldInv, NEW c \in Calls, "ok" \in Told(c)
               PROVE  (\E n \in Attempts : remote[c][n] = "ok") \/ ~Relayed(c)
    BY Zenon DEF SuccessExecuted
  <2>1. Settled(c, "ok")
    BY ToldIsOutcome, Zenon
  <2>2. QED
    BY <2>1, Zenon DEF Settled
<1>2. QED
  BY <1>1, CallsInvariant, PTL

\* FailureAfterAll likewise: the relay's failure is told only after every
\* attempt allowed, and never with the status of a success.
THEOREM RelayTriesAll == CallsSpec => []FailureAfterAll
<1>1. ToldInv => FailureAfterAll
  <2> SUFFICES ASSUME ToldInv, NEW c \in Calls, "FAIL" \in Told(c)
               PROVE  /\ \A n \in 1 .. Limit(c) : remote[c][n] # "none"
                      /\ \A g \in got[c] : g[1] = 0
    BY Zenon DEF FailureAfterAll
  <2>1. Settled(c, "FAIL")
    BY ToldIsOutcome, Zenon
  <2>2. tries[c] = Limit(c) /\ \A g \in got[c] : g[1] = 0
    BY <2>1, Zenon DEF Settled
  <2>3. ASSUME NEW n \in 1 .. Limit(c) PROVE remote[c][n] # "none"
    <3>1. n \in Attempts
      BY LimitType
    <3>2. QED
      BY <2>2, <3>1, LimitType DEF ToldInv, CallInv, Made
  <2>4. QED
    BY <2>2, <2>3, Zenon
<1>2. QED
  BY <1>1, CallsInvariant, PTL

\* What the relay tells a caller, in the answer or by callback, is so.
THEOREM RelayToldTruth == CallsSpec => []ToldTruth
  BY RelayTellsTruth, RelayTriesAll, PTL DEF ToldTruth

-----------------------------------------------------------------------------
\* The other node has changed the limit for a call, and no later change by an
\* earlier call has undone it, but for the two kinds of LastSetInForce.
Changed(c) ==
    param[c].op \in {"set", "release"} /\ \E n \in Attempts : remote[c][n] = "ok"

InForce(c) == setBy.call >= c \/ setBy.orphan \/ Detached(setBy.call)

\* A call is made when the handlers of the earlier ones have returned.
InTurn ==
    \A c, d \in Calls : d < c /\ handler[c] # "none" => handler[d] = "returned"

\* A handler that waits returns when the relaying is over.
ReturnsOver ==
    \A c \in Calls : handler[c] = "returned" /\ ~Detached(c) => relay[c] = "over"

\* Of a call that was not made nothing has been sent.
NothingSent ==
    \A c \in Calls, n \in Attempts : handler[c] = "none" => remote[c][n] = "none"

CallsInTurn == InTurn /\ ReturnsOver /\ NothingSent

SetInv ==
    /\ setBy.call \in Calls \cup {0} /\ setBy.orphan \in BOOLEAN
    /\ CallsInTurn
    /\ \A c \in Calls : Changed(c) => InForce(c)

\* A step that changes no limit, and of the call c at most its relaying.
LEMMA RelayedInTurn ==
    ASSUME ToldInv, SetInv, NEW c \in Calls, handler[c] # "none",
           UNCHANGED <<param, setBy>>,
           \A d \in Calls : d # c => /\ handler'[d] = handler[d] /\ relay'[d] = relay[d]
                                     /\ remote'[d] = remote[d],
           handler'[c] \in {handler[c], "returned"},
           relay'[c] = "over" \/ (handler'[c] = handler[c] /\ relay[c] # "over") \/ Detached(c),
           \A n \in Attempts : remote'[c][n] = "ok" => remote[c][n] = "ok"
    PROVE  SetInv'
<1>1. \A d \in Calls : Detached(d)' = Detached(d)
  BY Zenon DEF Detached
<1>2. \A d, e \in Calls : e < d /\ handler'[d] # "none" => handler'[e] = "returned"
  <2> SUFFICES ASSUME NEW d \in Calls, NEW e \in Calls, e < d, handler'[d] # "none"
               PROVE  handler'[e] = "returned"
    BY Zenon
  <2>1. handler[d] # "none"
    BY Zenon
  <2>2. handler[e] = "returned"
    BY <2>1, Zenon DEF SetInv, CallsInTurn, InTurn
  <2> QED
    BY <2>2, Zenon
<1>3. ASSUME NEW d \in Calls, handler'[d] = "returned", ~Detached(d) PROVE relay'[d] = "over"
  <2>1. handler[d] = "returned" => relay[d] = "over"
    BY <1>3, Zenon DEF SetInv, CallsInTurn, ReturnsOver
  <2> QED
    BY <1>3, <2>1, Zenon
<1>4. ASSUME NEW d \in Calls, NEW n \in Attempts, handler'[d] = "none"
      PROVE  remote'[d][n] = "none"
  <2>1. d # c /\ handler[d] = "none"
    BY <1>4, Zenon
  <2>2. remote[d][n] = "none"
    BY <2>1, Zenon DEF SetInv, CallsInTurn, NothingSent
  <2> QED
    BY <2>1, <2>2, Zenon
<1>5. CallsInTurn'
  BY <1>1, <1>2, <1>3, <1>4, Zenon DEF CallsInTurn, InTurn, ReturnsOver, NothingSent
<1>6. \A d \in Calls : Changed(d)' => Changed(d)
  BY Zenon DEF Changed
<1>7. \A d \in Calls : InForce(d)' <=> InForce(d)
  BY Zenon DEF InForce, Detached
<1> QED
  BY <1>5, <1>6, <1>7, Zenon DEF SetInv

\* The handlers that arrive.
LEMMA ArrivesInTurn ==
    ASSUME ToldInv, SetInv, NEW c \in Calls, NEW op, Arrive(c, op)
    PROVE  SetInv'
<1>1. /\ handler[c] = "none" /\ handler' = [handler EXCEPT ![c] = "running"]
      /\ relay' = [relay EXCEPT ![c] = "post"]
      /\ UNCHANGED <<param, setBy, remote>>
  BY Zenon DEF Arrive
<1>2. /\ handler'[c] = "running"
      /\ \A d \in Calls : d # c => handler'[d] = handler[d] /\ relay'[d] = relay[d]
  BY <1>1, Zenon DEF ToldInv, Typed
<1>3. \A d, e \in Calls : e < d /\ handler'[d] # "none" => handler'[e] = "returned"
  <2> SUFFICES ASSUME NEW d \in Calls, NEW e \in Calls, e < d, handler'[d] # "none"
               PROVE  handler'[e] = "returned"
    BY Zenon
  <2>1. CASE d = c
    <3>1. c - 1 \in Calls /\ c > 1 /\ (e = c - 1 \/ e < c - 1)
      BY <2>1
    <3>2. handler[c - 1] = "returned"
      BY <3>1, Zenon DEF Arrive
    <3>3. handler[e] = "returned"
      BY <3>1, <3>2, Zenon DEF SetInv, CallsInTurn, InTurn
    <3> QED
      BY <1>1, <1>2, <3>3, Zenon
  <2>2. CASE d # c
    <3>1. handler[e] = "returned"
      BY <1>2, <2>2, Zenon DEF SetInv, CallsInTurn, InTurn
    <3> QED
      BY <1>1, <1>2, <3>1, Zenon
  <2> QED
    BY <2>1, <2>2, Zenon
<1>4. \A d \in Calls : handler'[d] = "returned" /\ ~Detached(d) => relay'[d] = "over"
  BY <1>2, Zenon DEF SetInv, CallsInTurn, ReturnsOver
<1>5. ASSUME NEW d \in Calls, NEW n \in Attempts, handler'[d] = "none"
      PROVE  remote'[d][n] = "none"
  <2>1. handler[d] = "none"
    BY <1>2, <1>5, Zenon
  <2> QED
    BY <1>1, <2>1, Zenon DEF SetInv, CallsInTurn, NothingSent
<1>6. CallsInTurn'
  BY <1>1, <1>3, <1>4, <1>5, Zenon
  DEF CallsInTurn, InTurn, ReturnsOver, NothingSent, Detached
<1>7. \A d \in Calls : (Changed(d)' <=> Changed(d)) /\ (InForce(d)' <=> InForce(d))
  BY <1>1, Zenon DEF Changed, InForce, Detached
<1> QED
  BY <1>1, <1>6, <1>7, Zenon DEF SetInv

\* The relay's steps.
LEMMA RelayInTurn ==
    ASSUME ToldInv, SetInv, NEW c \in Calls, RelayStep(c)
    PROVE  SetInv'
<1>1. Typed /\ Made(c)
  BY Zenon DEF ToldInv, CallInv
<1>2. relay[c] # "none" => handler[c] # "none"
  BY <1>1, Zenon DEF Made
<1>3. CASE AnswerAtOnce(c)
  BY <1>1, <1>3, RelayedInTurn, Zenon DEF AnswerAtOnce, Typed
<1>4. CASE Post(c)
  <2>1. tries[c] + 1 \in Attempts
    <3>1. tries[c] \in Nat /\ relay[c] = "post"
      BY <1>1, <1>4, Zenon DEF Typed, Post
    <3>2. tries[c] < Limit(c)
      BY <1>1, <3>1, Zenon DEF Made
    <3> QED
      BY <3>1, <3>2, LimitType
  <2>2. /\ remote' = [remote EXCEPT ![c] = [remote[c] EXCEPT ![tries[c] + 1] = "sent"]]
        /\ relay' = [relay EXCEPT ![c] = "wait"] /\ relay[c] = "post"
        /\ UNCHANGED <<param, handler, setBy>>
    BY <1>4, Zenon DEF Post
  <2>3. /\ \A d \in Calls : d # c => remote'[d] = remote[d] /\ relay'[d] = relay[d]
        /\ remote'[c] = [remote[c] EXCEPT ![tries[c] + 1] = "sent"]
        /\ remote[c] \in [Attempts -> RemoteStates]
    BY <1>1, <2>2, Zenon DEF Typed
  <2>4. \A n \in Attempts : remote'[c][n] = "ok" => remote[c][n] = "ok"
    BY <2>1, <2>3, Zenon
  <2> QED
    BY <1>2, <2>2, <2>3, <2>4, RelayedInTurn, Zenon
<1>5. CASE Break(c)
  BY <1>1, <1>2, <1>5, RelayedInTurn, Zenon DEF Break, Typed
<1>6. ASSUME Finish(c), relay[c] # "none", UNCHANGED <<param, setBy, remote>>
      PROVE  SetInv'
  <2>1. /\ relay'[c] = "over" /\ handler'[c] \in {handler[c], "returned"}
        /\ \A d \in Calls : d # c => handler'[d] = handler[d] /\ relay'[d] = relay[d]
    BY <1>1, <1>6, Zenon DEF Finish, Typed
  <2> QED
    BY <1>2, <1>6, <2>1, RelayedInTurn, Zenon
<1>7. CASE UploadUntracked(c)
  BY <1>6, <1>7, Zenon DEF UploadUntracked
<1>8. ASSUME NEW what, Answer(c, what) PROVE SetInv'
  BY <1>6, <1>8, Zenon DEF Answer
<1>9. CASE GiveUp(c)
  BY <1>6, <1>9, Zenon DEF GiveUp
<1> QED
  BY <1>3, <1>4, <1>5, <1>7, <1>8, <1>9, Zenon DEF RelayStep

\* The other node handles an attempt: either it changes the limit, for this
\* call, or the limit stays as it is.
LEMMA LocalInTurn ==
    ASSUME ToldInv, SetInv, NEW c \in Calls, NEW n \in Attempts, LocalStep(c, n)
    PROVE  SetInv'
<1>1. Typed
  BY Zenon DEF ToldInv
<1>2. PICK how \in RemoteStates : Handled(c, n, how)
  BY Zenon DEF LocalStep, LocalFail, LocalSetDirQuota, LocalReleaseDir, LocalRead, LocalRefuse,
               LocalUpload, Lose, RemoteStates
<1>3. /\ remote' = [remote EXCEPT ![c] = [remote[c] EXCEPT ![n] = how]]
      /\ remote[c][n] = "sent" /\ UNCHANGED <<param, handler, relay, tries>>
  BY <1>2, Zenon DEF Handled
<1>4. handler[c] # "none"
  BY <1>3, Zenon DEF SetInv, CallsInTurn, NothingSent
<1>5. \A d \in Calls : d # c => remote'[d] = remote[d]
  BY <1>1, <1>3, Zenon DEF Typed
<1>6. CallsInTurn'
  <2>1. InTurn' /\ ReturnsOver'
    BY <1>3, Zenon DEF SetInv, CallsInTurn, InTurn, ReturnsOver, Detached
  <2>2. ASSUME NEW d \in Calls, NEW k \in Attempts, handler[d] = "none"
        PROVE  remote'[d][k] = "none"
    <3>1. d # c /\ remote[d][k] = "none"
      BY <1>4, <2>2, Zenon DEF SetInv, CallsInTurn, NothingSent
    <3> QED
      BY <1>5, <3>1, Zenon
  <2> QED
    BY <1>3, <2>1, <2>2, Zenon DEF CallsInTurn, NothingSent
<1>7. \A d \in Calls : Detached(d)' = Detached(d)
  BY <1>3, Zenon DEF Detached
<1>8. CASE setBy' = [call |-> c, orphan |-> Orphan(c, n)]
  <2>1. setBy'.call = c /\ setBy'.orphan = Orphan(c, n) /\ setBy'.orphan \in BOOLEAN
    BY <1>8 DEF Orphan
  <2>2. ASSUME NEW d \in Calls, Changed(d)' PROVE InForce(d)'
    <3>1. CASE d <= c
      BY <2>1, <3>1 DEF InForce
    <3>2. CASE ~(d <= c)
      <4>1. c < d /\ d # c
        BY <3>2
      <4>2. handler[d] # "none"
        BY <1>5, <2>2, <4>1, Zenon DEF Changed, SetInv, CallsInTurn, NothingSent
      <4>3. handler[c] = "returned"
        BY <4>1, <4>2, Zenon DEF SetInv, CallsInTurn, InTurn
      <4>4. Detached(c) \/ Orphan(c, n)
        BY <4>3, Zenon DEF SetInv, CallsInTurn, ReturnsOver, Orphan
      <4> QED
        BY <1>7, <2>1, <4>4, Zenon DEF InForce
    <3> QED
      BY <3>1, <3>2, Zenon
  <2> QED
    BY <1>6, <2>1, <2>2, Zenon DEF SetInv
<1>9. CASE UNCHANGED setBy /\ (how = "ok" => param[c].op \notin {"set", "release"})
  <2>1. ASSUME NEW d \in Calls, Changed(d)' PROVE Changed(d)
    <3>1. CASE d # c
      BY <1>3, <1>5, <2>1, <3>1, Zenon DEF Changed
    <3>2. CASE d = c
      <4>1. param[c].op \in {"set", "release"} /\ how # "ok"
        BY <1>3, <1>9, <2>1, <3>2, Zenon DEF Changed
      <4>2. PICK k \in Attempts : remote'[c][k] = "ok"
        BY <2>1, <3>2, Zenon DEF Changed
      <4>3. remote[c][k] = "ok"
        BY <1>1, <1>3, <4>1, <4>2, Zenon DEF Typed
      <4> QED
        BY <3>2, <4>1, <4>3, Zenon DEF Changed
    <3> QED
      BY <3>1, <3>2, Zenon
  <2>2. \A d \in Calls : InForce(d)' <=> InForce(d)
    BY <1>3, <1>9, Zenon DEF InForce, Detached
  <2> QED
    BY <1>6, <1>9, <2>1, <2>2, Zenon DEF SetInv
<1>10. remote'[c][n] = how
  BY <1>1, <1>3, Zenon DEF Typed
<1>11. CASE LocalFail(c, n) \/ Lose(c, n) \/ LocalRefuse(c, n)
  <2>1. how # "ok"
    <3>1. PICK other \in {"fail", "gone", "refused"} : Handled(c, n, other)
      BY <1>11, Zenon DEF LocalFail, Lose, LocalRefuse
    <3>2. remote'[c][n] = other
      BY <1>1, <3>1, Zenon DEF Handled, Typed
    <3> QED
      BY <1>10, <3>2, Zenon
  <2> QED
    BY <1>9, <1>11, <2>1, Zenon DEF LocalFail, Lose, LocalRefuse
<1>12. CASE LocalRead(c, n) \/ \E ok \in BOOLEAN : LocalUpload(c, n, ok)
  BY <1>9, <1>12, Zenon DEF LocalRead, LocalUpload, FileOps
<1> QED
  BY <1>8, <1>11, <1>12, Zenon DEF LocalStep, LocalSetDirQuota, LocalReleaseDir

\* LastSetInForce for every number of calls and attempts: a change of a limit
\* that was answered "success" is undone only by a call that was made later, by
\* one released to a goroutine, or by an attempt the relay had given up.
THEOREM LastSetStands == CallsSpec => []LastSetInForce
<1>1. CallsInit => SetInv
  <2> SUFFICES ASSUME CallsInit PROVE SetInv
    BY Zenon
  <2>1. setBy.call = 0 /\ setBy.orphan = FALSE
    BY DEF CallsInit, Nobody
  <2>2. CallsInTurn
    BY Zenon DEF CallsInit, CallsInTurn, InTurn, ReturnsOver, NothingSent
  <2>3. \A c \in Calls : ~Changed(c)
    BY Zenon DEF CallsInit, Changed
  <2> QED
    BY <2>1, <2>2, <2>3, Zenon DEF SetInv
<1>2. ToldInv /\ SetInv /\ [CallsNext]_callVars => SetInv'
  <2> SUFFICES ASSUME ToldInv, SetInv, [CallsNext]_callVars PROVE SetInv'
    BY Zenon
  <2>1. ASSUME UNCHANGED <<param, handler, relay, remote, setBy>> PROVE SetInv'
    BY <2>1, Zenon DEF SetInv, CallsInTurn, InTurn, ReturnsOver, NothingSent, Changed, InForce,
                       Detached
  <2>2. CASE UNCHANGED callVars
    BY <2>1, <2>2, Zenon DEF callVars
  <2>3. ASSUME NEW c \in Calls, CallerStep(c) PROVE SetInv'
    BY <2>3, ArrivesInTurn, Zenon
    DEF CallerStep, GetImageDiskQuotaInfoHandler, GetNodeSpaceInfoHandler, ReleaseDirHandler,
        SetDirQuotaHandler, GetDirQuotaInfoHandler, UploadLogByTrackNo, PodFilesHandler,
        PodFileHandler
  <2>4. ASSUME NEW c \in Calls, CallbackStep(c) PROVE SetInv'
    BY <2>1, <2>4, Zenon DEF CallbackStep, TryCallback
  <2> QED
    BY <2>2, <2>3, <2>4, RelayInTurn, LocalInTurn, Zenon DEF CallsNext
<1>3. ToldInv /\ SetInv => LastSetInForce
  <2> SUFFICES ASSUME ToldInv, SetInv, NEW c \in Calls, param[c].op \in {"set", "release"},
                      "ok" \in Elements(body[c])
               PROVE  InForce(c)
    BY Zenon DEF LastSetInForce, InForce
  <2>1. "ok" \in Told(c)
    BY Zenon DEF Told
  <2>2. Settled(c, "ok")
    BY <2>1, ToldIsOutcome, Zenon
  <2>3. Changed(c)
    BY <2>2, Zenon DEF Settled, Relayed, Changed
  <2> QED
    BY <2>3, Zenon DEF SetInv
<1> QED
  BY <1>1, <1>2, <1>3, CallsInvariant, PTL DEF CallsSpec

-----------------------------------------------------------------------------
USE CopyAssumption DEF CopyAssumption

\* The frames lie on the stream one behind the other.
Laid ==
    /\ \A i \in 1 .. Len(frames) :
          frames[i].at + HeaderLen + frames[i].size <= total
    /\ \A i \in 1 .. Len(frames) : \A j \in 1 .. Len(frames) :
          i < j => frames[i].at + HeaderLen + frames[i].size <= frames[j].at
    /\ \A i \in 1 .. Len(frames) : i + 1 \in 1 .. Len(frames) =>
          frames[i + 1].at = frames[i].at + HeaderLen + frames[i].size
    /\ frames # <<>> =>
          total = frames[Len(frames)].at + HeaderLen + frames[Len(frames)].size
    /\ frames = <<>> => total = 0
    /\ frames # <<>> => frames[1].at = 0

\* The reader has read what it holds and nothing that will not arrive.
Within ==
    /\ base + nr <= arriving
    /\ arriving <= total
    /\ ending = "open" => arriving = total

\* While a payload is read, frameSize is the size in the header at buf[0].
Current ==
    copyPc = "frame" =>
        /\ Len(out) < Len(frames)
        /\ frames[Len(out) + 1].kind # "unknown"
        /\ frameSize = frames[Len(out) + 1].size
        /\ nr >= HeaderLen

\* What was handed out is what was sent, up to the point reached.
Faithful ==
    \A i \in 1 .. Len(out) : out[i] = Frame(i)

CopyInv ==
    /\ CopyTypeOK
    /\ Laid
    /\ Within
    /\ AtFrameStart
    /\ ReadHasRoom
    /\ Current
    /\ Faithful

-----------------------------------------------------------------------------
\* The fields of a frame.
LEMMA FrameFields ==
    ASSUME CopyTypeOK
    PROVE  /\ Len(frames) \in Nat
           /\ Len(out) \in Nat
           /\ \A i \in 1 .. Len(frames) :
                 /\ frames[i].kind \in StdType
                 /\ frames[i].size \in Nat
                 /\ frames[i].at \in Nat
<1>1. frames \in Seq(FrameRecords) /\ out \in Seq(OutRecords)
  BY Zenon DEF CopyTypeOK
<1>2. Len(frames) \in Nat /\ Len(out) \in Nat
  BY <1>1
<1>3. \A i \in 1 .. Len(frames) : frames[i] \in FrameRecords
  BY <1>1
<1>. QED  BY <1>2, <1>3, Zenon DEF FrameRecords

\* At the start of frame i the header that is read is that of frame i: no
\* other frame starts there.
LEMMA HeaderOfFrame ==
    ASSUME CopyTypeOK, Laid, NEW i \in 1 .. Len(frames)
    PROVE  HeaderAt(frames[i].at) = Frame(i)
<1>1. StartsAt(frames[i].at) = {i}
  <2>1. ASSUME NEW j \in 1 .. Len(frames), frames[j].at = frames[i].at
        PROVE  j = i
    <3>1. frames[i].at \in Nat /\ frames[j].at \in Nat
          /\ frames[i].size \in Nat /\ frames[j].size \in Nat
      BY FrameFields, Zenon
    <3>2. ~(i < j) /\ ~(j < i)
      <4>1. /\ i < j => frames[i].at + HeaderLen + frames[i].size <= frames[j].at
            /\ j < i => frames[j].at + HeaderLen + frames[j].size <= frames[i].at
        BY <2>1, Zenon DEF Laid
      <4>. QED  BY <2>1, <3>1, <4>1, SMTT(30)
    <3>. QED  BY <3>2
  <2>. QED  BY <2>1, Zenon DEF StartsAt
<1>. QED  BY <1>1, Zenon DEF HeaderAt

\* A reader that holds a whole header is at the start of a frame.
LEMMA FrameAhead ==
    ASSUME CopyInv, nr >= HeaderLen
    PROVE  /\ Len(out) < Len(frames)
           /\ base = frames[Len(out) + 1].at
           /\ HeaderAt(base) = Frame(Len(out) + 1)
<1>1. Len(out) \in Nat /\ Len(frames) \in Nat /\ Len(out) <= Len(frames)
  BY FrameFields, Zenon DEF CopyInv, AtFrameStart
<1>2. Len(out) < Len(frames)
  <2>1. SUFFICES ASSUME Len(out) = Len(frames) PROVE FALSE
    BY <1>1
  <2>2. base = total
    BY <2>1, <1>1 DEF CopyInv, AtFrameStart
  <2>. QED  BY <2>2 DEF CopyInv, Within, CopyTypeOK
<1>3. base = frames[Len(out) + 1].at
  BY <1>2, Zenon DEF CopyInv, AtFrameStart
<1>4. Len(out) + 1 \in 1 .. Len(frames)
  BY <1>1, <1>2
<1>. QED  BY <1>2, <1>3, <1>4, HeaderOfFrame, Zenon DEF CopyInv

\* It holds at first.
LEMMA CopyInitInv == CopyInit => CopyInv
BY DEF CopyInit, CopyInv, CopyTypeOK, Laid, Within, AtFrameStart, ReadHasRoom,
       Needed, Current, Faithful

\* A frame that ends before t ends before what comes later.
LEMMA StillBefore ==
    ASSUME NEW a \in Nat, NEW n \in Nat, NEW t \in Nat, NEW u \in Nat,
           a + HeaderLen + n <= t, t <= u
    PROVE  a + HeaderLen + n <= u
  OBVIOUS

\* The writer lays another frame behind the others.
LEMMA StdWriteInv ==
    ASSUME CopyInv, NEW k \in StdType, NEW s \in PayloadSizes, StdWrite(k, s)
    PROVE  CopyInv'
<1>. DEFINE f == [kind |-> k, size |-> s, at |-> total]
<1>1. /\ frames' = Append(frames, f)
      /\ total' = total + HeaderLen + s
      /\ arriving' = total'
      /\ ending = "open"
      /\ UNCHANGED <<ending, copyPc, base, nr, bufLen, frameSize, out>>
  BY Zenon DEF StdWrite, readerVars
<1>2. /\ frames \in Seq(FrameRecords)
      /\ s \in Nat /\ total \in Nat
      /\ \A i \in 1 .. Len(frames) : frames[i].at \in Nat /\ frames[i].size \in Nat
      /\ Len(out) \in Nat
  BY FrameFields, Zenon DEF CopyInv, CopyTypeOK
<1>a. f \in FrameRecords
  BY <1>2, Zenon DEF FrameRecords
<1>b. f.kind = k /\ f.size = s /\ f.at = total
  BY Zenon
<1>. HIDE DEF f
<1>3. /\ frames' \in Seq(FrameRecords)
      /\ Len(frames') = Len(frames) + 1
      /\ Len(frames) \in Nat
      /\ \A i \in 1 .. Len(frames) : frames'[i] = frames[i]
      /\ frames'[Len(frames) + 1] = f
  BY <1>1, <1>2, <1>a
<1>4. CopyTypeOK'
  BY <1>1, <1>2, <1>3 DEF CopyInv, CopyTypeOK
<1>5. Laid'
  <2>1. \A i \in 1 .. Len(frames') :
          frames'[i].at + HeaderLen + frames'[i].size <= total'
    <3>1. \A i \in 1 .. Len(frames) : frames[i].at + HeaderLen + frames[i].size <= total
      BY Zenon DEF CopyInv, Laid
    <3>2. SUFFICES ASSUME NEW i \in 1 .. Len(frames')
                   PROVE  frames'[i].at + HeaderLen + frames'[i].size <= total'
      BY Zenon
    <3>3. total <= total'
      BY <1>1, <1>2
    <3>4. CASE i \in 1 .. Len(frames)
      <4>1. frames'[i] = frames[i]
        BY <1>3, <3>4, Zenon
      <4>2. frames[i].at \in Nat /\ frames[i].size \in Nat
        BY <1>2, <3>4, Zenon
      <4>3. frames[i].at + HeaderLen + frames[i].size <= total
        BY <3>1, <3>4, Zenon
      <4>4. total \in Nat /\ total' \in Nat
        BY <1>1, <1>2
      <4>. QED  BY <3>3, <4>1, <4>2, <4>3, <4>4, StillBefore, Zenon
    <3>5. CASE i = Len(frames) + 1
      <4>1. frames'[i].at = total /\ frames'[i].size = s
        BY <1>3, <1>b, <3>5, Zenon
      <4>. QED  BY <1>1, <1>2, <4>1
    <3>. QED  BY <1>3, <3>4, <3>5
  <2>2. \A i \in 1 .. Len(frames') : \A j \in 1 .. Len(frames') :
          i < j => frames'[i].at + HeaderLen + frames'[i].size <= frames'[j].at
    <3>1. SUFFICES ASSUME NEW i \in 1 .. Len(frames'), NEW j \in 1 .. Len(frames'),
                          i < j
                   PROVE  frames'[i].at + HeaderLen + frames'[i].size <= frames'[j].at
      BY Zenon
    <3>2. i \in 1 .. Len(frames) /\ frames'[i] = frames[i]
      BY <3>1, <1>3
    <3>3. CASE j \in 1 .. Len(frames)
      BY <3>1, <3>2, <3>3, <1>3, Zenon DEF CopyInv, Laid
    <3>4. CASE j = Len(frames) + 1
      BY <3>2, <3>4, <1>3, <1>b, Zenon DEF CopyInv, Laid
    <3>. QED  BY <3>3, <3>4, <1>3
  <2>3. \A i \in 1 .. Len(frames') : i + 1 \in 1 .. Len(frames') =>
          frames'[i + 1].at = frames'[i].at + HeaderLen + frames'[i].size
    <3>1. SUFFICES ASSUME NEW i \in 1 .. Len(frames'), i + 1 \in 1 .. Len(frames')
                   PROVE  frames'[i + 1].at = frames'[i].at + HeaderLen + frames'[i].size
      BY Zenon
    <3>2. CASE i + 1 \in 1 .. Len(frames)
      BY <1>3, <3>2 DEF CopyInv, Laid
    <3>3. CASE i = Len(frames)
      <4>1. frames # <<>>
        BY <3>3, <1>3, <3>1
      <4>. QED  BY <3>3, <4>1, <1>1, <1>3, <1>b DEF CopyInv, Laid
    <3>. QED  BY <3>1, <3>2, <3>3, <1>3
  <2>4. /\ frames' # <<>> => total' = frames'[Len(frames')].at + HeaderLen
                                       + frames'[Len(frames')].size
        /\ frames' # <<>> /\ Len(frames') # 0
    BY <1>1, <1>2, <1>3, <1>b, SMTT(30)
  <2>5. frames'[1].at = 0
    <3>1. CASE frames = <<>>
      BY <3>1, <1>1, <1>2, <1>3, <1>b DEF CopyInv, Laid
    <3>2. CASE frames # <<>>
      <4>1. 1 \in 1 .. Len(frames)
        BY <3>2, <1>2, <1>3
      <4>. QED  BY <3>2, <4>1, <1>3, Zenon DEF CopyInv, Laid
    <3>. QED  BY <3>1, <3>2, Zenon
  <2>. QED  BY <2>1, <2>2, <2>3, <2>4, <2>5, Zenon DEF Laid
<1>6. Within'
  BY <1>1, <1>2, SMTT(30) DEF CopyInv, Within, CopyTypeOK
<1>7. AtFrameStart'
  <2>1. Len(out) \in Nat
    BY <1>2, Zenon
  <2>2. CASE Len(out) < Len(frames)
    BY <2>1, <2>2, <1>1, <1>3 DEF CopyInv, AtFrameStart
  <2>3. CASE Len(out) = Len(frames)
    BY <2>1, <2>3, <1>1, <1>3, <1>b DEF CopyInv, AtFrameStart
  <2>. QED  BY <2>1, <2>2, <2>3, <1>3 DEF CopyInv, AtFrameStart
<1>8. ReadHasRoom'
  BY <1>1, Zenon DEF CopyInv, ReadHasRoom, Needed
<1>9. Current'
  <2>1. Len(out) \in Nat
    BY <1>2, Zenon
  <2>2. Len(out) < Len(frames) => Len(out) + 1 \in 1 .. Len(frames)
    BY <2>1, <1>3
  <2>. QED  BY <2>1, <2>2, <1>1, <1>3 DEF CopyInv, Current
<1>10. Faithful'
  <2>1. Len(out) \in Nat /\ Len(out) <= Len(frames)
    BY <1>2, Zenon DEF CopyInv, AtFrameStart
  <2>. QED  BY <2>1, <1>1, <1>3 DEF CopyInv, Faithful, Frame
<1>. QED  BY <1>4, <1>5, <1>6, <1>7, <1>8, <1>9, <1>10, Zenon DEF CopyInv

\* The stream ends, within a frame or after one.
LEMMA EndStreamInv ==
    ASSUME CopyInv, NEW n \in 0 .. total, NEW how \in {"EOF", "error"},
           EndStream(n, how)
    PROVE  CopyInv'
<1>1. /\ arriving' = n /\ ending' = how
      /\ base + nr <= n /\ n <= total
      /\ UNCHANGED <<frames, total, copyPc, base, nr, bufLen, frameSize, out>>
  BY Zenon DEF EndStream, readerVars
<1>2. total \in Nat /\ n \in Nat
  BY DEF CopyInv, CopyTypeOK
<1>3. CopyTypeOK'
  BY <1>1, <1>2, Zenon DEF CopyInv, CopyTypeOK
<1>4. Within'
  BY <1>1, <1>2, Zenon DEF CopyInv, Within
<1>5. Laid' /\ AtFrameStart' /\ ReadHasRoom' /\ Current' /\ Faithful'
  BY <1>1, Zenon DEF CopyInv, Laid, AtFrameStart, ReadHasRoom, Needed, Current,
              Faithful, Frame
<1>. QED  BY <1>3, <1>4, <1>5, Zenon DEF CopyInv

\* A read brings more of the stream.
LEMMA ReadInv ==
    ASSUME CopyInv, NEW n \in 0 .. bufLen, NEW er \in BOOLEAN, Read(n, er)
    PROVE  CopyInv'
<1>1. /\ copyPc \in {"header", "frame"}
      /\ n <= bufLen - nr
      /\ base + nr + n <= arriving
      /\ nr' = nr + n
      /\ copyPc' \in {copyPc, "returned"}
      /\ UNCHANGED <<frames, total, arriving, ending, base, bufLen, frameSize, out>>
  BY Zenon DEF Read, streamVars
<1>2. /\ n \in Nat /\ nr \in Nat /\ base \in Nat /\ bufLen \in Nat
      /\ arriving \in Nat /\ frameSize \in Nat
  BY DEF CopyInv, CopyTypeOK
<1>3. CopyTypeOK'
  BY <1>1, <1>2 DEF CopyInv, CopyTypeOK
<1>4. Within'
  BY <1>1, <1>2 DEF CopyInv, Within
<1>5. ReadHasRoom'
  BY <1>1, <1>2 DEF CopyInv, ReadHasRoom, Needed
<1>6. Current'
  BY <1>1, <1>2 DEF CopyInv, Current
<1>7. Laid' /\ AtFrameStart' /\ Faithful'
  BY <1>1, Zenon DEF CopyInv, Laid, AtFrameStart, Faithful, Frame
<1>. QED  BY <1>3, <1>4, <1>5, <1>6, <1>7, Zenon DEF CopyInv

\* A header is taken apart.
LEMMA ReadHeaderInv ==
    ASSUME CopyInv, ReadHeader
    PROVE  CopyInv'
<1>1. /\ copyPc = "header" /\ nr >= HeaderLen
      /\ UNCHANGED <<frames, total, arriving, ending, base, nr, out>>
  BY Zenon DEF ReadHeader, streamVars
<1>. DEFINE i == Len(out) + 1
<1>2. /\ Len(out) < Len(frames) /\ HeaderAt(base) = Frame(i)
  BY <1>1, FrameAhead, Zenon
<1>3. /\ i \in 1 .. Len(frames)
      /\ frames[i].size \in Nat
      /\ bufLen \in Nat /\ nr \in Nat /\ nr <= bufLen /\ frameSize \in Nat
  BY <1>1, <1>2, FrameFields DEF CopyInv, CopyTypeOK, ReadHasRoom
<1>4. /\ HeaderAt(base).kind = frames[i].kind
      /\ HeaderAt(base).size = frames[i].size
  BY <1>2 DEF Frame
<1>. HIDE DEF i
<1>5. Laid' /\ AtFrameStart' /\ Faithful' /\ Within'
  BY <1>1, Zenon DEF CopyInv, Laid, AtFrameStart, Faithful, Frame, Within
<1>6. CASE copyPc' = "returned" /\ UNCHANGED <<bufLen, frameSize>>
  <2>1. CopyTypeOK'
    BY <1>1, <1>6, Zenon DEF CopyInv, CopyTypeOK
  <2>2. ReadHasRoom' /\ Current'
    BY <1>6, Zenon DEF ReadHasRoom, Current
  <2>. QED  BY <2>1, <2>2, <1>5, Zenon DEF CopyInv
<1>7. CASE /\ HeaderAt(base).kind # "unknown"
           /\ copyPc' = "frame"
           /\ frameSize' = HeaderAt(base).size
           /\ bufLen' = IF HeaderAt(base).size + HeaderLen > bufLen
                        THEN bufLen + (HeaderAt(base).size + HeaderLen - bufLen + 1)
                        ELSE bufLen
  <2>1. /\ frameSize' \in Nat /\ bufLen' \in Nat
        /\ frameSize' + HeaderLen <= bufLen' /\ bufLen <= bufLen'
    BY <1>3, <1>4, <1>7, SMTT(30)
  <2>2. CopyTypeOK'
    BY <1>1, <1>7, <2>1, Zenon DEF CopyInv, CopyTypeOK
  <2>3. ReadHasRoom'
    BY <1>1, <1>3, <1>7, <2>1 DEF ReadHasRoom, Needed
  <2>4. Current'
    BY <1>1, <1>2, <1>4, <1>7, Zenon DEF Current, i
  <2>. QED  BY <2>2, <2>3, <2>4, <1>5, Zenon DEF CopyInv
<1>. QED  BY <1>6, <1>7, Zenon DEF ReadHeader

\* A frame is handed out and the next one moves to the front.
LEMMA CopyFrameInv ==
    ASSUME CopyInv, CopyFrame
    PROVE  CopyInv'
<1>1. /\ copyPc = "frame" /\ nr >= frameSize + HeaderLen
      /\ UNCHANGED <<frames, total, arriving, ending, bufLen, frameSize>>
  BY Zenon DEF CopyFrame, streamVars
<1>. DEFINE i == Len(out) + 1
<1>2. /\ frameSize \in Nat /\ nr \in Nat /\ base \in Nat /\ bufLen \in Nat
      /\ nr <= bufLen /\ nr >= HeaderLen
  BY <1>1 DEF CopyInv, CopyTypeOK, ReadHasRoom
<1>3. /\ Len(out) < Len(frames) /\ HeaderAt(base) = Frame(i)
      /\ base = frames[i].at
  BY <1>2, FrameAhead, Zenon
<1>4. /\ Len(out) \in Nat /\ Len(frames) \in Nat
      /\ i \in 1 .. Len(frames)
      /\ frames[i].kind \in StdType
      /\ frameSize = frames[i].size
  BY <1>1, <1>3, FrameFields DEF CopyInv, Current
<1>5. Frame(i) = [kind |-> HeaderAt(base).kind, size |-> frameSize]
  BY <1>3, <1>4 DEF Frame
<1>6. HeaderAt(base).kind \in StdType
  BY <1>3, <1>4 DEF Frame
<1>7. CASE copyPc' = "returned" /\ UNCHANGED <<base, nr, out>>
  <2>1. CopyTypeOK'
    BY <1>1, <1>7, Zenon DEF CopyInv, CopyTypeOK
  <2>2. ReadHasRoom' /\ Current'
    BY <1>7, Zenon DEF ReadHasRoom, Current
  <2>3. Laid' /\ AtFrameStart' /\ Faithful' /\ Within'
    BY <1>1, <1>7, Zenon DEF CopyInv, Laid, AtFrameStart, Faithful, Frame, Within
  <2>. QED  BY <2>1, <2>2, <2>3, Zenon DEF CopyInv
<1>8. CASE /\ out' = Append(out, [kind |-> HeaderAt(base).kind, size |-> frameSize])
           /\ base' = base + (frameSize + HeaderLen)
           /\ nr' = nr - (frameSize + HeaderLen)
           /\ copyPc' = "header"
  <2>1. /\ out \in Seq(OutRecords) /\ Frame(i) \in OutRecords
    BY <1>2, <1>5, <1>6 DEF CopyInv, CopyTypeOK, OutRecords
  <2>2. /\ out' = Append(out, Frame(i))
    BY <1>5, <1>8, Zenon
  <2>3. /\ out' \in Seq(OutRecords)
        /\ Len(out') = Len(out) + 1
        /\ \A j \in 1 .. Len(out) : out'[j] = out[j]
        /\ out'[i] = Frame(i)
    BY <2>1, <2>2
  <2>4. nr' \in Nat /\ base' \in Nat /\ base' + nr' = base + nr
    BY <1>1, <1>2, <1>8
  <2>5. CopyTypeOK'
    BY <1>1, <1>8, <2>3, <2>4, Zenon DEF CopyInv, CopyTypeOK
  <2>6. Within' /\ Laid'
    BY <1>1, <2>4, Zenon DEF CopyInv, Within, Laid
  <2>7. ReadHasRoom'
    BY <1>1, <1>2, <1>8 DEF CopyInv, ReadHasRoom, Needed
  <2>8. Current'
    BY <1>8, Zenon DEF Current
  <2>9. Faithful'
    <3>1. \A j \in 1 .. Len(out') : Frame(j)' = Frame(j)
      BY <1>1, Zenon DEF Frame
    <3>. QED  BY <3>1, <2>3, <1>4 DEF CopyInv, Faithful
  <2>10. AtFrameStart'
    <3>1. base' = frames[i].at + HeaderLen + frames[i].size
      <4>1. base' = base + (frameSize + HeaderLen)
        BY <1>8, Zenon
      <4>2. base + (frameSize + HeaderLen) = base + HeaderLen + frameSize
        BY <1>2
      <4>3. frames[i].at = base /\ frames[i].size = frameSize
        BY <1>3, <1>4, Zenon
      <4>. QED  BY <4>1, <4>2, <4>3, Zenon
    <3>2. CASE i < Len(frames)
      <4>1. i + 1 \in 1 .. Len(frames)
        BY <1>4, <3>2
      <4>2. frames[i + 1].at = frames[i].at + HeaderLen + frames[i].size
        BY <1>4, <4>1, Zenon DEF CopyInv, Laid
      <4>3. /\ Len(out') < Len(frames') /\ Len(out') <= Len(frames')
            /\ frames'[Len(out') + 1].at = base'
        BY <1>1, <1>4, <2>3, <3>1, <3>2, <4>2
      <4>. QED  BY <4>3, Zenon DEF AtFrameStart
    <3>3. CASE i = Len(frames)
      <4>1. frames # <<>>
        BY <1>4, <3>3
      <4>2. total = frames[i].at + HeaderLen + frames[i].size
        BY <3>3, <4>1, Zenon DEF CopyInv, Laid
      <4>3. Len(out') = Len(frames') /\ Len(frames') \in Nat /\ base' = total'
        BY <1>1, <1>4, <2>3, <3>1, <3>3, <4>2, Zenon
      <4>. QED  BY <4>3 DEF AtFrameStart
    <3>. QED  BY <1>4, <3>2, <3>3
  <2>. QED  BY <2>5, <2>6, <2>7, <2>8, <2>9, <2>10, Zenon DEF CopyInv
<1>. QED  BY <1>7, <1>8, Zenon DEF CopyFrame

\* Every step keeps it.
LEMMA CopyStepInv == CopyInv /\ [CopyNext]_copyVars => CopyInv'
<1>1. ASSUME CopyInv, CopyNext PROVE CopyInv'
  BY <1>1, StdWriteInv, EndStreamInv, ReadInv, ReadHeaderInv, CopyFrameInv, Zenon
  DEF CopyNext, Daemon, Reader
<1>2. ASSUME CopyInv, UNCHANGED copyVars PROVE CopyInv'
  <2>1. UNCHANGED <<frames, total, arriving, ending, copyPc, base, nr, bufLen,
                    frameSize, out>>
    BY <1>2, Zenon DEF copyVars
  <2>. QED  BY <1>2, <2>1, Zenon DEF CopyInv, CopyTypeOK, Laid, Within, AtFrameStart,
                              ReadHasRoom, Needed, Current, Faithful, Frame
<1>. QED  BY <1>1, <1>2, Zenon

\* The invariant holds throughout, whatever the pieces in which the stream
\* arrives and wherever it is cut (lines 94-193).
THEOREM CopyInvariant == CopySpec => []CopyInv
BY CopyInitInv, CopyStepInv, PTL DEF CopySpec

\* Every call of src.Read has room for what the loop waits for (lines 108,
\* 144-147, 152).
THEOREM CopyReadHasRoom == CopySpec => []ReadHasRoom
<1>1. CopyInv => ReadHasRoom
  BY Zenon DEF CopyInv
<1>. QED  BY <1>1, CopyInvariant, PTL

\* buf[0] is always the first byte of a frame or the end of the stream (lines
\* 189-191).
THEOREM CopyAtFrameStart == CopySpec => []AtFrameStart
<1>1. CopyInv => AtFrameStart
  BY Zenon DEF CopyInv
<1>. QED  BY <1>1, CopyInvariant, PTL

-----------------------------------------------------------------------------
(* The refinement: writes of the daemon are sends, the end of the stream      *)
(* closes the channel, CopyFrame delivers a frame or stops at an error frame, *)
(* a read that returns stops, and every other step is a stutter.              *)
Sent == [i \in 1 .. Len(frames) |-> Frame(i)]

\* The frames sent, as the channel has them.
LEMMA SentFacts ==
    ASSUME CopyTypeOK
    PROVE  /\ Sent \in Seq(OutRecords)
           /\ Len(Sent) = Len(frames)
           /\ \A i \in 1 .. Len(frames) : Sent[i] = Frame(i)
<1>1. \A i \in 1 .. Len(frames) : Frame(i) \in OutRecords
  BY FrameFields, Zenon DEF Frame, OutRecords
<1>2. Len(frames) \in Nat
  BY FrameFields, Zenon
<1>. QED  BY <1>1, <1>2 DEF Sent

\* The initial states are initial states of the channel.
LEMMA InitRefines == CopyInit => Channel!ChanInit
BY DEF CopyInit, Channel!ChanInit

\* The next frame of the channel is the one at buf[0].
LEMMA UpcomingFrame ==
    ASSUME CopyInv, nr >= HeaderLen
    PROVE  Channel!More /\ Channel!Upcoming = HeaderAt(base)
<1>1. /\ Len(out) < Len(frames) /\ HeaderAt(base) = Frame(Len(out) + 1)
      /\ Len(out) \in Nat /\ Len(frames) \in Nat
  BY FrameAhead, FrameFields, Zenon DEF CopyInv
<1>2. Len(Sent) = Len(frames) /\ Sent[Len(out) + 1] = Frame(Len(out) + 1)
  BY <1>1, SentFacts DEF CopyInv
<1>. QED  BY <1>1, <1>2, Zenon DEF Channel!More, Channel!Upcoming, Sent

\* Writing a frame is sending it.
LEMMA StdWriteRefines ==
    ASSUME CopyInv, NEW k \in StdType, NEW s \in PayloadSizes, StdWrite(k, s)
    PROVE  Channel!Send
<1>. DEFINE f == [kind |-> k, size |-> s, at |-> total]
            g == [kind |-> k, size |-> s]
<1>1. /\ ending = "open" /\ frames' = Append(frames, f)
      /\ arriving' = total' /\ total' \in Nat
      /\ UNCHANGED <<ending, copyPc, out>>
  BY DEF StdWrite, readerVars, CopyInv, CopyTypeOK
<1>2. CopyTypeOK /\ CopyTypeOK' /\ frames \in Seq(FrameRecords) /\ f \in FrameRecords
  BY StdWriteInv, Zenon DEF CopyInv, CopyTypeOK, FrameRecords
<1>3. /\ Len(frames) \in Nat /\ Len(frames') = Len(frames) + 1
      /\ \A i \in 1 .. Len(frames) : frames'[i] = frames[i]
      /\ frames'[Len(frames) + 1] = f
  BY <1>1, <1>2
<1>4. \A i \in 1 .. Len(frames') :
         Frame(i)' = IF i \in 1 .. Len(frames) THEN Frame(i) ELSE g
  <2>1. \A i \in 1 .. Len(frames) : Frame(i)' = Frame(i)
    BY <1>3, Zenon DEF Frame
  <2>2. \A i : i = Len(frames) + 1 => Frame(i)' = g
    BY <1>3 DEF Frame
  <2>. QED  BY <1>3, <2>1, <2>2
<1>5. Sent' = [i \in 1 .. Len(frames) + 1 |-> IF i \in 1 .. Len(frames) THEN Frame(i) ELSE g]
  <2>1. Sent' = [i \in 1 .. Len(frames') |-> Frame(i)']
    BY Zenon DEF Sent
  <2>. QED  BY <1>3, <1>4, <2>1, Zenon
<1>6. Sent' = Append(Sent, g)
  <2>1. Sent \in Seq(OutRecords) /\ Len(Sent) = Len(frames)
    BY <1>2, SentFacts, Zenon
  <2>2. Append(Sent, g) = [i \in 1 .. Len(frames) + 1 |->
                             IF i \in 1 .. Len(frames) THEN Frame(i) ELSE g]
    BY <1>3, <2>1 DEF Sent
  <2>. QED  BY <1>5, <2>2, Zenon
<1>7. g \in Channel!Frames
  BY Zenon DEF Channel!Frames
<1>8. \E h \in Channel!Frames : Sent' = Append(Sent, h)
  BY <1>6, <1>7, Zenon
<1>9. UNCHANGED (ending = "error" \/ arriving < total)
  BY <1>1 DEF CopyInv, Within, CopyTypeOK
<1>. QED  BY <1>1, <1>8, <1>9, Zenon DEF Channel!Send, Sent

\* The end of the stream closes the channel.
LEMMA EndStreamRefines ==
    ASSUME CopyInv, NEW n \in 0 .. total, NEW how \in {"EOF", "error"},
           EndStream(n, how)
    PROVE  Channel!Close
<1>1. /\ ending = "open" /\ ending' = how
      /\ UNCHANGED <<frames, copyPc, out>>
  BY Zenon DEF EndStream, readerVars
<1>2. UNCHANGED Sent
  BY <1>1, Zenon DEF Sent, Frame
<1>. QED  BY <1>1, <1>2, Zenon DEF Channel!Close, Sent

\* A read that returns has met the end: in the middle of a frame the stream
\* was cut, and between two frames everything has been delivered.
LEMMA ReadRefines ==
    ASSUME CopyInv, NEW n \in 0 .. bufLen, NEW er \in BOOLEAN, Read(n, er)
    PROVE  Channel!Stop \/ UNCHANGED Channel!chanVars
<1>1. /\ copyPc \in {"header", "frame"} /\ copyPc' \in {copyPc, "returned"}
      /\ UNCHANGED <<frames, total, arriving, ending, out>>
  BY Zenon DEF Read, streamVars
<1>2. UNCHANGED Sent
  BY <1>1, Zenon DEF Sent, Frame
<1>3. CASE copyPc' = copyPc
  BY <1>1, <1>2, <1>3, Zenon DEF Channel!chanVars, Sent
<1>4. CASE copyPc' = "returned"
  <2>1. /\ er /\ (ending = "error" \/ nr + n < Needed)
        /\ ending # "open" /\ base + nr + n = arriving
    BY <1>1, <1>4, Zenon DEF Read
  <2>2. (ending = "error" \/ arriving < total) \/ ~Channel!More
    <3>1. SUFFICES ASSUME ending # "error", arriving = total
                   PROVE  ~Channel!More
      BY DEF CopyInv, CopyTypeOK, Within
    <3>2. nr + n < Needed /\ base + nr + n = total
      BY <2>1, <3>1, Zenon
    <3>3. /\ Len(out) \in Nat /\ Len(frames) \in Nat /\ Len(out) <= Len(frames)
          /\ Len(Sent) = Len(frames)
          /\ base \in Nat /\ nr \in Nat /\ n \in Nat /\ total \in Nat
      BY FrameFields, SentFacts DEF CopyInv, AtFrameStart, CopyTypeOK
    <3>4. Len(out) = Len(frames)
      <4>1. SUFFICES ASSUME Len(out) < Len(frames) PROVE FALSE
        BY <3>3
      <4>. DEFINE i == Len(out) + 1
      <4>2. i \in 1 .. Len(frames) /\ base = frames[i].at /\ frames[i].size \in Nat
        BY <3>3, <4>1, FrameFields DEF CopyInv, AtFrameStart
      <4>3. base + HeaderLen + frames[i].size <= total
        BY <4>2, Zenon DEF CopyInv, Laid
      <4>4. copyPc = "frame" => frameSize = frames[i].size
        BY Zenon DEF CopyInv, Current
      <4>5. PICK sz \in Nat : /\ base + HeaderLen + sz <= total
                              /\ copyPc = "frame" => frameSize = sz
        BY <4>2, <4>3, <4>4, Zenon
      <4>6. Needed <= HeaderLen + sz
        BY <1>1, <4>5 DEF Needed
      <4>7. Needed \in Nat
        BY <1>1, <4>5 DEF Needed
      <4>. QED  BY <3>2, <3>3, <4>5, <4>6, <4>7
    <3>. QED  BY <3>3, <3>4 DEF Channel!More, Sent
  <2>. QED  BY <1>1, <1>2, <1>4, <2>1, <2>2, Zenon DEF Channel!Stop, Sent
<1>. QED  BY <1>1, <1>3, <1>4, Zenon

\* A header stops the channel or is no step of it.
LEMMA ReadHeaderRefines ==
    ASSUME CopyInv, ReadHeader
    PROVE  Channel!Stop \/ UNCHANGED Channel!chanVars
<1>1. /\ copyPc = "header" /\ nr >= HeaderLen
      /\ UNCHANGED <<frames, total, arriving, ending, out>>
  BY Zenon DEF ReadHeader, streamVars
<1>2. UNCHANGED Sent
  BY <1>1, Zenon DEF Sent, Frame
<1>3. CASE HeaderAt(base).kind = "unknown" /\ copyPc' = "returned"
  <2>1. Channel!More /\ Channel!Upcoming.kind \notin LogStreams
    BY <1>1, <1>3, UpcomingFrame, Zenon DEF LogStreams
  <2>. QED  BY <1>1, <1>2, <1>3, <2>1, Zenon DEF Channel!Stop, Sent
<1>4. CASE copyPc' = "frame"
  BY <1>1, <1>2, <1>4, Zenon DEF Channel!chanVars, Sent
<1>. QED  BY <1>3, <1>4, Zenon DEF ReadHeader

\* Handing out a frame is a delivery.
LEMMA CopyFrameRefines ==
    ASSUME CopyInv, CopyFrame
    PROVE  Channel!Stop \/ Channel!Deliver
<1>1. /\ copyPc = "frame" /\ nr >= HeaderLen
      /\ UNCHANGED <<frames, total, arriving, ending>>
  BY DEF CopyFrame, streamVars, CopyInv, CopyTypeOK
<1>2. UNCHANGED Sent
  BY <1>1, Zenon DEF Sent, Frame
<1>3. Channel!More /\ Channel!Upcoming = HeaderAt(base)
  BY <1>1, UpcomingFrame, Zenon
<1>4. CASE HeaderAt(base).kind = "systemerr" /\ copyPc' = "returned" /\ UNCHANGED out
  <2>1. Channel!Upcoming.kind \notin LogStreams
    BY <1>3, <1>4, Zenon DEF LogStreams
  <2>. QED  BY <1>1, <1>2, <1>3, <1>4, <2>1, Zenon DEF Channel!Stop, Sent
<1>5. CASE /\ HeaderAt(base).kind # "systemerr"
           /\ out' = Append(out, [kind |-> HeaderAt(base).kind, size |-> frameSize])
           /\ copyPc' = "header"
  <2>1. /\ HeaderAt(base) = Frame(Len(out) + 1)
        /\ frameSize = frames[Len(out) + 1].size
        /\ frames[Len(out) + 1].kind \in StdType \ {"unknown"}
    BY <1>1, FrameAhead, FrameFields DEF CopyInv, Current
  <2>2. HeaderAt(base) = [kind |-> HeaderAt(base).kind, size |-> frameSize]
    BY <2>1 DEF Frame
  <2>3. HeaderAt(base).kind \in LogStreams
    BY <1>5, <2>1 DEF Frame, StdType
  <2>4. out' = Append(out, Channel!Upcoming) /\ Channel!Upcoming.kind \in LogStreams
    BY <1>3, <1>5, <2>2, <2>3, Zenon
  <2>. QED  BY <1>1, <1>2, <1>3, <1>5, <2>4, Zenon DEF Channel!Deliver, Sent
<1>. QED  BY <1>4, <1>5, Zenon DEF CopyFrame

\* Every step is one of the channel, or none.
LEMMA StepRefines ==
    CopyInv /\ [CopyNext]_copyVars => [Channel!ChanNext]_(Channel!chanVars)
<1>1. ASSUME CopyInv, CopyNext PROVE Channel!ChanNext \/ UNCHANGED Channel!chanVars
  <2>1. ASSUME NEW k \in StdType, NEW s \in PayloadSizes, StdWrite(k, s)
        PROVE  Channel!ChanNext
    BY <1>1, <2>1, StdWriteRefines, Zenon DEF Channel!ChanNext
  <2>2. ASSUME NEW n \in 0 .. total, NEW how \in {"EOF", "error"}, EndStream(n, how)
        PROVE  Channel!ChanNext
    BY <1>1, <2>2, EndStreamRefines, Zenon DEF Channel!ChanNext
  <2>3. ASSUME NEW n \in 0 .. bufLen, NEW er \in BOOLEAN, Read(n, er)
        PROVE  Channel!ChanNext \/ UNCHANGED Channel!chanVars
    BY <1>1, <2>3, ReadRefines, Zenon DEF Channel!ChanNext
  <2>4. CASE ReadHeader
    BY <1>1, <2>4, ReadHeaderRefines, Zenon DEF Channel!ChanNext
  <2>5. CASE CopyFrame
    BY <1>1, <2>5, CopyFrameRefines, Zenon DEF Channel!ChanNext
  <2>. QED  BY <1>1, <2>1, <2>2, <2>3, <2>4, <2>5, Zenon DEF CopyNext, Daemon, Reader
<1>2. ASSUME UNCHANGED copyVars PROVE UNCHANGED Channel!chanVars
  <2>1. UNCHANGED <<frames, total, arriving, ending, copyPc, out>>
    BY <1>2, Zenon DEF copyVars
  <2>2. UNCHANGED Sent
    BY <2>1, Zenon DEF Sent, Frame
  <2>. QED  BY <2>1, <2>2, Zenon DEF Channel!chanVars, Sent
<1>. QED  BY <1>1, <1>2, Zenon

\* The log connection is given the frames that the daemon wrote, whole, once
\* and in order, and StdCopy returns early only at an error frame or when the
\* stream was cut (lines 46-69 and 94-193).
THEOREM CopyRefines == CopySpec => ChannelSpec
BY InitRefines, StepRefines, CopyInvariant, PTL
DEF CopySpec, ChannelSpec, Channel!ChanSpec
=============================================================================
