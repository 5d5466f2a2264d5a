----------------------------- MODULE NodeCalls -----------------------------
(***************************************************************************)
(* Service/QuotaService.go, UploadLogByTrackNo of Service/LogService.go and    *)
(* the two file handlers of Service/FileService.go: a call that names another *)
(* node is relayed to the daemon of that node, up to three times (a file call *)
(* once), and its outcome goes to the caller in the HTTP answer, by a         *)
(* callback, or both.  A connection can break at any moment, whatever the   *)
(* other node has done by then, and what it still does goes on.  The caller   *)
(* makes its calls one after the other.                                       *)
(***************************************************************************)
EXTENDS Integers, Sequences

CONSTANTS
    NumCalls,       \* calls of the caller, numbered from 1
    Scenarios,      \* the sequences of calls considered
    MaxAttempts,    \* retry.Attempts, 3 in the code
    CallbackTries   \* RetryMax + 1 of the callback client, 9 in the code

QuotaOps == {"image", "space", "release", "set", "dir"}
FileOps == {"files", "file"}
Unmade == [op |-> "none", async |-> FALSE, url |-> FALSE, tracked |-> FALSE]
Params == {Unmade} \cup
          [op : QuotaOps \cup FileOps \cup {"upload"}, async : BOOLEAN, url : BOOLEAN, tracked : BOOLEAN]

ASSUME CallsAssumption ==
    /\ NumCalls \in Nat \ {0}
    /\ Scenarios \subseteq [1 .. NumCalls -> Params]
    /\ MaxAttempts \in Nat \ {0}
    /\ CallbackTries \in Nat \ {0}

Calls == 1 .. NumCalls
Attempts == 1 .. MaxAttempts
Nobody == [call |-> 0, orphan |-> FALSE]

VARIABLES
    param,      \* parameters of each call; they never change
    handler,    \* the handler at the relay: "none", "running" or "returned"
    relay,      \* the relaying: "none", "post", "wait", "failed" or "over"
    tries,      \* attempts made
    remote,     \* each attempt at the other node: "none", "sent", "gone", or
                \* how it was handled: "ok", "fail" or "refused"
    posted,     \* posts to filebeat by each attempt of an upload
    body,       \* what was written to the caller's answer
    late,       \* something was written after the handler had returned
    callbacks,  \* callbacks started for each call
    got,        \* the callbacks that have reached the caller
    setBy       \* the call that changed the limit last, and whether the relay
                \* had given up on that attempt

callVars == <<param, handler, relay, tries, remote, posted, body, late,
              callbacks, got, setBy>>

CallsInit ==
    /\ param \in Scenarios
    /\ handler = [c \in Calls |-> "none"]
    /\ relay = [c \in Calls |-> "none"]
    /\ tries = [c \in Calls |-> 0]
    /\ remote = [c \in Calls |-> [n \in Attempts |-> "none"]]
    /\ posted = [c \in Calls |-> [n \in Attempts |-> 0]]
    /\ body = [c \in Calls |-> <<>>]
    /\ late = [c \in Calls |-> FALSE]
    /\ callbacks = [c \in Calls |-> <<>>]
    /\ got = [c \in Calls |-> {}]
    /\ setBy = Nobody

\* retry.Attempts; the file handlers do not retry.
Limit(c) == IF param[c].op \in FileOps THEN 1 ELSE MaxAttempts

Detached(c) == param[c].async /\ param[c].op \in {"release", "upload"}

-----------------------------------------------------------------------------
(* The relay.  The answer to the caller and the return of the handler.        *)
Write(c, what) ==
    /\ body' = [body EXCEPT ![c] = Append(@, what)]
    /\ late' = [late EXCEPT ![c] = @ \/ handler[c] = "returned"]

Silent(c) == UNCHANGED <<body, late>>

\* go callback(url, status, body): it does nothing without a url.  The file
\* handlers have none.
Callback(c, status, what) ==
    callbacks' = [callbacks EXCEPT ![c] =
        IF param[c].op \in FileOps THEN @
        ELSE Append(@, [status |-> status, what |-> what,
                        left |-> IF param[c].url THEN CallbackTries ELSE 0])]

Finish(c) ==
    /\ relay' = [relay EXCEPT ![c] = "over"]
    /\ handler' = [handler EXCEPT ![c] = IF Detached(c) THEN @ ELSE "returned"]

Arrive(c, op) ==
    /\ handler[c] = "none" /\ param[c].op = op
    /\ c > 1 => handler[c - 1] = "returned"
    /\ handler' = [handler EXCEPT ![c] = "running"]
    /\ relay' = [relay EXCEPT ![c] = "post"]
    /\ UNCHANGED <<param, tries, remote, posted, body, late, callbacks, got, setBy>>

GetImageDiskQuotaInfoHandler(c) == Arrive(c, "image")
GetNodeSpaceInfoHandler(c) == Arrive(c, "space")
ReleaseDirHandler(c) == Arrive(c, "release")
SetDirQuotaHandler(c) == Arrive(c, "set")
GetDirQuotaInfoHandler(c) == Arrive(c, "dir")
UploadLogByTrackNo(c) == Arrive(c, "upload")
PodFilesHandler(c) == Arrive(c, "files")
PodFileHandler(c) == Arrive(c, "file")

\* A detached call is answered at once, beside the goroutine that relays it.
AnswerAtOnce(c) ==
    /\ handler[c] = "running" /\ Detached(c)
    /\ Write(c, "accepted")
    /\ handler' = [handler EXCEPT ![c] = "returned"]
    /\ UNCHANGED <<param, relay, tries, remote, posted, callbacks, got, setBy>>

\* The log of a pod that is not tracked goes to the object store from here;
\* only the callback tells how that went.
UploadUntracked(c) ==
    /\ relay[c] = "post" /\ param[c].op = "upload" /\ ~param[c].tracked
    /\ \E what \in {"ok", "fail"} : Callback(c, 1, what)
    /\ Silent(c)
    /\ Finish(c)
    /\ UNCHANGED <<param, tries, remote, posted, got, setBy>>

Relayed(c) == param[c].op = "upload" => param[c].tracked

Post(c) ==
    /\ relay[c] = "post" /\ Relayed(c)
    /\ tries' = [tries EXCEPT ![c] = @ + 1]
    /\ remote' = [remote EXCEPT ![c][tries[c] + 1] = "sent"]
    /\ relay' = [relay EXCEPT ![c] = "wait"]
    /\ UNCHANGED <<param, handler, posted, body, late, callbacks, got, setBy>>

\* Mutants: the outcome is told before the other node has handled the request;
\* an answer that reports a failure is told and the request tried again.
AnswerEarly(c, what) ==
    /\ relay[c] = "wait" /\ what = "ok"
    /\ IF param[c].async THEN Silent(c) ELSE Write(c, what)
    /\ Callback(c, 1, what)
    /\ Finish(c)
    /\ UNCHANGED <<param, tries, remote, posted, got, setBy>>

AnswerRetries(c, what) ==
    /\ relay[c] = "wait" /\ remote[c][tries[c]] = what
    /\ IF param[c].async THEN Silent(c) ELSE Write(c, what)
    /\ Callback(c, 1, what)
    /\ IF what = "fail" /\ tries[c] < MaxAttempts
       THEN relay' = [relay EXCEPT ![c] = "post"] /\ UNCHANGED handler
       ELSE Finish(c)
    /\ UNCHANGED <<param, tries, remote, posted, got, setBy>>

\* The other node's answer, whatever it says, ends the retries.  The error of
\* ReadAll is dropped: a body cut short counts as an answer.
Answer(c, what) ==
    /\ relay[c] = "wait"
    /\ remote[c][tries[c]] \in {"ok", "fail", "refused"}
    /\ what \in {remote[c][tries[c]], "cut"}
    /\ IF param[c].async THEN Silent(c) ELSE Write(c, what)
    /\ Callback(c, 1, what)
    /\ Finish(c)
    /\ UNCHANGED <<param, tries, remote, posted, got, setBy>>

\* Mutant: the attempts are not counted.
BreakAgain(c) ==
    /\ relay[c] = "wait"
    /\ relay' = [relay EXCEPT ![c] = "post"]
    /\ UNCHANGED <<param, handler, tries, remote, posted, body, late, callbacks, got, setBy>>

\* The connection breaks before the answer.
Break(c) ==
    /\ relay[c] = "wait"
    /\ relay' = [relay EXCEPT ![c] = IF tries[c] < Limit(c) THEN "post" ELSE "failed"]
    /\ UNCHANGED <<param, handler, tries, remote, posted, body, late, callbacks,
                   got, setBy>>

\* Mutants: the error is written whether or not the handler has returned; a
\* quota call that fails calls nobody back.

\* Mutant: a quota call that fails calls nobody back.
GiveUpNoCallback(c) ==
    /\ relay[c] = "failed"
    /\ IF param[c].op = "upload" /\ param[c].async THEN Silent(c) ELSE Write(c, "FAIL")
    /\ IF param[c].op = "upload" THEN Callback(c, 0, "FAIL") ELSE UNCHANGED callbacks
    /\ Finish(c)
    /\ UNCHANGED <<param, tries, remote, posted, got, setBy>>

\* After the last attempt the caller gets the error; an upload that is
\* asynchronous writes no answer, every other call does.
GiveUp(c) ==
    /\ relay[c] = "failed"
    /\ IF param[c].op = "upload" /\ param[c].async THEN Silent(c) ELSE Write(c, "FAIL")
    /\ Callback(c, 0, "FAIL")
    /\ Finish(c)
    /\ UNCHANGED <<param, tries, remote, posted, got, setBy>>

\* One try of the callback client: it reaches the caller or not, and its
\* answer comes back or not.
TryCallback(c, i, reaches, answered) ==
    /\ i \in 1 .. Len(callbacks[c]) /\ callbacks[c][i].left > 0
    /\ answered => reaches
    /\ callbacks' = [callbacks EXCEPT ![c][i].left = IF answered THEN 0 ELSE @ - 1]
    /\ got' = [got EXCEPT ![c] = IF reaches THEN @ \cup {<<callbacks[c][i].status, callbacks[c][i].what>>}
                                         ELSE @]
    /\ UNCHANGED <<param, handler, relay, tries, remote, posted, body, late, setBy>>

-----------------------------------------------------------------------------
(* The other node, where the token names localhost.  The relay may have given *)
(* the attempt up by then: the handler there does not look.                   *)
Orphan(c, n) == ~(relay[c] = "wait" /\ tries[c] = n)

Handled(c, n, how) ==
    /\ remote[c][n] = "sent"
    /\ remote' = [remote EXCEPT ![c][n] = how]
    /\ UNCHANGED <<param, handler, relay, tries, body, late, callbacks, got>>

\* The quota controller answers with an error, or is not there at all; the
\* file is not there.
LocalFail(c, n) ==
    /\ param[c].op \in QuotaOps \cup FileOps
    /\ Handled(c, n, "fail")
    /\ UNCHANGED <<posted, setBy>>

\* Mutant: the node answers first and sets the limit when it gets to it.
LocalSetDirQuotaLate(c, n) ==
    /\ param[c].op = "set" /\ remote[c][n] \in {"sent", "ok"}
    /\ remote' = [remote EXCEPT ![c][n] = "ok"]
    /\ setBy' = [call |-> c, orphan |-> FALSE]
    /\ UNCHANGED <<param, handler, relay, tries, posted, body, late, callbacks, got>>

LocalSetDirQuota(c, n) ==
    /\ param[c].op = "set"
    /\ Handled(c, n, "ok")
    /\ setBy' = [call |-> c, orphan |-> Orphan(c, n)]
    /\ UNCHANGED posted

LocalReleaseDir(c, n) ==
    /\ param[c].op = "release"
    /\ Handled(c, n, "ok")
    /\ setBy' = [call |-> c, orphan |-> Orphan(c, n)]
    /\ UNCHANGED posted

LocalRead(c, n) ==
    /\ param[c].op \in {"image", "space", "dir"} \cup FileOps
    /\ Handled(c, n, "ok")
    /\ UNCHANGED <<posted, setBy>>

\* The token of an upload keeps the caller's time of expiry, which may have
\* passed since the relay looked at it.
LocalRefuse(c, n) ==
    /\ param[c].op = "upload" /\ posted[c][n] = 0
    /\ Handled(c, n, "refused")
    /\ UNCHANGED <<posted, setBy>>

\* The upload is handed to filebeat; an error or an answer that cannot be
\* decoded, after filebeat may have done it, makes the node post it again.
LocalUpload(c, n, ok) ==
    /\ param[c].op = "upload"
    /\ posted' = [posted EXCEPT ![c][n] = @ + 1]
    /\ Handled(c, n, IF ok THEN "ok"
                     ELSE IF posted[c][n] + 1 < MaxAttempts THEN "sent" ELSE "fail")
    /\ UNCHANGED setBy

\* The request never arrives.
Lose(c, n) ==
    /\ posted[c][n] = 0
    /\ Handled(c, n, "gone")
    /\ UNCHANGED <<posted, setBy>>

-----------------------------------------------------------------------------
RelayStep(c) ==
    \/ AnswerAtOnce(c)
    \/ UploadUntracked(c)
    \/ Post(c)
    \/ \E what \in {"ok", "fail", "refused", "cut"} : Answer(c, what)
    \/ Break(c)
    \/ GiveUp(c)

CallerStep(c) ==
    \/ GetImageDiskQuotaInfoHandler(c)
    \/ GetNodeSpaceInfoHandler(c)
    \/ ReleaseDirHandler(c)
    \/ SetDirQuotaHandler(c)
    \/ GetDirQuotaInfoHandler(c)
    \/ UploadLogByTrackNo(c)
    \/ PodFilesHandler(c)
    \/ PodFileHandler(c)

LocalStep(c, n) ==
    \/ LocalFail(c, n)
    \/ LocalSetDirQuota(c, n)
    \/ LocalReleaseDir(c, n)
    \/ LocalRead(c, n)
    \/ LocalRefuse(c, n)
    \/ \E ok \in BOOLEAN : LocalUpload(c, n, ok)
    \/ Lose(c, n)

CallbackStep(c) ==
    \E i \in 1 .. Len(callbacks[c]), reaches, answered \in BOOLEAN :
        TryCallback(c, i, reaches, answered)

CallsNext ==
    \E c \in Calls : \/ RelayStep(c)
                     \/ CallerStep(c)
                     \/ CallbackStep(c)
                     \/ \E n \in Attempts : LocalStep(c, n)

CallsSpec == CallsInit /\ [][CallsNext]_callVars

\* Goroutines run, the handlers of the other node end, a post whose request
\* was lost ends in an error, and the callback client's requests time out
\* after 5 s.  A connection need not break: the posts have no timeout.
RelayProgress(c) ==
    \/ AnswerAtOnce(c) \/ UploadUntracked(c) \/ Post(c) \/ GiveUp(c)
    \/ \E what \in {"ok", "fail", "refused", "cut"} : Answer(c, what)
    \/ relay[c] = "wait" /\ remote[c][tries[c]] = "gone" /\ Break(c)

FairCallsSpec ==
    /\ CallsSpec
    /\ \A c \in Calls : WF_callVars(RelayProgress(c)) /\ WF_callVars(CallbackStep(c))
    /\ \A c \in Calls, n \in Attempts : WF_callVars(LocalStep(c, n))

-----------------------------------------------------------------------------
Answers == {"ok", "fail", "refused", "cut"}
Outcomes == Answers \cup {"FAIL"}
CallbackRecords == [status : {0, 1}, what : Outcomes, left : 0 .. CallbackTries]
Elements(s) == {s[i] : i \in 1 .. Len(s)}

\* Types of the variables.
CallsTypeOK ==
    /\ param \in [Calls -> Params]
    /\ handler \in [Calls -> {"none", "running", "returned"}]
    /\ relay \in [Calls -> {"none", "post", "wait", "failed", "over"}]
    /\ tries \in [Calls -> 0 .. MaxAttempts]
    /\ remote \in [Calls -> [Attempts -> {"none", "sent", "gone", "ok", "fail", "refused"}]]
    /\ posted \in [Calls -> [Attempts -> 0 .. MaxAttempts]]
    /\ body \in [Calls -> Seq(Outcomes \cup {"accepted"})]
    /\ late \in [Calls -> BOOLEAN]
    /\ callbacks \in [Calls -> Seq(CallbackRecords)]
    /\ got \in [Calls -> SUBSET ({0, 1} \X Outcomes)]
    /\ setBy \in [call : Calls \cup {0}, orphan : BOOLEAN]

\* The outcomes a call was told: in the answer, and by callbacks.
Told(c) ==
    {w \in Elements(body[c]) : w # "accepted"} \cup {g[2] : g \in got[c]}

\* retry.Do stops at the first answer and the error is written only after the
\* last attempt: a caller is never told two outcomes of one call, whichever of
\* answer and callbacks it listens to and however often a callback is repeated.
OneOutcome == \A c \in Calls : \A v, w \in Told(c) : v = w

\* A caller told "success" has its request carried out by the other node (or,
\* for an untracked log, by the relay) before it is told, over lost answers,
\* retries and repeated callbacks.
SuccessExecuted ==
    \A c \in Calls :
        "ok" \in Told(c) =>
            \/ \E n \in Attempts : remote[c][n] = "ok"
            \/ ~Relayed(c)

\* A caller told that the relaying failed (FAIL_RES with the last error, and
\* callback status 0) can count on all the attempts having been made; the
\* other node may have carried the request out all the same.
FailureAfterAll ==
    \A c \in Calls :
        "FAIL" \in Told(c) => /\ \A n \in 1 .. Limit(c) : remote[c][n] # "none"
                              /\ \A g \in got[c] : g[1] = 0

\* What a caller is told is so: a success was carried out, and a failure comes
\* after all the attempts.
ToldTruth == SuccessExecuted /\ FailureAfterAll

\* Only an asynchronous ReleaseDir that fails writes to an answer whose handler
\* has returned.
LateWriteOnlyRelease ==
    \A c \in Calls :
        late[c] => /\ param[c].op = "release" /\ param[c].async
                   /\ tries[c] = MaxAttempts /\ relay[c] = "over"

\* A limit whose change was answered "success" is undone by an earlier call
\* only if that call was released to a goroutine, or by an attempt the relay
\* had already given up: the handlers wait for their answer before they return.
LastSetInForce ==
    \A c \in Calls :
        (param[c].op \in {"set", "release"} /\ "ok" \in Elements(body[c])) =>
            \/ setBy.call >= c
            \/ setBy.orphan
            \/ Detached(setBy.call)

\* Once the relaying is over the outcome is in the answer or in the callback
\* the caller asked for, unless it asked for neither: an asynchronous call or
\* an untracked upload without a callback.
NobodyUntold ==
    \A c \in Calls :
        relay[c] = "over" =>
            \/ \E w \in Elements(body[c]) : w # "accepted"
            \/ param[c].url /\ callbacks[c] # <<>>
            \/ ~param[c].url /\ (param[c].async \/ ~Relayed(c))

\* Every call comes to its end: the handler returns, the relaying is over, one
\* callback was started and delivered or given up (none for a file), nobody who
\* asked for the outcome is left without it, and only a failed asynchronous
\* release has written to an answer that was over.
CallConcluded ==
    /\ []LateWriteOnlyRelease /\ []NobodyUntold
    /\ <>[](\A c \in Calls :
                handler[c] # "none" =>
                    /\ handler[c] = "returned" /\ relay[c] = "over"
                    /\ IF param[c].op \in FileOps THEN callbacks[c] = <<>>
                       ELSE Len(callbacks[c]) = 1 /\ callbacks[c][1].left = 0)
=============================================================================
