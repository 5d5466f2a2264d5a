------------------------------ MODULE GpuCheck ------------------------------
(***************************************************************************)
(* gpu/nvidia/GpuCheckExecutor.go and its handler: the global checkGpuExec    *)
(* holds the running nvidia_gpu_check, and a request that finds one is        *)
(* refused.  Nothing orders the requests of different connections, so each    *)
(* access to the global is a step of its own.                                *)
(***************************************************************************)
CONSTANT Checks     \* requests for a check; each makes one command

ASSUME ChecksAssumption == "nil" \notin Checks

VARIABLES
    checkGpuExec,   \* the request whose command the global holds, or NilExec
    checking,       \* each request: "new", "tested", "set", "running", "done"
    ran,            \* commands that were started
    verdict         \* what each request was answered

checkVars == <<checkGpuExec, checking, ran, verdict>>

NilExec == "nil"

\* Types of the variables of CheckGpu and its callers.
CheckTypeOK ==
    /\ checkGpuExec \in Checks \cup {NilExec}
    /\ checking \in [Checks -> {"new", "tested", "set", "running", "done"}]
    /\ ran \subseteq Checks
    /\ verdict \in [Checks -> {"none", "refused", "status", "error", "panic"}]
    /\ \A r \in Checks : checking[r] = "done" <=> verdict[r] # "none"

CheckInit ==
    /\ checkGpuExec = NilExec
    /\ checking = [r \in Checks |-> "new"]
    /\ ran = {}
    /\ verdict = [r \in Checks |-> "none"]

Conclude(r, v) ==
    /\ checking' = [checking EXCEPT ![r] = "done"]
    /\ verdict' = [verdict EXCEPT ![r] = v]

TestExec(r) ==
    /\ checking[r] = "new"
    /\ IF checkGpuExec # NilExec THEN Conclude(r, "refused")
       ELSE checking' = [checking EXCEPT ![r] = "tested"] /\ UNCHANGED verdict
    /\ UNCHANGED <<checkGpuExec, ran>>

SetExec(r) ==
    /\ checking[r] = "tested"
    /\ checkGpuExec' = r
    /\ checking' = [checking EXCEPT ![r] = "set"]
    /\ UNCHANGED <<ran, verdict>>

\* CombinedOutput on the global: the command may by now be another request's,
\* or none, which panics and ends this connection only.  A command that was
\* started before cannot be started again; the output is empty then, and so
\* the global is cleared and the error returned.
RunExec(r) ==
    /\ checking[r] = "set"
    /\ CASE checkGpuExec = NilExec ->
              Conclude(r, "panic") /\ UNCHANGED <<checkGpuExec, ran>>
         [] checkGpuExec \in ran ->
              Conclude(r, "status") /\ checkGpuExec' = NilExec /\ UNCHANGED ran
         [] OTHER ->
              /\ ran' = ran \cup {checkGpuExec}
              /\ checking' = [checking EXCEPT ![r] = "running"]
              /\ UNCHANGED <<checkGpuExec, verdict>>

\* Mutant: a failed run of the tool returns before the global is cleared.
ExecEndsKeeps(r) ==
    /\ checking[r] = "running"
    /\ \/ Conclude(r, "error")
       \/ Conclude(r, "status")
    /\ UNCHANGED <<checkGpuExec, ran>>

\* The tool ends.  A line of its output that holds "error" is returned before
\* the global is cleared.
ExecEnds(r) ==
    /\ checking[r] = "running"
    /\ \/ Conclude(r, "error") /\ UNCHANGED checkGpuExec
       \/ Conclude(r, "status") /\ checkGpuExec' = NilExec
    /\ UNCHANGED ran

CheckNext ==
    \E r \in Checks : TestExec(r) \/ SetExec(r) \/ RunExec(r) \/ ExecEnds(r)

CheckSpec == CheckInit /\ [][CheckNext]_checkVars

-----------------------------------------------------------------------------
\* While no request is between its test of checkGpuExec and its answer, the
\* global is clear, unless some check reported an error line: concurrent
\* requests that run each other's commands do not block the later ones, an
\* error line (CheckGpu's early return) does, for the life of the daemon.
BlockedOnlyByError ==
    (\A r \in Checks : checking[r] \in {"new", "done"})
    => checkGpuExec = NilExec \/ \E r \in Checks : verdict[r] = "error"
=============================================================================
