------------------------------ MODULE MCRelays ------------------------------
(***************************************************************************)
(* The handlers that pass a request on to the daemon of another node: the     *)
(* calls of NodeCalls and the watching of a file of FileTail.  They have no    *)
(* state in common; a behaviour exercises one of them, which the variable     *)
(* part names, and the other one stays in its initial state.                  *)
(***************************************************************************)
EXTENDS NodeCalls, FileTail

Call(op, async, url, tracked) ==
    [op |-> op, async |-> async, url |-> url, tracked |-> tracked]

\* One call of each kind alone, with and without a callback, and a change of a
\* limit followed by another one.
MCScenarios ==
    {<<Call(op, async, url, TRUE), Unmade>> :
        op \in {"image", "space", "dir"}, async, url \in BOOLEAN}
    \cup {<<Call("upload", async, url, tracked), Unmade>> : async, url, tracked \in BOOLEAN}
    \cup {<<Call(op, FALSE, FALSE, TRUE), Unmade>> : op \in FileOps}
    \cup {<<Call(op, async, TRUE, TRUE), Call("set", FALSE, FALSE, TRUE)>> :
             op \in {"set", "release"}, async \in BOOLEAN}

VARIABLE part

relayVars == <<part, callVars, tailVars>>

\* The other part starts in one of its initial states.
RelaysInit ==
    /\ part \in {"calls", "tail"}
    /\ CallsInit /\ TailInit
    /\ part # "calls" => param = <<Call("file", FALSE, FALSE, TRUE), Unmade>>
    /\ part # "tail" => pod = "none"

InCalls(A) == part = "calls" /\ A /\ UNCHANGED <<part, tailVars>>
InTail(A) == part = "tail" /\ A /\ UNCHANGED <<part, callVars>>

RelaysNext == InCalls(CallsNext) \/ InTail(TailNext)

\* The fairness of FairCallsSpec and FairTailSpec, for the part exercised.
RelaysSpec ==
    /\ RelaysInit /\ [][RelaysNext]_relayVars
    /\ \A c \in Calls : /\ WF_relayVars(InCalls(RelayProgress(c)))
                        /\ WF_relayVars(InCalls(CallbackStep(c)))
                        /\ \A n \in Attempts : WF_relayVars(InCalls(LocalStep(c, n)))
    /\ WF_relayVars(InTail(EdgeUp /\ EdgeStep)) /\ SF_relayVars(InTail(EdgeUp /\ Dial))
    /\ \A s \in Sessions : WF_relayVars(InTail(NodeUp /\ NodeStep(s)))

-----------------------------------------------------------------------------
\* Types of the variables of both parts; no call is tried more often than its
\* limit, and the viewer is shown no line that was never written.
RelaysTypeOK == CallsTypeOK /\ TailTypeOK
=============================================================================
