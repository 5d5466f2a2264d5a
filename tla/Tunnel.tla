------------------------------- MODULE Tunnel -------------------------------
(***************************************************************************)
(* The daemon's HTTP proxy: proxy/http.go over the listener of                *)
(* utils/serve-channel.go, the request reader of utils/structs.go and IoBind  *)
(* of utils/functions.go.  InitProxy sets no parent and no authentication, so *)
(* the proxy dials the host a request names and copies both ways.             *)
(*                                                                           *)
(* Bytes are counted in chunks; what a peer sends can always be buffered.     *)
(***************************************************************************)
EXTENDS Integers, FiniteSets

CONSTANTS
    Tunnels,        \* connections of clients
    MaxChunks,      \* chunks sent each way
    FdLimit         \* file descriptors the process may have open

ASSUME TunnelAssumption == MaxChunks \in Nat \ {0} /\ FdLimit \in Nat /\ IsFiniteSet(Tunnels)

Ways == {"up", "down"}      \* from the client to the host, and back
Other(w) == IF w = "up" THEN "down" ELSE "up"
Kinds == {"http", "connect", "long", "short"}

VARIABLES
    listening,  \* ListenTCP still accepts
    tun,        \* the handler of each connection: "none", "decode", "dial", "bound",
                \* "closing", "over" or "panicked"
    first,      \* what the first read of it gives
    open,       \* by way, whether the socket the chunks are read from is open
    sent,       \* chunks sent, by way
    held,       \* chunks read and not written yet
    passed,     \* chunks written
    ended,      \* the sender of a way has closed or failed
    copier,     \* each ioCopy: "none", "run" or "done"
    cause       \* the way whose copier released the tunnel

tunVars == <<listening, tun, first, open, sent, held, passed, ended, copier, cause>>
flowVars == <<sent, held, passed>>

PerWay(v) == [t \in Tunnels |-> [w \in Ways |-> v]]

TunnelInit ==
    /\ listening = TRUE
    /\ tun = [t \in Tunnels |-> "none"]
    /\ first \in [Tunnels -> Kinds]
    /\ open = PerWay(FALSE)
    /\ sent = PerWay(0) /\ held = PerWay(0) /\ passed = PerWay(0)
    /\ ended = PerWay(FALSE)
    /\ copier = PerWay("none")
    /\ cause = [t \in Tunnels |-> "none"]

Fds == Cardinality({p \in Tunnels \X Ways : open[p[1]][p[2]]})

-----------------------------------------------------------------------------
(* ListenTCP.  An error of Accept ends its loop for good.                     *)
Accept(t) ==
    /\ listening /\ tun[t] = "none" /\ Fds < FdLimit
    /\ tun' = [tun EXCEPT ![t] = "decode"]
    /\ open' = [open EXCEPT ![t]["up"] = TRUE]
    /\ UNCHANGED <<listening, first, ended, copier, cause>> /\ UNCHANGED flowVars

AcceptFails ==
    /\ listening /\ Fds = FdLimit /\ \E t \in Tunnels : tun[t] = "none"
    /\ listening' = FALSE
    /\ UNCHANGED <<tun, first, open, ended, copier, cause>> /\ UNCHANGED flowVars

\* CloseConn of both sockets.
CloseBoth(t) == open' = [open EXCEPT ![t] = [w \in Ways |-> FALSE]]

\* NewHTTPRequest makes one read, which gives the end if the client sent nothing
\* before it.  If it has no request line, or no host, the connection is closed
\* ("long"), unless fewer than 50 bytes have come or the URL does not parse
\* ("short"): then it panics, and callback recovers but does not close.
Decode(t) ==
    /\ tun[t] = "decode"
    /\ \/ /\ ended[t]["up"] \/ first[t] = "long"
          /\ tun' = [tun EXCEPT ![t] = "over"] /\ CloseBoth(t)
       \/ /\ first[t] # "long"
          /\ tun' = [tun EXCEPT ![t] = IF first[t] = "short" THEN "panicked" ELSE "dial"]
          /\ UNCHANGED open
    /\ UNCHANGED <<listening, first, ended, copier, cause>> /\ UNCHANGED flowVars

\* OutToTCP: a request for the proxy itself (IsDeadLoop) and a failed dial
\* close the connection.
DialFails(t) ==
    /\ tun[t] = "dial"
    /\ tun' = [tun EXCEPT ![t] = "over"]
    /\ CloseBoth(t)
    /\ UNCHANGED <<listening, first, ended, copier, cause>> /\ UNCHANGED flowVars

\* A CONNECT is answered to the client; the head of any other request is the
\* first chunk that goes up.
Connect(t) ==
    /\ tun[t] = "dial" /\ Fds < FdLimit
    /\ tun' = [tun EXCEPT ![t] = "bound"]
    /\ open' = [open EXCEPT ![t]["down"] = TRUE]
    /\ LET w == IF first[t] = "connect" THEN "down" ELSE "up"
       IN /\ sent' = [sent EXCEPT ![t][w] = 1]
          /\ passed' = [passed EXCEPT ![t][w] = 1]
    /\ copier' = [copier EXCEPT ![t] = [w \in Ways |-> "run"]]
    /\ UNCHANGED <<listening, first, held, ended, cause>>

-----------------------------------------------------------------------------
(* The two ioCopy loops.  The first to fail runs the release, once.           *)
\* Mutant: the sockets are closed when both copiers have ended.
ReleaseWaits(t, w) ==
    /\ copier' = [copier EXCEPT ![t][w] = "done"]
    /\ cause' = [cause EXCEPT ![t] = IF @ = "none" THEN w ELSE @]
    /\ tun' = [tun EXCEPT ![t] = IF copier[t][Other(w)] = "done" THEN "closing" ELSE @]

Release(t, w) ==
    /\ copier' = [copier EXCEPT ![t][w] = "done"]
    /\ cause' = [cause EXCEPT ![t] = IF @ = "none" THEN w ELSE @]
    /\ tun' = [tun EXCEPT ![t] = IF cause[t] = "none" THEN "closing" ELSE @]

ReadChunk(t, w) ==
    /\ copier[t][w] = "run" /\ held[t][w] = 0
    /\ open[t][w] /\ passed[t][w] < sent[t][w]
    /\ held' = [held EXCEPT ![t][w] = 1]
    /\ UNCHANGED <<listening, tun, first, open, sent, passed, ended, copier, cause>>

\* Mutant: the end is seen before the chunks that came ahead of it.
ReadEndsEarly(t, w) ==
    /\ copier[t][w] = "run" /\ held[t][w] = 0
    /\ ~open[t][w] \/ ended[t][w]
    /\ Release(t, w)
    /\ UNCHANGED <<listening, first, open, ended>> /\ UNCHANGED flowVars

\* The end of the stream comes after all of its chunks, unless it is an error;
\* a socket closed here fails too.
ReadEnds(t, w) ==
    /\ copier[t][w] = "run" /\ held[t][w] = 0
    /\ ~open[t][w] \/ (ended[t][w] /\ passed[t][w] = sent[t][w])
    /\ Release(t, w)
    /\ UNCHANGED <<listening, first, open, ended>> /\ UNCHANGED flowVars

WriteChunk(t, w) ==
    /\ copier[t][w] = "run" /\ held[t][w] = 1
    /\ open[t][Other(w)]
    /\ held' = [held EXCEPT ![t][w] = 0]
    /\ passed' = [passed EXCEPT ![t][w] = @ + 1]
    /\ UNCHANGED <<listening, tun, first, open, sent, ended, copier, cause>>

WriteFails(t, w) ==
    /\ copier[t][w] = "run" /\ held[t][w] = 1
    /\ ~open[t][Other(w)] \/ ended[t][Other(w)]
    /\ Release(t, w)
    /\ UNCHANGED <<listening, first, open, ended>> /\ UNCHANGED flowVars

CloseTunnel(t) ==
    /\ tun[t] = "closing"
    /\ tun' = [tun EXCEPT ![t] = "over"]
    /\ CloseBoth(t)
    /\ UNCHANGED <<listening, first, ended, copier, cause>> /\ UNCHANGED flowVars

-----------------------------------------------------------------------------
(* The client and the host.                                                   *)
Sends(t, w) ==
    /\ tun[t] = "bound" /\ ~ended[t][w] /\ sent[t][w] < MaxChunks
    /\ sent' = [sent EXCEPT ![t][w] = @ + 1]
    /\ UNCHANGED <<listening, tun, first, open, held, passed, ended, copier, cause>>

Ends(t, w) ==
    /\ IF w = "up" THEN tun[t] # "none" ELSE tun[t] = "bound"
    /\ ~ended[t][w]
    /\ ended' = [ended EXCEPT ![t][w] = TRUE]
    /\ UNCHANGED <<listening, tun, first, open, copier, cause>> /\ UNCHANGED flowVars

-----------------------------------------------------------------------------
HandlerStep(t) ==
    \/ Decode(t) \/ DialFails(t) \/ Connect(t) \/ CloseTunnel(t)
CopyStep(t, w) == ReadChunk(t, w) \/ ReadEnds(t, w) \/ WriteChunk(t, w) \/ WriteFails(t, w)

TunnelNext ==
    \/ AcceptFails
    \/ \E t \in Tunnels : \/ Accept(t) \/ HandlerStep(t)
                          \/ \E w \in Ways : CopyStep(t, w) \/ Sends(t, w) \/ Ends(t, w)

TunnelSpec == TunnelInit /\ [][TunnelNext]_tunVars

\* Dials have a timeout and the peers read what is sent to them.
FairTunnelSpec ==
    /\ TunnelSpec
    /\ \A t \in Tunnels : /\ WF_tunVars(HandlerStep(t))
                          /\ \A w \in Ways : WF_tunVars(CopyStep(t, w))

-----------------------------------------------------------------------------
\* Types of the variables.
TunnelTypeOK ==
    /\ listening \in BOOLEAN
    /\ tun \in [Tunnels -> {"none", "decode", "dial", "bound", "closing", "over", "panicked"}]
    /\ first \in [Tunnels -> Kinds]
    /\ open \in [Tunnels -> [Ways -> BOOLEAN]]
    /\ sent \in [Tunnels -> [Ways -> 0 .. MaxChunks]]
    /\ held \in [Tunnels -> [Ways -> {0, 1}]]
    /\ passed \in [Tunnels -> [Ways -> 0 .. MaxChunks]]
    /\ ended \in [Tunnels -> [Ways -> BOOLEAN]]
    /\ copier \in [Tunnels -> [Ways -> {"none", "run", "done"}]]
    /\ cause \in [Tunnels -> Ways \cup {"none"}]

\* A way whose end releases the tunnel while its other peer is still there has
\* passed on all it was sent: the release cuts off what the opposite way still
\* holds, never what came before the end.
FirstEndComplete ==
    \A t \in Tunnels :
        (cause[t] # "none" /\ ~ended[t][Other(cause[t])]) =>
            passed[t][cause[t]] = sent[t][cause[t]]

\* Sockets are left open by a handler that has finished only where it panicked
\* over a first read without a request line.
OnlyPanicsLeak ==
    \A t \in Tunnels :
        (tun[t] = "over" \/ (\A w \in Ways : copier[t][w] = "done")) =>
            tun[t] = "closing" \/ \A w \in Ways : ~open[t][w]

\* When the client or the host is gone, the sockets of both are closed in the
\* end, even while the other one stays silent, and both copiers end: no tunnel
\* hangs or leaks, unless its handler panicked.
TunnelReleased ==
    /\ []OnlyPanicsLeak
    /\ <>[](\A t \in Tunnels :
                (tun[t] # "panicked" /\ \E w \in Ways : ended[t][w]) =>
                    \A w \in Ways : ~open[t][w] /\ copier[t][w] # "run")
=============================================================================
