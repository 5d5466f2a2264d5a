------------------------------ MODULE MCDaemon ------------------------------
(***************************************************************************)
(* The parts of the daemon that share state between goroutines and have no    *)
(* state in common with each other.  A behaviour exercises one of them, which *)
(* the variable part names; the others stay in their initial states.          *)
(***************************************************************************)
EXTENDS FluentdPilot, GpuCheck, NvidiaInfo, AtlasInfo, StdCopy, Tunnel, TLC

CONSTANTS v1, v2, g1, g2, i1
MCAsked == (v1 :> <<g1, g2>>) @@ (v2 :> <<i1, g1>>)

VARIABLE part

daemonVars == <<part, fluentdVars, checkVars, infoVars, atlasVars, copyVars, tunVars>>

\* A part that is not exercised starts in one of its initial states.
DaemonInit ==
    /\ part \in {"fluentd", "check", "nvidia", "atlas", "copy", "tunnel"}
    /\ FluentdInit /\ CheckInit /\ InfoInit /\ AtlasInit /\ CopyInit /\ TunnelInit
    /\ part # "fluentd" => \A c \in Containers : docker[c] = "new"
    /\ part # "tunnel" => \A t \in Tunnels : first[t] = "http"

InFluentd(A) ==
    part = "fluentd" /\ A /\ UNCHANGED <<part, checkVars, infoVars, atlasVars, copyVars, tunVars>>
InCheck(A) ==
    part = "check" /\ A /\ UNCHANGED <<part, fluentdVars, infoVars, atlasVars, copyVars, tunVars>>
InNvidia(A) ==
    part = "nvidia" /\ A /\ UNCHANGED <<part, fluentdVars, checkVars, atlasVars, copyVars, tunVars>>
InAtlas(A) ==
    part = "atlas" /\ A /\ UNCHANGED <<part, fluentdVars, checkVars, infoVars, copyVars, tunVars>>
InCopy(A) ==
    part = "copy" /\ A /\ UNCHANGED <<part, fluentdVars, checkVars, infoVars, atlasVars, tunVars>>
InTunnel(A) ==
    part = "tunnel" /\ A /\ UNCHANGED <<part, fluentdVars, checkVars, infoVars, atlasVars, copyVars>>

DaemonNext ==
    \/ InFluentd(FluentdNext) \/ InCheck(CheckNext) \/ InNvidia(InfoNext) \/ InAtlas(AtlasNext)
    \/ InCopy(CopyNext) \/ InTunnel(TunnelNext)

\* The fairness of the parts' own specifications, for the part exercised.
DaemonSpec ==
    /\ DaemonInit /\ [][DaemonNext]_daemonVars
    /\ \A g \in Goes : WF_daemonVars(InFluentd(Goroutine(g)))
    /\ \A c \in Containers : WF_daemonVars(InFluentd(Timer(c)))
    /\ WF_daemonVars(InFluentd(TimerEnd))
    /\ \A v \in Viewers : WF_daemonVars(InNvidia(ViewerServed(v)))
    /\ WF_daemonVars(InCopy(Reader))
    /\ \A t \in Tunnels : /\ WF_daemonVars(InTunnel(HandlerStep(t)))
                          /\ \A w \in Ways : WF_daemonVars(InTunnel(CopyStep(t, w)))

-----------------------------------------------------------------------------
\* Types of the variables of all parts, with what each adds: the mutex of Pilot
\* keeps the listing and a reload apart, no request is answered while it still
\* runs, the map of handles holds known devices, and no copier of a tunnel holds
\* more than one chunk.
DaemonTypeOK ==
    /\ FluentdTypeOK /\ CheckTypeOK /\ InfoTypeOK /\ AtlasTypeOK /\ CopyTypeOK
    /\ TunnelTypeOK

\* No goroutine of a handler outlives what it serves: StdCopy returns at the end
\* of its stream, the GPU handler of a viewer who has left ends, and a tunnel is
\* taken down when either of its peers has gone.
HandlersEnd == CopyReturns /\ ViewEnds /\ TunnelReleased
=============================================================================
