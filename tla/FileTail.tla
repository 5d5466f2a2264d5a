------------------------------ MODULE FileTail ------------------------------
(***************************************************************************)
(* Watching a file of a container: TailFileHandler of Service/FileService.go  *)
(* looks the pod up and relays what TailFileInterHandler, on the pod's node,  *)
(* sends it; there TailFile of pod_file/PodFileExporter.go shows the last     *)
(* lines of the file and then what is appended to it, and opens the file      *)
(* again when another one has taken its place.                                *)
(*                                                                           *)
(* A file is the sequence of the lines written to it, numbered as they are    *)
(* written; the file at the path may be removed, replaced and truncated.      *)
(***************************************************************************)
EXTENDS Integers, Sequences

CONSTANTS
    KeepLines,      \* lines of the file that are shown at first, 2000 in the code
    MaxLines,       \* lines written in all
    MaxFiles,       \* files that are at the path, one after the other
    MaxSessions     \* connections to the node

ASSUME TailAssumption ==
    KeepLines \in Nat \ {0} /\ MaxLines \in Nat /\ MaxFiles \in Nat /\ MaxSessions \in Nat \ {0}

Sessions == 1 .. MaxSessions

VARIABLES
    pod,        \* "none", "pending" (no container status yet) or "running"
    files,      \* lines of each file there has been at the path
    present,    \* the last of them is still there
    cut,        \* files that were truncated
    written,    \* lines written so far
    viewer,     \* "watching" or "left"
    edge,       \* the goroutine of TailFileHandler: "look", "relay", "pause",
                \* "over" or "crashed"
    session,    \* connections made so far
    node,       \* the tailing of each session: "none", "locate", "start", "open",
                \* "lines", "pass", "read", "over" or "crashed"
    closed,     \* sessions whose connection the node has seen end
    opened,     \* the file each session reads, or 0
    pos,        \* lines of it that were read
    app,        \* lines read and not sent yet
    shown       \* lines the viewer was sent over each session, by file

tailVars == <<pod, files, present, cut, written, viewer, edge, session, node, closed,
              opened, pos, app, shown>>
worldVars == <<pod, files, present, cut, written>>
nodeVars == <<node, opened, pos, app>>

TailInit ==
    /\ pod \in {"none", "pending", "running"}
    /\ files = <<>> /\ present = FALSE /\ cut = {} /\ written = 0
    /\ viewer = "watching"
    /\ edge = "look" /\ session = 0
    /\ node = [s \in Sessions |-> "none"]
    /\ closed = {}
    /\ opened = [s \in Sessions |-> 0]
    /\ pos = [s \in Sessions |-> 0]
    /\ app = [s \in Sessions |-> <<>>]
    /\ shown = [s \in Sessions |-> [f \in 1 .. MaxFiles |-> <<>>]]

Current == Len(files)

-----------------------------------------------------------------------------
(* The pod and the file.                                                      *)
PodStarts ==
    /\ pod' = CASE pod = "none" -> "pending" [] OTHER -> "running"
    /\ pod # "running"
    /\ UNCHANGED <<files, present, cut, written, viewer, edge, session, closed, shown>>
    /\ UNCHANGED nodeVars

CreateFile ==
    /\ ~present /\ Len(files) < MaxFiles
    /\ files' = Append(files, <<>>)
    /\ present' = TRUE
    /\ UNCHANGED <<pod, cut, written, viewer, edge, session, closed, shown>>
    /\ UNCHANGED nodeVars

WriteLine ==
    /\ present /\ written < MaxLines
    /\ written' = written + 1
    /\ files' = [files EXCEPT ![Current] = Append(@, written + 1)]
    /\ UNCHANGED <<pod, present, cut, viewer, edge, session, closed, shown>>
    /\ UNCHANGED nodeVars

RemoveFile ==
    /\ present
    /\ present' = FALSE
    /\ UNCHANGED <<pod, files, cut, written, viewer, edge, session, closed, shown>>
    /\ UNCHANGED nodeVars

TruncateFile ==
    /\ present /\ files[Current] # <<>>
    /\ files' = [files EXCEPT ![Current] = <<>>]
    /\ cut' = cut \cup {Current}
    /\ UNCHANGED <<pod, present, written, viewer, edge, session, closed, shown>>
    /\ UNCHANGED nodeVars

-----------------------------------------------------------------------------
(* TailFileHandler and doRemoteTail.                                          *)

\* readLoop ends and the context is cancelled.
ViewerLeaves ==
    /\ viewer = "watching"
    /\ viewer' = "left"
    /\ UNCHANGED <<edge, session, closed, shown>>
    /\ UNCHANGED worldVars /\ UNCHANGED nodeVars

EdgeEnds ==
    /\ viewer = "left" /\ edge \in {"look", "pause", "relay"}
    /\ edge' = "over"
    /\ UNCHANGED <<viewer, session, closed, shown>>
    /\ UNCHANGED worldVars /\ UNCHANGED nodeVars

\* The pod is looked up.  ContainerStatuses[0] of a pod that has none panics,
\* in a goroutine that does not recover; without a pod, or when the look-up
\* fails, the viewer is told to wait, and a dial that fails is tried again.
LookUp ==
    /\ edge = "look"
    /\ \/ edge' = "pause"
       \/ pod = "pending" /\ edge' = "crashed"
    /\ UNCHANGED <<viewer, session, closed, shown>>
    /\ UNCHANGED worldVars /\ UNCHANGED nodeVars

Dial ==
    /\ edge = "look" /\ pod = "running" /\ session < MaxSessions
    /\ session' = session + 1
    /\ edge' = "relay"
    /\ node' = [node EXCEPT ![session + 1] = "locate"]
    /\ UNCHANGED <<viewer, closed, shown, opened, pos, app>>
    /\ UNCHANGED worldVars

Resume ==
    /\ edge = "pause" /\ viewer = "watching"
    /\ edge' = "look"
    /\ UNCHANGED <<viewer, session, closed, shown>>
    /\ UNCHANGED worldVars /\ UNCHANGED nodeVars

\* The connection to the node breaks; the read of doRemoteTail fails.
BreakSession ==
    /\ edge = "relay" /\ session < MaxSessions
    /\ edge' = "pause"
    /\ UNCHANGED <<viewer, session, closed, shown>>
    /\ UNCHANGED worldVars /\ UNCHANGED nodeVars

-----------------------------------------------------------------------------
(* TailFileInterHandler: the context ends when its readLoop does.             *)
Connected(s) == edge = "relay" /\ s = session

SeesClose(s) ==
    /\ node[s] # "none" /\ s \notin closed /\ ~Connected(s)
    /\ closed' = closed \cup {s}
    /\ UNCHANGED <<viewer, edge, session, shown>>
    /\ UNCHANGED worldVars /\ UNCHANGED nodeVars

\* The loops of the handler and of TailFile look at the context first.
NodeEnds(s) ==
    /\ s \in closed /\ node[s] \in {"locate", "start", "pass"}
    /\ node' = [node EXCEPT ![s] = "over"]
    /\ opened' = [opened EXCEPT ![s] = 0]
    /\ pos' = [pos EXCEPT ![s] = 0]
    /\ UNCHANGED <<viewer, edge, session, closed, shown, app>>
    /\ UNCHANGED worldVars

\* TailContainerFile finds the file's path on the node; without a file it
\* fails and the handler tries again.
Locate(s) ==
    /\ node[s] = "locate" /\ s \notin closed /\ present
    /\ node' = [node EXCEPT ![s] = "start"]
    /\ UNCHANGED <<viewer, edge, session, closed, shown, opened, pos, app>>
    /\ UNCHANGED worldVars

BeginTail(s) ==
    /\ node[s] = "start" /\ s \notin closed
    /\ node' = [node EXCEPT ![s] = "open"]
    /\ UNCHANGED <<viewer, edge, session, closed, shown, opened, pos, app>>
    /\ UNCHANGED worldVars

\* The opener gives up when the context ends, and leaves no file behind:
\* fileInfo.Size() of the nil fileInfo panics, in a goroutine without recover.
OpenerGivesUp(s) ==
    /\ node[s] = "open" /\ s \in closed
    /\ node' = [node EXCEPT ![s] = "crashed"]
    /\ UNCHANGED <<viewer, edge, session, closed, shown, opened, pos, app>>
    /\ UNCHANGED worldVars

OpenFile(s) ==
    /\ node[s] = "open" /\ present
    /\ opened' = [opened EXCEPT ![s] = Current]
    /\ pos' = [pos EXCEPT ![s] = 0]
    /\ app' = [app EXCEPT ![s] = <<>>]
    /\ node' = [node EXCEPT ![s] = IF files[Current] = <<>> THEN "pass" ELSE "lines"]
    /\ UNCHANGED <<viewer, edge, session, closed, shown>>
    /\ UNCHANGED worldVars

Unread(s) == pos[s] < Len(files[opened[s]])
NextLine(s) == files[opened[s]][pos[s] + 1]

\* A message to the viewer; the errors of WriteMessage are not looked at.
Send(s) ==
    shown' = IF ~Connected(s) \/ viewer = "left" THEN shown
             ELSE [shown EXCEPT ![s][opened[s]] = @ \o app[s]]

\* Mutant: the first lines are kept, not the last.
ReadOldLineFirst(s) ==
    /\ node[s] = "lines" /\ Unread(s)
    /\ app' = [app EXCEPT ![s] = IF Len(@) < KeepLines THEN Append(@, NextLine(s)) ELSE @]
    /\ pos' = [pos EXCEPT ![s] = @ + 1]
    /\ UNCHANGED <<viewer, edge, session, closed, shown, node, opened>>
    /\ UNCHANGED worldVars

\* The lines already there, of which the last KeepLines are kept.
ReadOldLine(s) ==
    /\ node[s] = "lines" /\ Unread(s)
    /\ app' = [app EXCEPT ![s] = LET all == Append(@, NextLine(s))
                                 IN IF Len(all) > KeepLines THEN Tail(all) ELSE all]
    /\ pos' = [pos EXCEPT ![s] = @ + 1]
    /\ UNCHANGED <<viewer, edge, session, closed, shown, node, opened>>
    /\ UNCHANGED worldVars

SendOldLines(s) ==
    /\ node[s] = "lines" /\ ~Unread(s)
    /\ Send(s)
    /\ app' = [app EXCEPT ![s] = <<>>]
    /\ node' = [node EXCEPT ![s] = "pass"]
    /\ UNCHANGED <<viewer, edge, session, closed, opened, pos>>
    /\ UNCHANGED worldVars

BeginPass(s) ==
    /\ node[s] = "pass" /\ s \notin closed
    /\ app' = [app EXCEPT ![s] = <<>>]
    /\ node' = [node EXCEPT ![s] = "read"]
    /\ UNCHANGED <<viewer, edge, session, closed, shown, opened, pos>>
    /\ UNCHANGED worldVars

ReadLine(s) ==
    /\ node[s] = "read" /\ Unread(s)
    /\ app' = [app EXCEPT ![s] = Append(@, NextLine(s))]
    /\ pos' = [pos EXCEPT ![s] = @ + 1]
    /\ UNCHANGED <<viewer, edge, session, closed, shown, node, opened>>
    /\ UNCHANGED worldVars

\* Mutant: the path is not looked at again.
EndOfFileStays(s) ==
    /\ node[s] = "read" /\ ~Unread(s)
    /\ Send(s)
    /\ node' = [node EXCEPT ![s] = "pass"]
    /\ app' = [app EXCEPT ![s] = <<>>]
    /\ UNCHANGED <<viewer, edge, session, closed, opened, pos>>
    /\ UNCHANGED worldVars

\* At the end of the file the path is looked at: while the file is there the
\* lines read are sent; if it is gone or another one, TailFile begins anew and
\* they are dropped.
EndOfFile(s) ==
    /\ node[s] = "read" /\ ~Unread(s)
    /\ IF present /\ opened[s] = Current
       THEN Send(s) /\ node' = [node EXCEPT ![s] = "pass"]
       ELSE UNCHANGED shown /\ node' = [node EXCEPT ![s] = "start"]
    /\ app' = [app EXCEPT ![s] = <<>>]
    /\ UNCHANGED <<viewer, edge, session, closed, opened, pos>>
    /\ UNCHANGED worldVars

-----------------------------------------------------------------------------
WorldStep == PodStarts \/ CreateFile \/ WriteLine \/ RemoveFile \/ TruncateFile
EdgeStep == EdgeEnds \/ LookUp \/ Dial \/ Resume
NodeStep(s) ==
    \/ NodeEnds(s) \/ Locate(s) \/ BeginTail(s) \/ OpenerGivesUp(s) \/ OpenFile(s)
    \/ ReadOldLine(s) \/ SendOldLines(s) \/ BeginPass(s) \/ ReadLine(s) \/ EndOfFile(s)

\* A daemon that has crashed takes no more steps.
EdgeUp == edge # "crashed"
NodeUp == \A s \in Sessions : node[s] # "crashed"

TailNext ==
    \/ WorldStep
    \/ ViewerLeaves
    \/ EdgeUp /\ EdgeStep
    \/ BreakSession
    \/ \E s \in Sessions : NodeUp /\ (SeesClose(s) \/ NodeStep(s))

TailSpec == TailInit /\ [][TailNext]_tailVars

\* The goroutines run; a dial tried again and again does succeed.
FairTailSpec ==
    /\ TailSpec
    /\ WF_tailVars(EdgeUp /\ EdgeStep) /\ SF_tailVars(EdgeUp /\ Dial)
    /\ \A s \in Sessions : WF_tailVars(NodeUp /\ NodeStep(s))

-----------------------------------------------------------------------------
\* Types of the variables.
TailTypeOK ==
    /\ pod \in {"none", "pending", "running"}
    /\ files \in Seq(Seq(1 .. MaxLines)) /\ Len(files) <= MaxFiles
    /\ present \in BOOLEAN /\ cut \subseteq 1 .. MaxFiles /\ written \in 0 .. MaxLines
    /\ viewer \in {"watching", "left"}
    /\ edge \in {"look", "relay", "pause", "over", "crashed"}
    /\ session \in 0 .. MaxSessions
    /\ node \in [Sessions -> {"none", "locate", "start", "open", "lines", "pass", "read",
                              "over", "crashed"}]
    /\ closed \subseteq Sessions
    /\ opened \in [Sessions -> 0 .. MaxFiles]
    /\ pos \in [Sessions -> 0 .. MaxLines]
    /\ app \in [Sessions -> Seq(1 .. MaxLines)]
    /\ shown \in [Sessions -> [1 .. MaxFiles -> Seq(1 .. MaxLines)]]

\* Over a connection that stands, what the viewer was shown of the file that
\* TailFile reads is exactly its end up to where it has read (less the lines
\* still to be sent), and no less than KeepLines of it: no gap, no repetition
\* and no line out of order, over every pass of the loop and beside every write
\* to the file, unless the file is truncated, which goes unnoticed.
ShownIsTail ==
    \A s \in Sessions :
        (Connected(s) /\ viewer = "watching" /\ node[s] \in {"pass", "read"} /\ opened[s] \notin cut) =>
            LET mine == shown[s][opened[s]]
                sent == pos[s] - Len(app[s])
                k == Len(mine)
            IN /\ k <= sent
               /\ k >= (IF sent < KeepLines THEN sent ELSE KeepLines)
               /\ \A i \in 1 .. k : mine[i] = files[opened[s]][sent - k + i]

\* The panic that ends the daemon of the node happens only after a viewer has
\* left or a connection has broken: no sequence of writes, removals,
\* replacements and truncations of the file leads to it.
CrashOnlyWhenLeft ==
    \A s \in Sessions :
        node[s] = "crashed" => s \in closed /\ (s < session \/ viewer = "left" \/ edge # "relay")

\* When a viewer goes on watching a file that is not truncated, and the pod
\* runs, the last line of the file is in the end shown over the last
\* connection, through removals, replacements and broken connections, unless a
\* daemon has crashed; and nothing that happens to the file crashes one.
CaughtUp ==
    /\ []CrashOnlyWhenLeft
    /\ <>[](\/ viewer = "left" \/ ~EdgeUp \/ ~NodeUp \/ pod # "running"
            \/ ~present \/ Current \in cut
            \/ files[Current] = <<>>
            \/ \E s \in Sessions :
                  /\ s = session
                  /\ \E i \in DOMAIN shown[s][Current] :
                        shown[s][Current][i] = files[Current][Len(files[Current])])
=============================================================================
