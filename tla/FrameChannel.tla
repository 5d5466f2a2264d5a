---------------------------- MODULE FrameChannel ----------------------------
(***************************************************************************)
(* What the multiplexed log stream promises: the frames of the sender reach *)
(* the log connection whole, once and in order; an error frame, or a kind    *)
(* that is unknown, ends the stream and is never shown as log; and the       *)
(* receiver stops only when it has everything, or at such a frame, or when   *)
(* the connection was cut.                                                   *)
(***************************************************************************)
EXTENDS Naturals, Sequences

CONSTANTS
    Kinds,      \* kinds of frame
    LogKinds,   \* the kinds that carry log
    Sizes       \* payload sizes

VARIABLES
    sent,       \* frames of the sender, in order
    received,   \* frames shown to the log connection
    closed,     \* the sender is done, or the connection is gone
    cut,        \* the connection went before everything arrived
    stopped     \* the receiver has returned

chanVars == <<sent, received, closed, cut, stopped>>

Frames == [kind : Kinds, size : Sizes]

ChanInit ==
    /\ sent = <<>>
    /\ received = <<>>
    /\ closed = FALSE
    /\ cut = FALSE
    /\ stopped = FALSE

Send ==
    /\ ~closed
    /\ \E f \in Frames : sent' = Append(sent, f)
    /\ UNCHANGED <<received, closed, cut, stopped>>

Close ==
    /\ ~closed
    /\ closed' = TRUE
    /\ cut' \in BOOLEAN
    /\ UNCHANGED <<sent, received, stopped>>

More == Len(received) < Len(sent)
Upcoming == sent[Len(received) + 1]

Deliver ==
    /\ ~stopped
    /\ More
    /\ Upcoming.kind \in LogKinds
    /\ received' = Append(received, Upcoming)
    /\ UNCHANGED <<sent, closed, cut, stopped>>

Stop ==
    /\ ~stopped
    /\ \/ closed /\ cut
       \/ closed /\ ~More
       \/ More /\ Upcoming.kind \notin LogKinds
    /\ stopped' = TRUE
    /\ UNCHANGED <<sent, received, closed, cut>>

ChanNext == Send \/ Close \/ Deliver \/ Stop

ChanSpec == ChanInit /\ [][ChanNext]_chanVars
=============================================================================
