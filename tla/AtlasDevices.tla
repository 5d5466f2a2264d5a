---------------------------- MODULE AtlasDevices ----------------------------
(***************************************************************************)
(* What AtlasInfo.InfoAll of gpu/atlas/AtlasInfo.go computes: the number under *)
(* which each device is reported, from what gpu/atlas/dcmi/dcmi.go reads.     *)
(*                                                                           *)
(* A machine m is what the driver says: [dcmi, num, cards], where num is the  *)
(* number of cards it reports and cards a sequence of                         *)
(* [id, devices, logic, memory, chip], with the number of devices (0: error), *)
(* their logical numbers, which of them answer for their memory, and whether  *)
(* the card's devices answer for their chip.                                  *)
(***************************************************************************)
EXTENDS Integers, Sequences, FiniteSets, SequencesExt

CONSTANTS
    MaxCardNum,   \* HiAIMaxCardNum
    MaxDeviceNum  \* HiAIMaxDeviceNum

DcGetCardList(m) == SelectSeq(m.cards, LAMBDA c : c.id >= 0)

CardListFails(m) == m.num <= 0 \/ m.num > MaxCardNum

DeviceNumFails(c) == c.devices <= 0 \/ c.devices > MaxDeviceNum

\* DcGetLogicIDList, of which InfoAll uses the error and the total.
DeviceCountFails(m) ==
    \/ CardListFails(m)
    \/ \E i \in DOMAIN DcGetCardList(m) :
          LET c == DcGetCardList(m)[i] IN
          \/ DeviceNumFails(c)
          \/ \E d \in 1 .. c.devices :
                c.logic[d] < 0 \/ c.logic[d] >= MaxCardNum * MaxDeviceNum

\* The pairs that the two loops of InfoAll visit, in their order.
Visited(m) ==
    FoldLeft(LAMBDA s, c : s \o [d \in 1 .. c.devices |-> <<c, d>>], <<>>, DcGetCardList(m))

\* A device that answers for its memory and not for its chip: info is nil, and
\* the recover of InfoAll gives back no report at all.
ChipPanics(m) ==
    \E i \in DOMAIN Visited(m) :
        LET p == Visited(m)[i] IN p[1].memory[p[2]] /\ ~p[1].chip

\* Mutant: the number of a device counts the ones that did not answer.
InfoAllByPosition(m) ==
    LET v == Visited(m)
        at == {i \in DOMAIN v : v[i][1].memory[v[i][2]]}
    IN IF ~m.dcmi \/ DeviceCountFails(m) \/ ChipPanics(m) THEN <<>>
       ELSE [k \in {i - 1 : i \in at} |-> v[k + 1]]

\* The report: number -> device.  With dsmi it is always empty, for the test of
\* the error is the wrong way round (line 125).
InfoAll(m) ==
    LET answering == SelectSeq(Visited(m), LAMBDA p : p[1].memory[p[2]])
    IN IF ~m.dcmi \/ DeviceCountFails(m) \/ ChipPanics(m) THEN <<>>
       ELSE [k \in 0 .. Len(answering) - 1 |-> answering[k + 1]]

\* Info(indexs): the asked numbers of the report.
Info(m, indexs) == [k \in indexs \cap DOMAIN InfoAll(m) |-> InfoAll(m)[k]]

\* InfoAll reports every device that answers, once, under the number of
\* answering devices before it, on its own card and on the cards listed before:
\* the container's device number when all devices answer, a smaller one for
\* every device behind one that does not (the continue at line 103).
NumbersExact(m, indexs) ==
    m.dcmi /\ ~DeviceCountFails(m) /\ ~ChipPanics(m) =>
       LET cards == DcGetCardList(m)
           Answers(i, d) == d \in 1 .. cards[i].devices /\ cards[i].memory[d]
           devs == {<<i, d>> \in (DOMAIN cards) \X (1 .. MaxDeviceNum) : Answers(i, d)}
           Before(p) == {q \in devs : q[1] < p[1] \/ (q[1] = p[1] /\ q[2] < p[2])}
       IN /\ DOMAIN Info(m, indexs) =
                {k \in indexs : k \in 0 .. Cardinality(devs) - 1}
          /\ \A p \in devs : Cardinality(Before(p)) \in indexs
                => Info(m, indexs)[Cardinality(Before(p))] = <<cards[p[1]], p[2]>>
=============================================================================
