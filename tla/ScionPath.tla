---------------------------- MODULE ScionPath ----------------------------
(* The SCION path header, pkg/slayers/path and pkg/slayers/path/scion: info    *)
(* fields, hop fields and the two pointers into them.  CurrINF, CurrHF and     *)
(* the indices passed around are 0-based as in the code; infos and hops are    *)
(* sequences, so field i is element i + 1.                                     *)
(*                                                                             *)
(* A MAC is symbolic: the record of its inputs and of the AS whose key made    *)
(* it.  SegID, the XOR of truncated MACs and of the random SegmentID, is the   *)
(* set of the values XORed an odd number of times, so XOR is the symmetric     *)
(* difference: MACs neither collide nor cancel by accident.                    *)
EXTENDS Integers, Sequences, SequencesExt, FiniteSetsExt

\* An info field and a hop field without router alerts.
InfoField(segID, ts, consDir, peer) ==
    [segID |-> segID, ts |-> ts, consDir |-> consDir, peer |-> peer]

HopField(in, eg, exp, mac) ==
    [in |-> in, eg |-> eg, exp |-> exp, mac |-> mac, inAlert |-> FALSE, egAlert |-> FALSE]

\* The MAC that the AS holding key computes over a hop field; FullMAC.
MAC(key, segID, ts, exp, in, eg) ==
    [key |-> key, segID |-> segID, ts |-> ts, exp |-> exp, in |-> in, eg |-> eg]

NumINF(p) == Len(p.infos)

\* Decoding refuses paths of more than 64 hops; here they may have any length.
NumHops(p) == Len(p.hops)

Info(p) == p.infos[p.currINF + 1]
Hop(p) == p.hops[p.currHF + 1]

SetInfoField(p, info) == [p EXCEPT !.infos[p.currINF + 1] = info]
SetHopField(p, hop) == [p EXCEPT !.hops[p.currHF + 1] = hop]

infIndexForHF(p, hf) == CASE hf < p.segLen[1] -> 0
                          [] hf >= p.segLen[1] /\ hf < p.segLen[1] + p.segLen[2] -> 1
                          [] OTHER -> 2

IncPathStaleINF(p) ==
    IF p.currHF >= NumHops(p) - 1 THEN p ELSE [p EXCEPT !.currHF = @ + 1]

\* At the end of the path the code returns an error and leaves the pointers; the
\* error itself is left out, since no router takes this step at the last hop field
\* of a packet that passed its checks.
IncPath(p) ==
    IF p.currHF >= NumHops(p) - 1 THEN p
    ELSE [p EXCEPT !.currHF = @ + 1, !.currINF = infIndexForHF(p, p.currHF + 1)]

IsXover(p) ==
    /\ p.currHF + 1 < NumHops(p)
    /\ p.currINF # infIndexForHF(p, p.currHF + 1)

IsFirstHopAfterXover(p) ==
    /\ p.currINF > 0
    /\ p.currHF > 0
    /\ p.currINF - 1 = infIndexForHF(p, p.currHF - 1)

IsFirstHop(p) == p.currHF = 0
IsLastHop(p) == p.currHF = NumHops(p) - 1

\* The accumulator absorbs the MAC of the current hop field.
UpdateSegID(p) == SetInfoField(p, [Info(p) EXCEPT !.segID = SymDiff(@, {Hop(p).mac})])

\* Reversal flips the order of everything and the direction of every segment.
\* SegIDs and router alerts stay with their fields.
Flip(info) == [info EXCEPT !.consDir = ~@]

ReversePath(p) ==
    [segLen |-> [i \in 1..3 |-> p.segLen[IF i <= NumINF(p) THEN NumINF(p) + 1 - i ELSE i]],
     infos |-> [i \in 1..NumINF(p) |-> Flip(p.infos[NumINF(p) + 1 - i])],
     hops |-> Reverse(p.hops),
     currINF |-> NumINF(p) - p.currINF - 1,
     currHF |-> NumHops(p) - p.currHF - 1]

\* The interfaces of the current hop in the direction of travel.
IngressOf(info, hop) == IF info.consDir THEN hop.in ELSE hop.eg
EgressOf(info, hop) == IF info.consDir THEN hop.eg ELSE hop.in

\* The receiver of a one-hop path completes it to a SCION path and reverses it.
OneHopReverse(p) == ReversePath(IncPath(p))
=============================================================================
