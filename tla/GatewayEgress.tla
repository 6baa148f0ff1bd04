--------------------------- MODULE GatewayEgress ---------------------------
(* The sending half of the gateway's data plane: a session with one sender per *)
(* path (session.go, sender.go), whose goroutine packs IP packets from a ring  *)
(* into frames (pktring.go, encoder.go).                                       *)
(*                                                                             *)
(* Lengths are counted in cells of 20 bytes: an IPv4 header is one, an IPv6    *)
(* header two.  A cell is named by its packet and its place in it.             *)
EXTENDS Integers, SequencesExt, FiniteSetsExt

CONSTANTS
    PktLen,     \* sequence: lengths of the packets hosts send, in this order
    V6,         \* those that are IPv6 packets
    Invalid,    \* those whose length does not agree with their header
    Paths,      \* paths to the remote gateway
    Narrow,     \* those of them whose MTU is too small for a frame
    Mtu,        \* cells that fit into a frame
    RingSize,   \* ringSize, packets that wait for the sender's goroutine
    MaxSenders  \* bound: senders created

VARIABLES
    next,       \* the next packet from the hosts
    senders,    \* all senders created, in this order; the position is the stream ID
    current     \* Session.senders

egress == <<next, senders, current>>

Pkts == DOMAIN PktLen
Cells(p) == [i \in 1..PktLen[p] |-> [pkt |-> p, off |-> i - 1]]
HeaderLen(p) == IF p \in V6 THEN 2 ELSE 1

\* No packet starts in the frame (index 0xffff).
NoStart == 65535

\* ring: packets that wait, also those that pktRing has taken out in a batch;
\* pkt: what remains of the last packet; ended: run has returned.
NewSender(path) == [path |-> path, closed |-> FALSE, ring |-> <<>>, pkt |-> <<>>, seq |-> 0,
                    ended |-> FALSE]

EgressInit == next = 1 /\ senders = <<>> /\ current = {}

---------------------------------------------------------------------------
(* Session.                                                                    *)

\* The ring takes a packet unless it is full or closed; the writer does not wait.
hasRoom(s) == ~senders[s].closed /\ Len(senders[s].ring) < RingSize

\* Session.Write: any sender, by a hash of the packet's addresses and ports.
SessionWrite ==
    /\ next \in Pkts
    /\ next' = next + 1
    /\ \/ \E s \in current :
            /\ hasRoom(s)
            /\ senders' = [senders EXCEPT ![s].ring = Append(@, next)]
       \/ /\ current = {} \/ \E s \in current : ~hasRoom(s)
          /\ UNCHANGED senders
    /\ UNCHANGED current

CloseAll(set, list) == [s \in DOMAIN list |-> IF s \in set THEN [list[s] EXCEPT !.closed = TRUE] ELSE list[s]]

\* Session.SetPaths: a sender is kept for a path that stays, created for a new one
\* and closed for one that is gone.  If one can not be created nothing changes but
\* that those created before it are closed.
SetPaths ==
    \E paths \in SUBSET Paths :
        LET kept == {s \in current : senders[s].path \in paths}
            missing == paths \ {senders[s].path : s \in kept}
            ok == missing \cap Narrow = {}
        IN  /\ missing # {} \/ kept # current
            /\ Len(senders) + Cardinality(missing \ Narrow) <= MaxSenders
            /\ \E made \in (IF ok THEN {missing} ELSE SUBSET (missing \ Narrow)) :
                 LET order == SetToSeq(made)
                     grown == senders \o [i \in DOMAIN order |-> NewSender(order[i])]
                     new == (DOMAIN grown) \ DOMAIN senders
                 IN  \/ /\ ok
                        /\ senders' = CloseAll(current \ kept, grown)
                        /\ current' = kept \cup new
                     \/ /\ ~ok
                        /\ senders' = CloseAll(new, grown)
                        /\ UNCHANGED current
            /\ UNCHANGED next

\* Session.Close
SessionClose ==
    /\ \E s \in current : ~senders[s].closed
    /\ senders' = CloseAll(current, senders)
    /\ UNCHANGED <<next, current>>

---------------------------------------------------------------------------
(* The goroutine of a sender: encoder.Read and WriteTo.  A packet that is        *)
(* written while a frame is filled could have come before, so the frame is       *)
(* built in one step.                                                            *)

\* A frame under construction.
Empty == [cells |-> <<>>, index |-> NoStart, rest |-> <<>>, used |-> 0]

\* copyToFrame: as much of pkt as there is room for; rest is what remains.
copyToFrame(e, pkt) ==
    LET room == Mtu - Len(e.cells)
        n == IF Len(pkt) < room THEN Len(pkt) ELSE room
    IN  [e EXCEPT !.cells = @ \o SubSeq(pkt, 1, n), !.rest = SubSeq(pkt, n + 1, Len(pkt))]

\* Room for another packet: for the header of an IPv6 packet, 40 bytes.
fits(e) == e.rest = <<>> /\ Mtu - Len(e.cells) >= 2

\* Mutant: the index is only set when the frame begins with the packet.
addPacketAtStart(e, p) ==
    IF p \in Invalid THEN [e EXCEPT !.used = @ + 1]
    ELSE copyToFrame([e EXCEPT !.used = @ + 1, !.index = IF e.cells = <<>> THEN 0 ELSE @], Cells(p))

\* The next packet of the ring; one that is not valid is skipped.
addPacket(e, p) ==
    IF p \in Invalid THEN [e EXCEPT !.used = @ + 1]
    ELSE copyToFrame([e EXCEPT !.used = @ + 1, !.index = IF @ = NoStart THEN Len(e.cells) ELSE @],
                     Cells(p))

\* Read: what remains of the last packet, then packets as long as there are any and fit.
encode(sender) ==
    LET filled[n \in 0..Len(sender.ring)] ==
          IF n = 0 THEN copyToFrame(Empty, sender.pkt)
          ELSE IF fits(filled[n - 1]) THEN addPacket(filled[n - 1], sender.ring[n])
          ELSE filled[n - 1]
    IN  filled[Len(sender.ring)]

\* Mutant: the goroutine ends as soon as the ring is closed.
SkipOnClose(s) ==
    /\ ~senders[s].ended /\ senders[s].closed
    /\ senders' = [senders EXCEPT ![s].ring = <<>>, ![s].ended = TRUE]
    /\ UNCHANGED <<next, current>>

\* Read waits while there is nothing but the header; a closed ring that is empty
\* ends the goroutine.  Packets that were skipped are gone either way.
Skip(s) ==
    LET e == encode(senders[s])
    IN  /\ ~senders[s].ended
        /\ e.cells = <<>> /\ (e.used > 0 \/ senders[s].closed)
        /\ senders' = [senders EXCEPT ![s].ring = <<>>, ![s].ended = senders[s].closed]
        /\ UNCHANGED <<next, current>>

FrameOf(s) == [stream |-> s, seq |-> senders[s].seq, index |-> encode(senders[s]).index,
               cells |-> encode(senders[s]).cells]

SendFrame(s) ==
    LET e == encode(senders[s])
    IN  /\ ~senders[s].ended /\ e.cells # <<>>
        /\ senders' = [senders EXCEPT ![s].ring = SubSeq(@, e.used + 1, Len(@)),
                                      ![s].pkt = e.rest, ![s].seq = @ + 1]
        /\ UNCHANGED <<next, current>>
=============================================================================
