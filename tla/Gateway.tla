------------------------------ MODULE Gateway ------------------------------
(* The data planes of two gateways: a session of the sending one, the ingress  *)
(* server of the receiving one, and between them a network that loses, delays, *)
(* reorders and duplicates frames.                                             *)
EXTENDS GatewayIngress

CONSTANTS MaxEvents     \* bound: senders, duplicates and frames without a device, together

\* Frames are shorter than what an index of 16 bits can point into.
ASSUME GatewayAssumption ==
    /\ PktLen \in Seq(Nat) /\ \A p \in Pkts : PktLen[p] >= HeaderLen(p)
    /\ Mtu \in 3..(NoStart - 1) /\ IsFiniteSet(Paths)
    /\ {RingSize, MaxSenders, MaxWorkers, MaxEvents} \subseteq Nat
    /\ {NumFrames, WorkerRing} \subseteq Nat \ {0} /\ ListCap \in Nat \ {0, 1}

VARIABLES
    net,        \* frames on their way; one that stays here for good is lost
    dups,       \* number of duplicates made
    smooth,     \* history: frames arrived in order and nothing was thrown away ...
    heard       \* ... and the frames that arrived, by stream, while this was so

network == <<net, dups>>
vars == <<egress, ingress, network, smooth, heard>>

Streams == 1..MaxSenders
NothingHeard == [s \in Streams |-> <<>>]

Init ==
    /\ EgressInit /\ IngressInit
    /\ net = {} /\ dups = 0
    /\ smooth = TRUE /\ heard = NothingHeard

Hosts ==
    /\ SessionWrite \/ SetPaths \/ SessionClose
    /\ Len(senders') + dups + noDevice <= MaxEvents
    /\ UNCHANGED <<ingress, network, smooth, heard>>

\* sender.run: the frame is sent, or is lost when WriteTo fails.
SenderRun(s) ==
    \/ Skip(s) /\ UNCHANGED <<ingress, network, smooth, heard>>
    \/ SendFrame(s) /\ net' = net \cup {FrameOf(s)} /\ UNCHANGED <<ingress, dups, smooth, heard>>

\* A frame is read from the network; a duplicate of it may come later.
Receive(f) ==
    /\ Dispatch(f)
    /\ \/ net' = net \ {f} /\ UNCHANGED dups
       \/ dups' = dups + 1 /\ UNCHANGED net
    /\ Len(senders) + dups' + noDevice' <= MaxEvents
    /\ smooth' = (smooth /\ f.seq = Len(heard[f.stream]) /\ noDevice' = 0 /\ Len(workers') = 1)
    /\ heard' = IF smooth' THEN [heard EXCEPT ![f.stream] = Append(@, f)] ELSE NothingHeard
    /\ UNCHANGED egress

\* A cleanup of lists that hold something throws it away.
IngressSteps ==
    /\ \/ \E w \in DOMAIN workers : processFrame(w) \/ WorkerEnd(w)
       \/ ReleaseRemoved \/ DiscardRead
    /\ smooth' = (smooth /\ releasing' <= releasing)
    /\ heard' = IF smooth' THEN heard ELSE NothingHeard
    /\ UNCHANGED <<egress, network>>

Next ==
    \/ Hosts
    \/ \E s \in DOMAIN senders : SenderRun(s)
    \/ \E f \in net : Receive(f)
    \/ IngressSteps

Spec == Init /\ [][Next]_vars

---------------------------------------------------------------------------
(* Properties.                                                                 *)

\* The index of a frame is the place where the first packet starts that starts in it.
FrameOK(f) ==
    LET starts == {i \in DOMAIN f.cells : f.cells[i].off = 0}
    IN  /\ Len(f.cells) \in 1..Mtu
        /\ f.index = IF starts = {} THEN NoStart ELSE Min(starts) - 1

TypeOK ==
    /\ \A f \in net : f.stream \in Streams /\ FrameOK(f)
    /\ free \in 0..NumFrames /\ releasing \in 0..NumFrames
    /\ current \subseteq DOMAIN senders /\ worker \in 0..Len(workers)
    /\ \A w \in DOMAIN workers :
        /\ Len(workers[w].ring) <= WorkerRing
        /\ \A s \in DOMAIN workers[w].lists : Len(workers[w].lists[s]) <= ListCap

\* What the receiving gateway writes to its tunnel device are packets that hosts sent
\* to the other one, whole: never parts of two packets, nor one with a piece missing or
\* repeated, whatever is lost, duplicated, reordered, evicted or cleaned up on the way
\* (tryReassemble, collectAndWrite, ProcessCompletePkts).
WholePackets == \A i \in DOMAIN delivered : \E p \in 1..(next - 1) : p \notin Invalid /\ delivered[i] = Cells(p)

\* What a reassembly list holds is the beginning of one packet, without a gap and not yet
\* all of it: a list never begins with a frame in which no packet starts ("Should never
\* happen" in tryReassemble), nothing that is complete waits in it, and no later packet
\* starts in one of its frames, so that there is no framing error between these gateways.
ListsHoldBeginnings ==
    \A w \in DOMAIN workers : \A s \in DOMAIN workers[w].lists :
      LET list == workers[w].lists[s]
      IN  list # <<>> =>
            /\ list[1].frag0 # 0
            /\ \E p \in Pkts : \E k \in 1..(PktLen[p] - 1) : joined(list)[Len(list)] = SubSeq(Cells(p), 1, k)

\* A packet is delivered once, and once more only for a frame the network duplicated:
\* no frame is processed again when it stays in the list for the packet at its end.
DeliveredOnce ==
    \A p \in Pkts : Cardinality({i \in DOMAIN delivered : delivered[i] = Cells(p)}) <= 1 + dups

\* Every buffer is free, in the ring or a list of a worker, or about
\* to be released, except for frames dispatch had no device for: none is released
\* twice, or put back into the pool while a list still refers to it.  The lists of a
\* worker that has ended count too, although nothing will release what they hold
\* (EndedWorkersHoldNothing is about that).
FramesAccounted ==
    NumFrames = free + releasing + noDevice
        + SumFunction([w \in DOMAIN workers |-> Len(workers[w].ring) + Held(workers[w])])

\* Packets that can not take more frames than a list holds.
Short(p) == PktLen[p] - 2 <= (ListCap - 1) * Mtu
Quiet == \A w \in DOMAIN workers : workers[w].ring = <<>>

\* Nothing is lost by the gateways themselves: as long as frames arrive in order, the
\* packets that end in the frames received were delivered, in the order sent and once
\* each (encoder.Read and Insert agree on where packets begin and end).
InOrderComplete ==
    smooth /\ Quiet =>
      \A s \in Streams :
        LET cells == FlattenSeq([i \in DOMAIN heard[s] |-> heard[s][i].cells])
            ends == SelectSeq(cells, LAMBDA c : c.off = PktLen[c.pkt] - 1 /\ Short(c.pkt))
            mine == {cells[i].pkt : i \in DOMAIN cells}
        IN  [i \in DOMAIN ends |-> Cells(ends[i].pkt)]
              = SelectSeq(delivered, LAMBDA d : d[1].pkt \in mine /\ Short(d[1].pkt))

\* The valid packets a sender has accepted and not sent, in cells.
Pending(sender) ==
    sender.pkt \o FlattenSeq([i \in DOMAIN sender.ring |->
                               IF sender.ring[i] \in Invalid THEN <<>> ELSE Cells(sender.ring[i])])

\* What a sender has accepted it sends, in order and without a gap, also after it was
\* closed or replaced ("any buffered data will still be sent out"): it leaves the
\* ring and the encoder only into the next frame.
SendersKeepAll ==
    [][\A s \in DOMAIN senders :
         LET new == {f \in net' \ net : f.stream = s}
             sent == IF new = {} THEN <<>> ELSE (CHOOSE f \in new : TRUE).cells
         IN  /\ IsPrefix(Pending(senders[s]), sent \o Pending(senders'[s]))
             /\ sent # <<>> => sent \o Pending(senders'[s]) = Pending(senders[s])]_senders

\* Stated by the comment in worker.Run: "if there is nothing to read we also don't
\* need to do any cleanup".
EndedWorkersHoldNothing == \A w \in DOMAIN workers : workers[w].ended => Held(workers[w]) = 0
=============================================================================
