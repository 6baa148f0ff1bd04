--------------------------- MODULE GatewayIngress ---------------------------
(* The receiving half of the gateway's data plane: the ingress server that     *)
(* reads frames into buffers of a pool and hands them to a worker per session  *)
(* (ingressserver.go), the workers (worker.go), and their reassembly lists,    *)
(* one per stream (rlist.go, framebuf.go).                                     *)
(*                                                                             *)
(* One remote session is modelled; it has several workers over time, because   *)
(* the server stops a worker that is idle and starts another one later.        *)
EXTENDS GatewayEgress

CONSTANTS
    NumFrames,      \* freeFramesCap
    WorkerRing,     \* size of a worker's ring
    ListCap,        \* reassemblyListCap
    MaxWorkers      \* bound: workers started

VARIABLES
    free,       \* number of buffers in freeFrames
    workers,    \* all workers started
    worker,     \* the one in IngressServer.workers, 0 if there is none
    marked,     \* its markedForCleanup
    releasing,  \* buffers that goroutines started by worker.cleanup will release
    noDevice,   \* times that no device was found
    delivered   \* what was written to the tunnel device

ingress == <<free, workers, worker, marked, releasing, noDevice, delivered>>

IngressInit ==
    /\ free = NumFrames /\ releasing = 0 /\ noDevice = 0
    /\ workers = <<>> /\ worker = 0 /\ marked = FALSE
    /\ delivered = <<>>

---------------------------------------------------------------------------
(* Frame buffers.  frag0 is the position of the packet that starts in the       *)
(* frame and does not end in it, 0 if there is none.                            *)

\* processFrame: what is known of a frame from its header.
FrameBuf(f) == [seq |-> f.seq, index |-> f.index, cells |-> f.cells, frag0 |-> 0, pktLen |-> 0,
                frag0Done |-> FALSE, fragNDone |-> f.index = 0, completeDone |-> f.index = NoStart]

Processed(b) == b.completeDone /\ b.fragNDone /\ (b.frag0 = 0 \/ b.frag0Done)

SetProcessed(b) == [b EXCEPT !.completeDone = TRUE, !.fragNDone = TRUE, !.frag0Done = TRUE]

\* A packet starts at place i of cells and its header is whole.  The code takes what it
\* finds there for a header; the places it looks at are those where packets start
\* (TypeOK says so of the index of a frame), so the first conjunct never decides.
hasHeader(cells, i) ==
    i <= Len(cells) /\ cells[i].off = 0 /\ Len(cells) - i + 1 >= HeaderLen(cells[i].pkt)

\* The loop over the packets in cells from start on: after n rounds the place it has come
\* to and the packets written out.  It stays where no packet starts that ends in cells.
writeComplete(cells, start) ==
    LET whole(i) == hasHeader(cells, i) /\ Len(cells) - i + 1 >= PktLen[cells[i].pkt]
        loop[n \in 0..Len(cells)] ==
          IF n = 0 THEN [offset |-> start, pkts |-> <<>>]
          ELSE LET i == loop[n - 1].offset
                   after == i + PktLen[cells[i].pkt]
               IN  IF whole(i)
                     THEN [offset |-> after, pkts |-> Append(loop[n - 1].pkts, SubSeq(cells, i, after - 1))]
                     ELSE loop[n - 1]
    IN  loop[Len(cells)]

\* ProcessCompletePkts: the buffer afterwards, and the packets written out.
ProcessCompletePkts(b) ==
    IF b.completeDone \/ b.index = NoStart
      THEN [buf |-> [b EXCEPT !.completeDone = TRUE], pkts |-> <<>>]
      ELSE LET r == writeComplete(b.cells, b.index + 1)
               done == [b EXCEPT !.completeDone = TRUE]
           IN  [buf |-> IF r.offset > Len(b.cells) THEN [done EXCEPT !.frag0Done = (b.frag0 = 0)]
                        ELSE IF hasHeader(b.cells, r.offset)
                          THEN [done EXCEPT !.frag0 = r.offset, !.pktLen = PktLen[b.cells[r.offset].pkt],
                                            !.frag0Done = FALSE]
                        ELSE done,
                pkts |-> r.pkts]

---------------------------------------------------------------------------
(* A reassembly list is a sequence of buffers; its operations give the list     *)
(* afterwards, the packets written out and the number of buffers released.      *)

\* Mutant: a first frame is kept although no packet is left open in it.
insertFirstKeeps(b) ==
    LET r == ProcessCompletePkts(b) IN [list |-> <<r.buf>>, pkts |-> r.pkts, released |-> 0]

insertFirst(b) ==
    LET r == ProcessCompletePkts(b)
    IN  IF r.buf.frag0 # 0 THEN [list |-> <<r.buf>>, pkts |-> r.pkts, released |-> 0]
                           ELSE [list |-> <<>>, pkts |-> r.pkts, released |-> 1]

\* The cells in the first k buffers from the start of the first packet on.
joined(list) ==
    LET part(k) == IF k = 1 THEN SubSeq(list[1].cells, list[1].frag0, Len(list[1].cells))
                            ELSE list[k].cells
        upto[k \in 0..Len(list)] == IF k = 0 THEN <<>> ELSE upto[k - 1] \o part(k)
    IN  upto

\* removeProcessed: the buffers that are still needed.
removeProcessed(list) ==
    LET kept[i \in 0..Len(list)] ==
          IF i = 0 THEN <<>>
          ELSE IF Processed(list[i]) THEN kept[i - 1] ELSE Append(kept[i - 1], list[i])
    IN  kept[Len(list)]

\* The packet that starts in the first buffer is put together from the first k.
collectAndWrite(list, k) ==
    LET used == [i \in DOMAIN list |->
                   IF i = 1 THEN SetProcessed(list[i])
                   ELSE IF i <= k THEN [list[i] EXCEPT !.fragNDone = TRUE] ELSE list[i]]
        last == ProcessCompletePkts(used[k])
        kept == removeProcessed([used EXCEPT ![k] = last.buf])
    IN  [list |-> kept, pkts |-> <<SubSeq(joined(list)[k], 1, list[1].pktLen)>> \o last.pkts,
         released |-> Len(list) - Len(kept)]

\* tryReassemble: the first buffer with which the packet could be complete, or
\* in which another one starts too early.
tryReassemble(list) ==
    LET ready(k) == Len(joined(list)[k]) >= list[1].pktLen
        stops == {k \in 2..Len(list) : ready(k) \/ list[k].index # NoStart}
    IN  IF Len(list) < 2 \/ (stops = {} /\ list[1].frag0 # 0)
          THEN [list |-> list, pkts |-> <<>>, released |-> 0]
        ELSE IF list[1].frag0 = 0
          THEN [list |-> <<>>, pkts |-> <<>>, released |-> Len(list)]
        ELSE IF ready(Min(stops)) THEN collectAndWrite(list, Min(stops))
        ELSE [list |-> <<Last(list)>>, pkts |-> <<>>, released |-> Len(list) - 1]

\* Mutant: a gap in the sequence numbers is not noticed.
InsertIgnoresGap(list, b) ==
    IF list = <<>> THEN insertFirst(b)
    ELSE IF b.seq <= Last(list).seq THEN [list |-> list, pkts |-> <<>>, released |-> 1]
    ELSE IF Len(list) = ListCap
      THEN [insertFirst(b) EXCEPT !.released = @ + Len(list)]
    ELSE tryReassemble(Append(list, b))

\* Mutant: off by one, the next frame counts as one behind a gap.
InsertSeesGap(list, b) ==
    IF list = <<>> THEN insertFirst(b)
    ELSE IF b.seq <= Last(list).seq THEN [list |-> list, pkts |-> <<>>, released |-> 1]
    ELSE IF b.seq >= Last(list).seq + 1 \/ Len(list) = ListCap
      THEN [insertFirst(b) EXCEPT !.released = @ + Len(list)]
    ELSE tryReassemble(Append(list, b))

\* Mutant: a buffer that is thrown out for a newer one is not released.
InsertKeepsEvicted(list, b) ==
    IF list = <<>> THEN insertFirst(b)
    ELSE IF b.seq <= Last(list).seq THEN [list |-> list, pkts |-> <<>>, released |-> 1]
    ELSE IF b.seq > Last(list).seq + 1 \/ Len(list) = ListCap THEN insertFirst(b)
    ELSE tryReassemble(Append(list, b))

\* Mutant: the packets complete in a frame are written at once and not marked as such.
InsertWritesFirst(list, b) ==
    IF list = <<>> THEN insertFirst(b)
    ELSE IF b.seq <= Last(list).seq THEN [list |-> list, pkts |-> <<>>, released |-> 1]
    ELSE IF b.seq > Last(list).seq + 1 \/ Len(list) = ListCap
      THEN [insertFirst(b) EXCEPT !.released = @ + Len(list)]
    ELSE [tryReassemble(Append(list, b)) EXCEPT !.pkts = ProcessCompletePkts(b).pkts \o @]

\* Insert: too old, a duplicate, behind a gap, one too many, or the next one.
Insert(list, b) ==
    IF list = <<>> THEN insertFirst(b)
    ELSE IF b.seq < Head(list).seq \/ b.seq <= Last(list).seq
      THEN [list |-> list, pkts |-> <<>>, released |-> 1]
    ELSE IF b.seq > Last(list).seq + 1 \/ Len(list) = ListCap
      THEN [insertFirst(b) EXCEPT !.released = @ + Len(list)]
    ELSE tryReassemble(Append(list, b))

---------------------------------------------------------------------------
(* Workers.                                                                    *)

\* ring: frames that wait; stop: the server has dropped it; ended: Run has returned;
\* old: the lists that are marked for deletion.
NewWorker(f) == [ring |-> <<f>>, stop |-> FALSE, ended |-> FALSE,
                 lists |-> [s \in {} |-> <<>>], old |-> {}]

\* worker.cleanup: lists not used since the last time are removed, the others marked.
Cleaned(v) ==
    [v EXCEPT !.lists = [s \in (DOMAIN v.lists) \ v.old |-> v.lists[s]],
              !.old = (DOMAIN v.lists) \ v.old]

\* Buffers in the lists of a worker.
Held(v) == SumFunction([s \in DOMAIN v.lists |-> Len(v.lists[s])])

\* worker.Run: the next frame of a batch, and a cleanup if it was the last one and
\* time has come.  A frame that is in the ring may be part of the batch or of the next.
processFrame(w) ==
    /\ workers[w].ring # <<>>
    /\ LET v == workers[w]
           f == Head(v.ring)
           r == Insert(IF f.stream \in DOMAIN v.lists THEN v.lists[f.stream] ELSE <<>>, FrameBuf(f))
           done == [v EXCEPT !.ring = Tail(@), !.old = @ \ {f.stream},
                             !.lists = [s \in (DOMAIN @) \cup {f.stream} |->
                                          IF s = f.stream THEN r.list ELSE @[s]]]
       IN  /\ delivered' = delivered \o r.pkts
           /\ free' = free + r.released
           /\ \/ workers' = [workers EXCEPT ![w] = done] /\ UNCHANGED releasing
              \/ /\ workers' = [workers EXCEPT ![w] = Cleaned(done)]
                 /\ releasing' = releasing + Held(done) - Held(Cleaned(done))
    /\ UNCHANGED <<worker, marked, noDevice>>

\* The goroutine that empties a list that was removed.
ReleaseRemoved ==
    /\ releasing > 0
    /\ releasing' = releasing - 1 /\ free' = free + 1
    /\ UNCHANGED <<workers, worker, marked, noDevice, delivered>>

\* A goroutine of its own calls worker.Stop, which closes the ring; once it is empty
\* Run returns.
WorkerEnd(w) ==
    /\ workers[w].stop /\ ~workers[w].ended
    /\ workers[w].ring = <<>>
    /\ workers' = [workers EXCEPT ![w].ended = TRUE]
    /\ UNCHANGED <<free, worker, marked, releasing, noDevice, delivered>>

---------------------------------------------------------------------------
(* The ingress server.  It takes a buffer for each frame it reads, and waits    *)
(* while there is none (the code takes up to 64 at once).                       *)

\* cleanup of the workers: one that got no frame since the last cleanup is stopped.
ServerCleanup(list, w, m) ==
    IF w # 0 /\ m
      THEN workers' = [list EXCEPT ![w].stop = TRUE] /\ worker' = 0 /\ marked' = FALSE
      ELSE workers' = list /\ worker' = w /\ marked' = (w # 0)

\* dispatch to the worker, waiting while its ring is full, or to a new one.  Without
\* a device the frame is dropped.  It may be time for a cleanup after the frame.
Dispatch(f) ==
    /\ free > 0
    /\ \/ /\ worker # 0 /\ Len(workers[worker].ring) < WorkerRing
          /\ LET list == [workers EXCEPT ![worker].ring = Append(@, f)]
             IN  \/ workers' = list /\ marked' = FALSE /\ UNCHANGED worker
                \/ ServerCleanup(list, worker, FALSE)
          /\ UNCHANGED noDevice
       \/ /\ worker = 0 /\ Len(workers) < MaxWorkers
          /\ LET list == Append(workers, NewWorker(f))
             IN  \/ workers' = list /\ marked' = FALSE /\ worker' = Len(list)
                \/ ServerCleanup(list, Len(list), FALSE)
          /\ UNCHANGED noDevice
       \/ /\ worker = 0 /\ noDevice' = noDevice + 1
          /\ UNCHANGED <<workers, worker, marked>>
    /\ free' = free - 1
    /\ UNCHANGED <<releasing, delivered>>

\* A read error, or what is not a frame of this version: the buffer is released, and
\* it may be time for a cleanup.  A source that is not a SCION address, at which the
\* server ends, is left out: the connection it reads from returns no other.
DiscardRead ==
    /\ free > 0
    /\ ServerCleanup(workers, worker, marked)
    /\ UNCHANGED <<free, releasing, noDevice, delivered>>
=============================================================================
