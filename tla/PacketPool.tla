---------------------------- MODULE PacketPool ----------------------------
(* The packet pipeline of the border router, router/dataplane.go: a receiver   *)
(* and a forwarder goroutine per interface, processors and slow-path           *)
(* processors, the channels between them and the pool of preallocated buffers. *)
(* A goroutine hands a buffer on by sending it and must give back to the pool  *)
(* what it does not hand on.  Packets are anonymous: what matters is where     *)
(* the buffers are.  "buf" is a buffer of the pool; "nil" is a slice without   *)
(* memory that took the place of one.                                          *)
EXTENDS Integers, Sequences, FiniteSets, Functions

CONSTANTS
    Interfaces,     \* the interfaces, Internal among them
    Internal,       \* the internal interface, number 0 in the code
    NumProcessors, NumSlowPathProcessors, BatchSize,    \* RunConfig
    OddAlerts       \* whether packets other than traceroute requests carry router alerts

ASSUME PoolAssumption ==
    /\ IsFiniteSet(Interfaces) /\ Internal \in Interfaces
    /\ NumProcessors \in Nat \ {0}
    /\ NumSlowPathProcessors \in Nat \ {0}
    /\ BatchSize \in Nat \ {0}
    /\ OddAlerts \in BOOLEAN

VARIABLES
    pool,           \* [buf, nil]: how many of each kind are in the channel packetPool
    pc,             \* [Interfaces -> "collect", "read", "enqueue"], the receiver
    slot,           \* [Interfaces -> [batch index -> Slot]], the receiver's messages
    idx,            \* [Interfaces -> next batch index, counted from 1]
    numReusable,    \* [Interfaces -> Int]
    numPkts,        \* [Interfaces -> Int]
    procQ, slowQ,   \* the queues of the processors and slow-path processors
    busy, slowBusy, \* the processors that are working on a packet
    fwQ,            \* the queues of the forwarders
    pkts,           \* the packets a forwarder is about to write
    writing         \* the forwarders that are in WriteBatch

vars == <<pool, pc, slot, idx, numReusable, numPkts, procQ, slowQ, busy, slowBusy,
          fwQ, pkts, writing>>

receiver == <<pc, slot, idx, numReusable, numPkts>>

NumInterfaces == Cardinality(Interfaces)
Processors == 0..(NumProcessors - 1)
SlowProcessors == 0..(NumSlowPathProcessors - 1)

processorQueueSize ==
    LET share == (NumInterfaces * BatchSize) \div NumProcessors
    IN  IF share > BatchSize THEN share ELSE BatchSize

poolSizeWithoutSlowPath ==
    NumInterfaces * BatchSize + NumProcessors * (processorQueueSize + 1)
    + NumInterfaces * (2 * BatchSize)

poolSize ==
    NumInterfaces * BatchSize
    + (NumProcessors + NumSlowPathProcessors) * (processorQueueSize + 1)
    + NumInterfaces * (2 * BatchSize)

Buffer == {"buf", "nil"}

\* The message of a batch that the receiver fills next holds a buffer the
\* receiver owns, or the pointer to one it has given away.
Slot == Buffer \cup {"stale"}
Batch == 1..BatchSize

Init ==
    /\ pool = [b \in Buffer |-> IF b = "buf" THEN poolSize ELSE 0]
    /\ pc = [i \in Interfaces |-> "collect"]
    /\ slot = [i \in Interfaces |-> [k \in Batch |-> "stale"]]
    /\ idx = [i \in Interfaces |-> 1]
    /\ numReusable = [i \in Interfaces |-> 0]
    /\ numPkts = [i \in Interfaces |-> 0]
    /\ procQ = [p \in Processors |-> <<>>]
    /\ slowQ = [s \in SlowProcessors |-> <<>>]
    /\ busy = {} /\ slowBusy = {}
    /\ fwQ = [i \in Interfaces |-> <<>>]
    /\ pkts = [i \in Interfaces |-> <<>>]
    /\ writing = {}

\* The pool is a channel: whoever returns a buffer waits while it is full.
returnPacketToPool(b) ==
    /\ pool["buf"] + pool["nil"] < poolSize
    /\ pool' = [pool EXCEPT ![b] = @ + 1]

---------------------------------------------------------------------------
(* runReceiver                                                                 *)

\* One round of the loop that fills the messages used up by the last batch.
Collect(i) ==
    /\ pc[i] = "collect" /\ idx[i] <= BatchSize - numReusable[i]
    /\ \E b \in Buffer :
        /\ pool[b] > 0
        /\ pool' = [pool EXCEPT ![b] = @ - 1]
        /\ slot' = [slot EXCEPT ![i][idx[i]] = b]
    /\ idx' = [idx EXCEPT ![i] = @ + 1]
    /\ UNCHANGED <<pc, numReusable, numPkts, procQ, slowQ, busy, slowBusy, fwQ, pkts, writing>>

Collected(i) ==
    /\ pc[i] = "collect" /\ idx[i] > BatchSize - numReusable[i]
    /\ pc' = [pc EXCEPT ![i] = "read"]
    /\ UNCHANGED <<pool, slot, idx, numReusable, numPkts, procQ, slowQ, busy, slowBusy,
                   fwQ, pkts, writing>>

ReusableCountsOneMore(n) == BatchSize - n + 1
ReusableKeepsOne(n) == IF n = BatchSize THEN 1 ELSE BatchSize - n

\* How many messages keep their buffer after a read of n packets.
Reusable(n) == BatchSize - n

\* On an error ReadBatch returns 0 or -1 packets and the loop starts over.
ReadBatch(i) ==
    /\ pc[i] = "read"
    /\ \E n \in -1..BatchSize, err \in BOOLEAN :
        /\ (n <= 0 /\ err) \/ (n >= 0 /\ ~err)
        /\ numPkts' = [numPkts EXCEPT ![i] = n]
        /\ numReusable' = [numReusable EXCEPT ![i] = Reusable(n)]
        /\ pc' = [pc EXCEPT ![i] = IF err THEN "collect" ELSE "enqueue"]
    /\ idx' = [idx EXCEPT ![i] = 1]
    /\ UNCHANGED <<pool, slot, procQ, slowQ, busy, slowBusy, fwQ, pkts, writing>>

EnqueueWaits(i) ==
    /\ pc[i] = "enqueue" /\ idx[i] <= numPkts[i]
    /\ LET b == slot[i][idx[i]]
       IN  \/ b = "nil" /\ returnPacketToPool(b) /\ UNCHANGED procQ
           \/ \E p \in Processors :
                /\ b = "buf" /\ Len(procQ[p]) < processorQueueSize
                /\ procQ' = [procQ EXCEPT ![p] = Append(@, b)] /\ UNCHANGED pool
    /\ slot' = [slot EXCEPT ![i][idx[i]] = "stale"]
    /\ idx' = [idx EXCEPT ![i] = @ + 1]
    /\ UNCHANGED <<pc, numReusable, numPkts, slowQ, busy, slowBusy, fwQ, pkts, writing>>

\* A packet that is too short, as everything read into a nil slice is, or that
\* finds its processor busy is dropped.
Enqueue(i) ==
    /\ pc[i] = "enqueue" /\ idx[i] <= numPkts[i]
    /\ LET b == slot[i][idx[i]]
       IN  \/ returnPacketToPool(b) /\ UNCHANGED procQ    \* computeProcID: errShortPacket
           \/ \E p \in Processors :
                /\ b = "buf"
                /\ IF Len(procQ[p]) < processorQueueSize
                     THEN procQ' = [procQ EXCEPT ![p] = Append(@, b)] /\ UNCHANGED pool
                     ELSE returnPacketToPool(b) /\ UNCHANGED procQ
    /\ slot' = [slot EXCEPT ![i][idx[i]] = "stale"]
    /\ idx' = [idx EXCEPT ![i] = @ + 1]
    /\ UNCHANGED <<pc, numReusable, numPkts, slowQ, busy, slowBusy, fwQ, pkts, writing>>

Enqueued(i) ==
    /\ pc[i] = "enqueue" /\ idx[i] > numPkts[i]
    /\ pc' = [pc EXCEPT ![i] = "collect"]
    /\ idx' = [idx EXCEPT ![i] = 1]
    /\ UNCHANGED <<pool, slot, numReusable, numPkts, procQ, slowQ, busy, slowBusy,
                   fwQ, pkts, writing>>

---------------------------------------------------------------------------
(* runProcessor and runSlowPathProcessor                                       *)

TakePacket(p) ==
    /\ p \notin busy /\ procQ[p] # <<>>
    /\ busy' = busy \cup {p}
    /\ procQ' = [procQ EXCEPT ![p] = Tail(@)]
    /\ UNCHANGED <<receiver, pool, slowQ, slowBusy, fwQ, pkts, writing>>

\* A full queue is never waited for: the packet is dropped.
Forward(i, b) ==
    IF Len(fwQ[i]) < BatchSize
      THEN fwQ' = [fwQ EXCEPT ![i] = Append(@, b)] /\ UNCHANGED pool
      ELSE returnPacketToPool(b) /\ UNCHANGED fwQ

ToSlowPath(s) ==
    IF Len(slowQ[s]) < processorQueueSize
      THEN slowQ' = [slowQ EXCEPT ![s] = Append(@, "buf")] /\ UNCHANGED pool
      ELSE returnPacketToPool("buf") /\ UNCHANGED slowQ

slowQueueOf(p) == p % NumSlowPathProcessors

\* The packet is handed on, or dropped: invalid, no forwarder for its egress,
\* or consumed by a BFD session.
FinishPacket(p) ==
    /\ p \in busy
    /\ \/ ToSlowPath(slowQueueOf(p)) /\ UNCHANGED fwQ
       \/ (\E i \in Interfaces : Forward(i, "buf")) /\ UNCHANGED slowQ
       \/ returnPacketToPool("buf") /\ UNCHANGED <<fwQ, slowQ>>
    /\ busy' = busy \ {p}
    /\ UNCHANGED <<receiver, procQ, slowBusy, pkts, writing>>

TakeSlowPacket(s) ==
    /\ s \notin slowBusy /\ slowQ[s] # <<>>
    /\ slowBusy' = slowBusy \cup {s}
    /\ slowQ' = [slowQ EXCEPT ![s] = Tail(@)]
    /\ UNCHANGED <<receiver, pool, procQ, busy, fwQ, pkts, writing>>

\* The answer leaves by the interface of the packet, in the same buffer.  A
\* router alert on a packet that is not a traceroute request has the result
\* {EgressID: 0, OutPkt: nil}, which is forwarded like any other.
FinishSlowPacket(s) ==
    /\ s \in slowBusy
    /\ \/ \E i \in Interfaces : Forward(i, "buf")
       \/ returnPacketToPool("buf") /\ UNCHANGED fwQ
       \/ OddAlerts /\ Forward(Internal, "nil")
    /\ slowBusy' = slowBusy \ {s}
    /\ UNCHANGED <<receiver, procQ, slowQ, busy, pkts, writing>>

---------------------------------------------------------------------------
(* runForwarder                                                                *)

\* Blocks for the first packet unless some are left from the last write.
readUpTo(i) ==
    LET n == BatchSize - Len(pkts[i])
        taken == IF Len(fwQ[i]) < n THEN Len(fwQ[i]) ELSE n
    IN  /\ i \notin writing
        /\ pkts[i] = <<>> => fwQ[i] # <<>>
        /\ pkts' = [pkts EXCEPT ![i] = @ \o SubSeq(fwQ[i], 1, taken)]
        /\ fwQ' = [fwQ EXCEPT ![i] = SubSeq(@, taken + 1, Len(@))]
        /\ writing' = writing \cup {i}
        /\ UNCHANGED <<receiver, pool, procQ, slowQ, busy, slowBusy>>

CountOf(b, s) == Cardinality({k \in DOMAIN s : s[k] = b})

leftoversKeepsDropped(s, written) == SubSeq(s, written + 1, Len(s))

\* What is left after written packets were written and, if that was not all,
\* the next one was dropped.
leftovers(s, written) == SubSeq(s, written + 2, Len(s))

\* An error counts as 0 packets written.
WriteBatch(i) ==
    /\ i \in writing
    /\ \E written \in 0..Len(pkts[i]) :
        LET done == IF written = Len(pkts[i]) THEN written ELSE written + 1
            returned == SubSeq(pkts[i], 1, done)
        IN  /\ pool["buf"] + pool["nil"] + done <= poolSize
            /\ pool' = [b \in Buffer |-> pool[b] + CountOf(b, returned)]
            /\ pkts' = [pkts EXCEPT ![i] = leftovers(@, written)]
    /\ writing' = writing \ {i}
    /\ UNCHANGED <<receiver, procQ, slowQ, busy, slowBusy, fwQ>>

---------------------------------------------------------------------------
Receiver(i) == Collect(i) \/ Collected(i) \/ ReadBatch(i) \/ Enqueue(i) \/ Enqueued(i)
Forwarder(i) == readUpTo(i) \/ WriteBatch(i)
Processor(p) == TakePacket(p) \/ FinishPacket(p)
SlowPathProcessor(s) == TakeSlowPacket(s) \/ FinishSlowPacket(s)

Next ==
    \/ \E i \in Interfaces : Receiver(i) \/ Forwarder(i)
    \/ \E p \in Processors : Processor(p)
    \/ \E s \in SlowProcessors : SlowPathProcessor(s)

Spec == Init /\ [][Next]_vars

\* Every goroutine runs, and ReadBatch and WriteBatch return.
SpecLive ==
    /\ Spec
    /\ \A i \in Interfaces : WF_vars(Receiver(i)) /\ WF_vars(Forwarder(i))
    /\ \A p \in Processors : WF_vars(Processor(p))
    /\ \A s \in SlowProcessors : WF_vars(SlowPathProcessor(s))

---------------------------------------------------------------------------
(* Properties.                                                                 *)

TypeOK ==
    /\ pool \in [Buffer -> 0..poolSize]
    /\ pc \in [Interfaces -> {"collect", "read", "enqueue"}]
    /\ slot \in [Interfaces -> [Batch -> Slot]]
    /\ idx \in [Interfaces -> 1..(BatchSize + 1)]
    /\ numReusable \in [Interfaces -> 0..(BatchSize + 1)]
    /\ numPkts \in [Interfaces -> -1..BatchSize]
    /\ procQ \in [Processors -> Seq(Buffer)]
    /\ slowQ \in [SlowProcessors -> Seq(Buffer)]
    /\ busy \subseteq Processors /\ slowBusy \subseteq SlowProcessors
    /\ fwQ \in [Interfaces -> Seq(Buffer)]
    /\ pkts \in [Interfaces -> Seq(Buffer)]
    /\ writing \subseteq Interfaces

\* The buffers of a kind that an interface has: in the messages of its receiver,
\* in the queue of its forwarder and in what the forwarder is about to write.
AtInterface(b, i) == CountOf(b, slot[i]) + CountOf(b, fwQ[i]) + CountOf(b, pkts[i])

\* All buffers of a kind, wherever they are.
Owned(b) ==
    pool[b]
    + SumFunction([i \in Interfaces |-> AtInterface(b, i)])
    + SumFunction([p \in Processors |-> CountOf(b, procQ[p])])
    + SumFunction([s \in SlowProcessors |-> CountOf(b, slowQ[s])])
    + (IF b = "buf" THEN Cardinality(busy) + Cardinality(slowBusy) ELSE 0)

\* No buffer is lost and none is returned twice, whatever queue is full and
\* whatever read or write fails: pool, receivers, queues, processors and
\* forwarders together own as many buffers as the router allocated.
BuffersConserved == Owned("buf") = poolSize /\ Owned("nil") = 0

\* ReadBatch writes into buffers the receiver took from the pool since it
\* handed the last ones on, never into one that another goroutine may be using
\* (the index arithmetic with numReusable in runReceiver).
ReadsIntoOwnBuffers ==
    \A i \in Interfaces : pc[i] = "read" => \A k \in Batch : slot[i][k] # "stale"

\* The pool is as large as the number of packets in flight can get: a receiver
\* that needs a buffer finds one, even when all queues are full.
PoolSuffices ==
    \A i \in Interfaces :
        pc[i] = "collect" /\ idx[i] <= BatchSize - numReusable[i] => pool["buf"] + pool["nil"] > 0

\* Every interface keeps reading packets, whatever the others do.
KeepsReceiving == \A i \in Interfaces : []<>(pc[i] = "read")
=============================================================================
