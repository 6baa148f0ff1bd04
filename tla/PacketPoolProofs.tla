------------------------- MODULE PacketPoolProofs -------------------------
(***************************************************************************)
(* Type correctness of PacketPool and the ownership of receive buffers, for *)
(* every number of interfaces and processors and every batch size.          *)
(***************************************************************************)
EXTENDS PacketPool, ProofBasics

\* What a receiver owns between two reads.  While it collects, it owns the
\* messages refilled so far and, at the end of the batch, those the last read
\* left unused; while it hands packets on, everything from the next one.
BatchOwned(i) ==
    LET own(k) == slot[i][k] # "stale"
    IN  /\ pc[i] = "collect" =>
            \A k \in Batch : k < idx[i] \/ k > BatchSize - numReusable[i] => own(k)
        /\ pc[i] = "read" => \A k \in Batch : own(k)
        /\ pc[i] = "enqueue" =>
            /\ numPkts[i] >= 0 /\ numReusable[i] = BatchSize - numPkts[i]
            /\ idx[i] <= numPkts[i] + 1
            /\ \A k \in Batch : k >= idx[i] => own(k)

\* A forwarder never holds more packets than its array has room for.
RingBounded == \A i \in Interfaces : Len(pkts[i]) <= BatchSize

\* The inductive invariant behind type correctness and ReadsIntoOwnBuffers.
Ownership == TypeOK /\ (\A i \in Interfaces : BatchOwned(i)) /\ RingBounded

\* The queue and pool sizes computed by Run are natural numbers.
LEMMA SizeTypes ==
    /\ NumInterfaces \in Nat
    /\ processorQueueSize \in Nat
    /\ poolSize \in Nat
<1>1. NumInterfaces \in Nat
  BY PoolAssumption, FS_CardinalityType DEF NumInterfaces
<1>2. NumInterfaces * BatchSize \in Nat /\ NumInterfaces * (2 * BatchSize) \in Nat
  BY <1>1, PoolAssumption
<1>3. (NumInterfaces * BatchSize) \div NumProcessors \in Nat
  BY <1>2, PoolAssumption
<1>4. processorQueueSize \in Nat
  BY <1>3, PoolAssumption DEF processorQueueSize
<1>5. (NumProcessors + NumSlowPathProcessors) * (processorQueueSize + 1) \in Nat
  BY <1>4, PoolAssumption
<1> QED
  BY <1>1, <1>2, <1>4, <1>5 DEF poolSize

\* A sequence of n elements holds at most n of a kind.
LEMMA CountBound ==
    ASSUME NEW s \in Seq(Buffer), NEW b
    PROVE  CountOf(b, s) \in 0..Len(s)
<1>1. DOMAIN s = 1..Len(s) /\ Len(s) \in Nat
  OBVIOUS
<1>2. IsFiniteSet(1..Len(s)) /\ Cardinality(1..Len(s)) = Len(s)
  BY <1>1, FS_Interval
<1>3. {k \in DOMAIN s : s[k] = b} \subseteq 1..Len(s)
  BY <1>1
<1>4. /\ IsFiniteSet({k \in DOMAIN s : s[k] = b})
      /\ Cardinality({k \in DOMAIN s : s[k] = b}) <= Len(s)
  BY <1>2, <1>3, FS_Subset
<1> QED
  BY <1>1, <1>4, FS_CardinalityType DEF CountOf

\* Giving a buffer back keeps the pool within its capacity.
LEMMA ReturnType ==
    ASSUME NEW b \in Buffer, pool \in [Buffer -> 0..poolSize], returnPacketToPool(b)
    PROVE  pool' \in [Buffer -> 0..poolSize]
<1>1. pool["buf"] \in Nat /\ pool["nil"] \in Nat /\ pool[b] \in {pool["buf"], pool["nil"]}
  BY SizeTypes DEF Buffer
<1>2. pool[b] + 1 \in 0..poolSize
  BY <1>1, SizeTypes DEF returnPacketToPool
<1> QED
  BY <1>2 DEF returnPacketToPool

\* Queueing for a forwarder keeps the types.
LEMMA ForwardType ==
    ASSUME NEW i \in Interfaces, NEW b \in Buffer, Forward(i, b),
           pool \in [Buffer -> 0..poolSize], fwQ \in [Interfaces -> Seq(Buffer)]
    PROVE  pool' \in [Buffer -> 0..poolSize] /\ fwQ' \in [Interfaces -> Seq(Buffer)]
<1>1. CASE Len(fwQ[i]) < BatchSize
  <2>1. fwQ[i] \in Seq(Buffer)
    OBVIOUS
  <2>2. Append(fwQ[i], b) \in Seq(Buffer)
    BY <2>1
  <2>3. fwQ' = [fwQ EXCEPT ![i] = Append(fwQ[i], b)] /\ pool' = pool
    BY <1>1 DEF Forward
  <2> QED
    BY <2>2, <2>3
<1>2. CASE ~(Len(fwQ[i]) < BatchSize)
  BY <1>2, ReturnType DEF Forward
<1> QED
  BY <1>1, <1>2

\* Nothing is collected and nothing read at the start.
LEMMA InitOwnership == Init => Ownership
<1> SUFFICES ASSUME Init PROVE Ownership
  OBVIOUS
<1>1. TypeOK
  <2>1. pool \in [Buffer -> 0..poolSize]
    BY SizeTypes DEF Init
  <2>2. slot \in [Interfaces -> [Batch -> Slot]]
    BY DEF Init, Slot
  <2>3. <<>> \in Seq(Buffer)
    OBVIOUS
  <2> QED
    BY <2>1, <2>2, <2>3, PoolAssumption DEF Init, TypeOK
<1>2. ASSUME NEW i \in Interfaces PROVE BatchOwned(i)
  BY <1>2, PoolAssumption DEF Init, BatchOwned, Batch
<1>3. RingBounded
  BY PoolAssumption DEF Init, RingBounded
<1> QED
  BY <1>1, <1>2, <1>3 DEF Ownership

\* A step that leaves the receivers alone leaves their ownership alone.
LEMMA ReceiversUntouched ==
    ASSUME Ownership, TypeOK', RingBounded', UNCHANGED receiver
    PROVE  Ownership'
  BY DEF Ownership, BatchOwned, receiver

---------------------------------------------------------------------------
(* The receiver.                                                               *)

\* A message that was refilled is owned.
LEMMA CollectKeepsOwnership ==
    ASSUME Ownership, NEW i \in Interfaces, Collect(i)
    PROVE  Ownership'
<1> USE DEF Batch
<1>1. PICK b \in Buffer :
        /\ pool[b] > 0
        /\ pool' = [pool EXCEPT ![b] = @ - 1]
        /\ slot' = [slot EXCEPT ![i][idx[i]] = b]
  BY DEF Collect
<1>2. pool[b] - 1 \in 0..poolSize
  BY <1>1, SizeTypes DEF Ownership, TypeOK
<1>3. idx[i] \in Batch
  <2>1. idx[i] \in 1..(BatchSize + 1) /\ numReusable[i] \in 0..(BatchSize + 1)
    BY DEF Ownership, TypeOK
  <2>2. idx[i] <= BatchSize - numReusable[i]
    BY DEF Collect
  <2> QED
    BY <2>1, <2>2, PoolAssumption
<1>4. b \in Slot /\ b # "stale"
  BY <1>1 DEF Slot, Buffer
<1>5. TypeOK'
  <2>1. pool' \in [Buffer -> 0..poolSize]
    BY <1>1, <1>2 DEF Ownership, TypeOK
  <2>2. slot' \in [Interfaces -> [Batch -> Slot]]
    <3>1. slot \in [Interfaces -> [Batch -> Slot]]
      BY DEF Ownership, TypeOK
    <3>2. [slot[i] EXCEPT ![idx[i]] = b] \in [Batch -> Slot]
      BY <3>1, <1>4
    <3>3. slot' = [slot EXCEPT ![i] = [slot[i] EXCEPT ![idx[i]] = b]]
      BY <1>1
    <3> QED
      BY <3>1, <3>2, <3>3
  <2>3. idx' \in [Interfaces -> 1..(BatchSize + 1)]
    <3>1. idx[i] + 1 \in 1..(BatchSize + 1)
      BY <1>3, PoolAssumption
    <3> QED
      BY <3>1 DEF Collect, Ownership, TypeOK
  <2> QED
    BY <2>1, <2>2, <2>3 DEF Collect, Ownership, TypeOK
<1>6. ASSUME NEW j \in Interfaces PROVE BatchOwned(j)'
  <2>1. CASE j # i
    BY <1>1, <2>1 DEF Collect, Ownership, TypeOK, BatchOwned
  <2>2. CASE j = i
    <3>1. pc'[i] = "collect" /\ idx'[i] = idx[i] + 1 /\ numReusable'[i] = numReusable[i]
      BY DEF Collect, Ownership, TypeOK
    <3>2. ASSUME NEW k \in Batch, k < idx[i] + 1 \/ k > BatchSize - numReusable[i]
          PROVE  slot'[i][k] # "stale"
      <4>1. CASE k = idx[i]
        BY <1>1, <1>3, <1>4, <4>1 DEF Ownership, TypeOK
      <4>2. CASE k # idx[i]
        <5>1. k < idx[i] \/ k > BatchSize - numReusable[i]
          BY <3>2, <4>2, <1>3
        <5>2. slot[i][k] # "stale"
          BY <5>1 DEF Collect, Ownership, BatchOwned
        <5> QED
          BY <5>2, <1>1, <4>2 DEF Ownership, TypeOK
      <4> QED
        BY <4>1, <4>2
    <3> QED
      BY <2>2, <3>1, <3>2 DEF BatchOwned
  <2> QED
    BY <2>1, <2>2
<1> QED
  BY <1>5, <1>6 DEF Ownership, RingBounded, Collect

\* When no message is left to refill, the whole batch is owned.
LEMMA CollectedKeepsOwnership ==
    ASSUME Ownership, NEW i \in Interfaces, Collected(i)
    PROVE  Ownership'
<1> USE DEF Batch
<1>1. TypeOK'
  BY DEF Collected, Ownership, TypeOK
<1>2. ASSUME NEW j \in Interfaces PROVE BatchOwned(j)'
  <2>1. CASE j # i
    BY <2>1 DEF Collected, Ownership, TypeOK, BatchOwned
  <2>2. CASE j = i
    <3>1. pc'[i] = "read" /\ slot' = slot
      BY DEF Collected, Ownership, TypeOK
    <3>2. ASSUME NEW k \in Batch PROVE slot[i][k] # "stale"
      <4>1. idx[i] \in Int /\ numReusable[i] \in Int
        BY PoolAssumption DEF Ownership, TypeOK
      <4>2. k < idx[i] \/ k > BatchSize - numReusable[i]
        BY <4>1, PoolAssumption DEF Collected
      <4> QED
        BY <4>2 DEF Collected, Ownership, BatchOwned
    <3> QED
      BY <2>2, <3>1, <3>2 DEF BatchOwned
  <2> QED
    BY <2>1, <2>2
<1> QED
  BY <1>1, <1>2 DEF Ownership, RingBounded, Collected

\* Reading hands nothing on, also when it fails.
LEMMA ReadBatchKeepsOwnership ==
    ASSUME Ownership, NEW i \in Interfaces, ReadBatch(i)
    PROVE  Ownership'
<1> USE DEF Batch
<1>1. PICK n \in -1..BatchSize, err \in BOOLEAN :
        /\ (n <= 0 /\ err) \/ (n >= 0 /\ ~err)
        /\ numPkts' = [numPkts EXCEPT ![i] = n]
        /\ numReusable' = [numReusable EXCEPT ![i] = BatchSize - n]
        /\ pc' = [pc EXCEPT ![i] = IF err THEN "collect" ELSE "enqueue"]
  BY DEF ReadBatch, Reusable
<1>2. BatchSize - n \in 0..(BatchSize + 1) /\ 1 \in 1..(BatchSize + 1)
  BY PoolAssumption
<1>3. TypeOK'
  <2>1. numReusable' \in [Interfaces -> 0..(BatchSize + 1)]
    BY <1>1, <1>2 DEF Ownership, TypeOK
  <2>2. idx' \in [Interfaces -> 1..(BatchSize + 1)]
    BY <1>2 DEF ReadBatch, Ownership, TypeOK
  <2>3. /\ numPkts' \in [Interfaces -> -1..BatchSize]
        /\ pc' \in [Interfaces -> {"collect", "read", "enqueue"}]
    BY <1>1 DEF Ownership, TypeOK
  <2> QED
    BY <2>1, <2>2, <2>3 DEF ReadBatch, Ownership, TypeOK
<1>4. ASSUME NEW j \in Interfaces PROVE BatchOwned(j)'
  <2>1. CASE j # i
    BY <1>1, <2>1 DEF ReadBatch, Ownership, TypeOK, BatchOwned
  <2>2. CASE j = i
    <3>1. \A k \in Batch : slot'[i][k] # "stale"
      BY DEF ReadBatch, Ownership, BatchOwned
    <3>2. /\ numPkts'[i] = n /\ numReusable'[i] = BatchSize - n /\ idx'[i] = 1
          /\ pc'[i] = IF err THEN "collect" ELSE "enqueue"
      BY <1>1 DEF ReadBatch, Ownership, TypeOK
    <3>3. pc'[i] = "enqueue" => n >= 0 /\ 1 <= n + 1
      BY <3>2, <1>1
    <3>4. pc'[i] # "read"
      BY <3>2
    <3> QED
      BY <2>2, <3>1, <3>2, <3>3, <3>4 DEF BatchOwned
  <2> QED
    BY <2>1, <2>2
<1> QED
  BY <1>3, <1>4 DEF Ownership, RingBounded, ReadBatch

\* Handing a packet on gives up one message and no other.
LEMMA EnqueueKeepsOwnership ==
    ASSUME Ownership, NEW i \in Interfaces, Enqueue(i)
    PROVE  Ownership'
<1> USE DEF Batch
<1> DEFINE b == slot[i][idx[i]]
<1>1. /\ idx[i] \in Batch /\ numPkts[i] \in 0..BatchSize
      /\ idx[i] <= numPkts[i]
  BY PoolAssumption DEF Enqueue, Ownership, TypeOK, BatchOwned
<1>2. b \in Buffer
  <2>1. slot[i] \in [Batch -> Slot]
    BY DEF Ownership, TypeOK
  <2>3. b \in Slot
    BY <1>1, <2>1
  <2>2. b # "stale"
    BY <1>1 DEF Enqueue, Ownership, BatchOwned
  <2> QED
    BY <2>2, <2>3 DEF Slot
<1>3. /\ pool' \in [Buffer -> 0..poolSize]
      /\ procQ' \in [Processors -> Seq(Buffer)]
  <2>0. pool \in [Buffer -> 0..poolSize] /\ procQ \in [Processors -> Seq(Buffer)]
    BY DEF Ownership, TypeOK
  <2>1. \/ returnPacketToPool(b) /\ UNCHANGED procQ
        \/ \E p \in Processors : procQ' = [procQ EXCEPT ![p] = Append(@, b)] /\ UNCHANGED pool
    BY DEF Enqueue
  <2>2. CASE returnPacketToPool(b) /\ UNCHANGED procQ
    BY <2>0, <2>2, <1>2, ReturnType
  <2>3. CASE \E p \in Processors : procQ' = [procQ EXCEPT ![p] = Append(@, b)] /\ UNCHANGED pool
    <3>1. PICK p \in Processors : procQ' = [procQ EXCEPT ![p] = Append(procQ[p], b)] /\ pool' = pool
      BY <2>3
    <3>2. Append(procQ[p], b) \in Seq(Buffer)
      BY <2>0, <1>2
    <3> QED
      BY <2>0, <3>1, <3>2
  <2> QED
    BY <2>1, <2>2, <2>3
<1>4. slot' = [slot EXCEPT ![i] = [slot[i] EXCEPT ![idx[i]] = "stale"]]
  BY DEF Enqueue
<1>5. TypeOK'
  <2>1. slot' \in [Interfaces -> [Batch -> Slot]]
    <3>1. slot \in [Interfaces -> [Batch -> Slot]]
      BY DEF Ownership, TypeOK
    <3>2. [slot[i] EXCEPT ![idx[i]] = "stale"] \in [Batch -> Slot]
      BY <3>1 DEF Slot
    <3> QED
      BY <3>1, <3>2, <1>4
  <2>2. idx' \in [Interfaces -> 1..(BatchSize + 1)]
    <3>1. idx[i] + 1 \in 1..(BatchSize + 1)
      BY <1>1, PoolAssumption
    <3> QED
      BY <3>1 DEF Enqueue, Ownership, TypeOK
  <2> QED
    BY <1>3, <2>1, <2>2 DEF Enqueue, Ownership, TypeOK
<1>6. ASSUME NEW j \in Interfaces PROVE BatchOwned(j)'
  <2>1. CASE j # i
    BY <1>4, <2>1 DEF Enqueue, Ownership, TypeOK, BatchOwned
  <2>2. CASE j = i
    <3>1. /\ pc'[i] = "enqueue" /\ idx'[i] = idx[i] + 1
          /\ numReusable'[i] = numReusable[i] /\ numPkts'[i] = numPkts[i]
      BY DEF Enqueue, Ownership, TypeOK
    <3>2. ASSUME NEW k \in Batch, k >= idx[i] + 1 PROVE slot'[i][k] # "stale"
      <4>1. k >= idx[i] /\ k # idx[i]
        BY <3>2, <1>1
      <4>2. slot[i][k] # "stale"
        BY <4>1 DEF Enqueue, Ownership, BatchOwned
      <4> QED
        BY <4>1, <4>2, <1>4 DEF Ownership, TypeOK
    <3>3. numReusable[i] = BatchSize - numPkts[i]
      BY DEF Enqueue, Ownership, BatchOwned
    <3> QED
      BY <2>2, <3>1, <3>2, <3>3, <1>1 DEF BatchOwned
  <2> QED
    BY <2>1, <2>2
<1> QED
  BY <1>5, <1>6 DEF Ownership, RingBounded, Enqueue

\* What the last read left unused is at the end of the batch.
LEMMA EnqueuedKeepsOwnership ==
    ASSUME Ownership, NEW i \in Interfaces, Enqueued(i)
    PROVE  Ownership'
<1> USE DEF Batch
<1>1. TypeOK'
  <2>1. 1 \in 1..(BatchSize + 1)
    BY PoolAssumption
  <2> QED
    BY <2>1 DEF Enqueued, Ownership, TypeOK
<1>2. ASSUME NEW j \in Interfaces PROVE BatchOwned(j)'
  <2>1. CASE j # i
    BY <2>1 DEF Enqueued, Ownership, TypeOK, BatchOwned
  <2>2. CASE j = i
    <3>1. /\ pc'[i] = "collect" /\ idx'[i] = 1 /\ slot' = slot
          /\ numReusable'[i] = numReusable[i]
      BY DEF Enqueued, Ownership, TypeOK
    <3>2. /\ numPkts[i] \in Int /\ idx[i] \in Int
          /\ idx[i] = numPkts[i] + 1
          /\ numReusable[i] = BatchSize - numPkts[i]
      <4>1. numPkts[i] \in -1..BatchSize /\ idx[i] \in 1..(BatchSize + 1)
        BY DEF Ownership, TypeOK
      <4>2. /\ idx[i] > numPkts[i] /\ idx[i] <= numPkts[i] + 1
            /\ numReusable[i] = BatchSize - numPkts[i]
        BY DEF Enqueued, Ownership, BatchOwned
      <4> QED
        BY <4>1, <4>2, PoolAssumption
    <3>3. ASSUME NEW k \in Batch, k < 1 \/ k > BatchSize - numReusable[i]
          PROVE  slot[i][k] # "stale"
      <4>1. k >= idx[i]
        BY <3>2, <3>3, PoolAssumption
      <4> QED
        BY <4>1 DEF Enqueued, Ownership, BatchOwned
    <3> QED
      BY <2>2, <3>1, <3>3 DEF BatchOwned
  <2> QED
    BY <2>1, <2>2
<1> QED
  BY <1>1, <1>2 DEF Ownership, RingBounded, Enqueued

---------------------------------------------------------------------------
(* Processors and forwarders: only types are at stake.                         *)

\* Fast-path processors take from their queue and send to others.
LEMMA ProcessorKeepsOwnership ==
    ASSUME Ownership, NEW p \in Processors, Processor(p)
    PROVE  Ownership'
<1>1. /\ procQ \in [Processors -> Seq(Buffer)] /\ slowQ \in [SlowProcessors -> Seq(Buffer)]
      /\ pool \in [Buffer -> 0..poolSize] /\ fwQ \in [Interfaces -> Seq(Buffer)]
      /\ busy \subseteq Processors
  BY DEF Ownership, TypeOK
<1>2. "buf" \in Buffer
  BY DEF Buffer
<1>3. CASE TakePacket(p)
  <2>1. Tail(procQ[p]) \in Seq(Buffer)
    BY <1>1, <1>3 DEF TakePacket
  <2>2. procQ' \in [Processors -> Seq(Buffer)]
    BY <2>1, <1>1, <1>3 DEF TakePacket
  <2>3. TypeOK'
    BY <2>2, <1>3 DEF TakePacket, receiver, Ownership, TypeOK
  <2> QED
    BY <2>3, <1>3, ReceiversUntouched DEF TakePacket, Ownership, RingBounded
<1>4. CASE FinishPacket(p)
  <2>1. /\ pool' \in [Buffer -> 0..poolSize]
        /\ fwQ' \in [Interfaces -> Seq(Buffer)]
        /\ slowQ' \in [SlowProcessors -> Seq(Buffer)]
    <3>1. CASE ToSlowPath(slowQueueOf(p)) /\ UNCHANGED fwQ
      <4>1. slowQueueOf(p) \in SlowProcessors
        BY PoolAssumption DEF slowQueueOf, SlowProcessors, Processors
      <4>2. CASE Len(slowQ[slowQueueOf(p)]) < processorQueueSize
        <5>1. Append(slowQ[slowQueueOf(p)], "buf") \in Seq(Buffer)
          BY <4>1, <1>1, <1>2
        <5> QED
          BY <5>1, <1>1, <3>1, <4>2 DEF ToSlowPath
      <4>3. CASE ~(Len(slowQ[slowQueueOf(p)]) < processorQueueSize)
        BY <4>3, <3>1, <1>1, <1>2, ReturnType DEF ToSlowPath
      <4> QED
        BY <4>2, <4>3
    <3>2. CASE (\E i \in Interfaces : Forward(i, "buf")) /\ UNCHANGED slowQ
      BY <3>2, <1>1, <1>2, ForwardType
    <3>3. CASE returnPacketToPool("buf") /\ UNCHANGED <<fwQ, slowQ>>
      BY <3>3, <1>1, <1>2, ReturnType
    <3> QED
      BY <3>1, <3>2, <3>3, <1>4 DEF FinishPacket
  <2>2. TypeOK'
    BY <2>1, <1>4 DEF FinishPacket, receiver, Ownership, TypeOK
  <2> QED
    BY <2>2, <1>4, ReceiversUntouched DEF FinishPacket, Ownership, RingBounded
<1> QED
  BY <1>3, <1>4 DEF Processor

\* Slow-path processors do the same.
LEMMA SlowPathKeepsOwnership ==
    ASSUME Ownership, NEW s \in SlowProcessors, SlowPathProcessor(s)
    PROVE  Ownership'
<1>1. /\ slowQ \in [SlowProcessors -> Seq(Buffer)] /\ fwQ \in [Interfaces -> Seq(Buffer)]
      /\ pool \in [Buffer -> 0..poolSize] /\ slowBusy \subseteq SlowProcessors
  BY DEF Ownership, TypeOK
<1>2. "buf" \in Buffer /\ "nil" \in Buffer
  BY DEF Buffer
<1>3. CASE TakeSlowPacket(s)
  <2>1. Tail(slowQ[s]) \in Seq(Buffer)
    BY <1>1, <1>3 DEF TakeSlowPacket
  <2>2. slowQ' \in [SlowProcessors -> Seq(Buffer)]
    BY <2>1, <1>1, <1>3 DEF TakeSlowPacket
  <2>3. TypeOK'
    BY <2>2, <1>3 DEF TakeSlowPacket, receiver, Ownership, TypeOK
  <2> QED
    BY <2>3, <1>3, ReceiversUntouched DEF TakeSlowPacket, Ownership, RingBounded
<1>4. CASE FinishSlowPacket(s)
  <2>1. pool' \in [Buffer -> 0..poolSize] /\ fwQ' \in [Interfaces -> Seq(Buffer)]
    <3>1. CASE \E i \in Interfaces : Forward(i, "buf")
      BY <3>1, <1>1, <1>2, ForwardType
    <3>2. CASE returnPacketToPool("buf") /\ UNCHANGED fwQ
      BY <3>2, <1>1, <1>2, ReturnType
    <3>3. CASE Forward(Internal, "nil")
      BY <3>3, <1>1, <1>2, ForwardType, PoolAssumption
    <3> QED
      BY <3>1, <3>2, <3>3, <1>4 DEF FinishSlowPacket
  <2>2. TypeOK'
    BY <2>1, <1>4 DEF FinishSlowPacket, receiver, Ownership, TypeOK
  <2> QED
    BY <2>2, <1>4, ReceiversUntouched DEF FinishSlowPacket, Ownership, RingBounded
<1> QED
  BY <1>3, <1>4 DEF SlowPathProcessor

\* A forwarder takes as many packets as its array has room for.
LEMMA ForwarderKeepsOwnership ==
    ASSUME Ownership, NEW i \in Interfaces, Forwarder(i)
    PROVE  Ownership'
<1>1. /\ fwQ \in [Interfaces -> Seq(Buffer)] /\ pkts \in [Interfaces -> Seq(Buffer)]
      /\ pool \in [Buffer -> 0..poolSize] /\ writing \subseteq Interfaces
  BY DEF Ownership, TypeOK
<1>2. /\ fwQ[i] \in Seq(Buffer) /\ pkts[i] \in Seq(Buffer)
      /\ Len(fwQ[i]) \in Nat /\ Len(pkts[i]) \in 0..BatchSize
  BY <1>1, PoolAssumption DEF Ownership, RingBounded
<1>3. CASE readUpTo(i)
  <2> DEFINE n == BatchSize - Len(pkts[i])
             taken == IF Len(fwQ[i]) < n THEN Len(fwQ[i]) ELSE n
             more == SubSeq(fwQ[i], 1, taken)
             rest == SubSeq(fwQ[i], taken + 1, Len(fwQ[i]))
  <2>1. taken \in 0..Len(fwQ[i]) /\ Len(pkts[i]) + taken <= BatchSize
    <3>1. ASSUME NEW f \in Nat, NEW k \in 0..BatchSize
          PROVE  LET t == IF f < BatchSize - k THEN f ELSE BatchSize - k
                 IN  t \in 0..f /\ k + t <= BatchSize
      BY PoolAssumption
    <3> QED
      BY <1>2, <3>1
  <2>2. more \in Seq(Buffer) /\ Len(more) = taken
    <3> HIDE DEF taken
    <3> QED
      BY <1>2, <2>1
  <2>3. rest \in Seq(Buffer)
    <3> HIDE DEF taken
    <3> QED
      BY <1>2, <2>1
  <2>4. pkts[i] \o more \in Seq(Buffer) /\ Len(pkts[i] \o more) <= BatchSize
    <3> HIDE DEF more, taken
    <3> QED
      BY <1>2, <2>1, <2>2
  <2>5. /\ pkts' = [pkts EXCEPT ![i] = pkts[i] \o more]
        /\ fwQ' = [fwQ EXCEPT ![i] = rest]
        /\ writing' = writing \cup {i}
        /\ UNCHANGED <<receiver, pool, procQ, slowQ, busy, slowBusy>>
    BY <1>3 DEF readUpTo
  <2> HIDE DEF more, rest
  <2>6. pkts' \in [Interfaces -> Seq(Buffer)] /\ fwQ' \in [Interfaces -> Seq(Buffer)]
    BY <1>1, <2>3, <2>4, <2>5
  <2>7. TypeOK'
    BY <1>1, <2>5, <2>6 DEF receiver, Ownership, TypeOK
  <2>8. RingBounded'
    BY <1>1, <2>4, <2>5 DEF Ownership, RingBounded
  <2> QED
    BY <2>5, <2>7, <2>8, ReceiversUntouched
<1>4. CASE WriteBatch(i)
  <2>1. PICK written \in 0..Len(pkts[i]) :
          LET done == IF written = Len(pkts[i]) THEN written ELSE written + 1
              returned == SubSeq(pkts[i], 1, done)
          IN  /\ pool["buf"] + pool["nil"] + done <= poolSize
              /\ pool' = [b \in Buffer |-> pool[b] + CountOf(b, returned)]
              /\ pkts' = [pkts EXCEPT ![i] = SubSeq(@, written + 2, Len(@))]
    BY <1>4 DEF WriteBatch, leftovers
  <2> DEFINE done == IF written = Len(pkts[i]) THEN written ELSE written + 1
             returned == SubSeq(pkts[i], 1, done)
             rest == SubSeq(pkts[i], written + 2, Len(pkts[i]))
  <2>2. done \in 0..Len(pkts[i])
    BY <1>2
  <2>3. returned \in Seq(Buffer) /\ Len(returned) = done
    <3> HIDE DEF done
    <3> QED
      BY <1>2, <2>2
  <2>4. rest \in Seq(Buffer) /\ Len(rest) <= BatchSize
    BY <1>2, PoolAssumption
  <2>5. /\ pool["buf"] + pool["nil"] + done <= poolSize
        /\ pool' = [b \in Buffer |-> pool[b] + CountOf(b, returned)]
        /\ pkts' = [pkts EXCEPT ![i] = rest]
    BY <2>1
  <2> HIDE DEF done, returned, rest
  <2>6. ASSUME NEW b \in Buffer PROVE pool[b] + CountOf(b, returned) \in 0..poolSize
    <3>1. CountOf(b, returned) \in 0..done
      BY <2>3, CountBound
    <3>2. /\ pool["buf"] \in Nat /\ pool["nil"] \in Nat
          /\ pool[b] \in {pool["buf"], pool["nil"]}
      BY <1>1, SizeTypes DEF Buffer
    <3> QED
      BY <3>1, <3>2, <2>2, <2>5, <1>2, SizeTypes, SMTT(30)
  <2>7. pool' \in [Buffer -> 0..poolSize]
    BY <2>5, <2>6
  <2>8. pkts' \in [Interfaces -> Seq(Buffer)]
    BY <1>1, <2>4, <2>5
  <2>9. TypeOK'
    BY <1>4, <2>7, <2>8 DEF WriteBatch, receiver, Ownership, TypeOK
  <2>10. RingBounded'
    BY <1>1, <2>4, <2>5 DEF Ownership, RingBounded
  <2> QED
    BY <1>4, <2>9, <2>10, ReceiversUntouched DEF WriteBatch
<1> QED
  BY <1>3, <1>4 DEF Forwarder

---------------------------------------------------------------------------
(* The theorems.                                                               *)

\* Every step keeps the invariant.
LEMMA NextKeepsOwnership == Ownership /\ [Next]_vars => Ownership'
<1> SUFFICES ASSUME Ownership, [Next]_vars PROVE Ownership'
  OBVIOUS
<1>1. CASE UNCHANGED vars
  BY <1>1 DEF vars, Ownership, TypeOK, BatchOwned, RingBounded
<1>2. ASSUME NEW i \in Interfaces, Receiver(i) PROVE Ownership'
  BY <1>2, CollectKeepsOwnership, CollectedKeepsOwnership, ReadBatchKeepsOwnership,
     EnqueueKeepsOwnership, EnqueuedKeepsOwnership DEF Receiver
<1> QED
  BY <1>1, <1>2, ForwarderKeepsOwnership, ProcessorKeepsOwnership, SlowPathKeepsOwnership
     DEF Next

\* For every number of interfaces and processors and every batch size the pool
\* stays within its capacity, the batch indices stay within the batch and the
\* queues hold buffers.
THEOREM PoolTypeCorrect == Spec => []TypeOK
<1>1. Ownership => TypeOK
  BY DEF Ownership
<1> QED
  BY <1>1, InitOwnership, NextKeepsOwnership, PTL DEF Spec

\* For every configuration of runReceiver, and whatever ReadBatch returns, a
\* batch is read only into buffers that the receiver owns.
THEOREM ReceiverOwnsBatch == Spec => []ReadsIntoOwnBuffers
<1>1. Ownership => ReadsIntoOwnBuffers
  BY DEF Ownership, BatchOwned, ReadsIntoOwnBuffers
<1> QED
  BY <1>1, InitOwnership, NextKeepsOwnership, PTL DEF Spec
---------------------------------------------------------------------------
(* Counting buffers.                                                           *)

\* Whether v is a buffer of kind b, as a number.
One(b, v) == IF v = b THEN 1 ELSE 0

\* Where f has a buffer of kind b.
Places(b, f) == {k \in DOMAIN f : f[k] = b}

\* Whatever is indexed by an interval has finitely many buffers of a kind.
LEMMA CountType ==
    ASSUME NEW n \in Nat, NEW f, DOMAIN f = 1..n, NEW b
    PROVE  /\ IsFiniteSet(Places(b, f)) /\ CountOf(b, f) = Cardinality(Places(b, f))
           /\ CountOf(b, f) \in 0..n
<1>1. IsFiniteSet(1..n) /\ Cardinality(1..n) = n
  BY FS_Interval
<1>2. Places(b, f) \subseteq 1..n
  BY DEF Places
<1>3. IsFiniteSet(Places(b, f)) /\ Cardinality(Places(b, f)) <= n
  BY <1>1, <1>2, FS_Subset
<1>4. Cardinality(Places(b, f)) \in Nat
  BY <1>3, FS_CardinalityType
<1> QED
  BY <1>3, <1>4 DEF CountOf, Places

\* One message of a batch exchanged.
LEMMA CountUpdate ==
    ASSUME NEW n \in Nat, NEW f, f = [j \in 1..n |-> f[j]], NEW k \in 1..n, NEW v, NEW b
    PROVE  CountOf(b, [f EXCEPT ![k] = v]) = CountOf(b, f) + One(b, v) - One(b, f[k])
<1> DEFINE A == Places(b, f)
           g == [f EXCEPT ![k] = v]
           B == Places(b, g)
<1>1. DOMAIN f = 1..n /\ DOMAIN g = 1..n /\ g[k] = v /\ \A j \in 1..n : j # k => g[j] = f[j]
  OBVIOUS
<1>2. IsFiniteSet(A) /\ CountOf(b, f) = Cardinality(A)
  BY <1>1, CountType
<1>3. IsFiniteSet(B) /\ CountOf(b, g) = Cardinality(B)
  <2> HIDE DEF g
  <2> QED
    BY <1>1, CountType
<1>4. A \ {k} = B \ {k} /\ (k \in A <=> f[k] = b) /\ (k \in B <=> v = b)
  <2> HIDE DEF g
  <2> QED
    BY <1>1 DEF Places
<1> HIDE DEF A, B, g
<1>5. ASSUME NEW T, IsFiniteSet(T)
      PROVE  Cardinality(T) = Cardinality(T \ {k}) + (IF k \in T THEN 1 ELSE 0)
  <2>1. CASE k \in T
    <3>1. Cardinality(T) \in Nat /\ Cardinality(T \ {k}) = Cardinality(T) - 1
      BY <1>5, <2>1, FS_RemoveElement, FS_CardinalityType
    <3> QED
      BY <2>1, <3>1
  <2>2. CASE k \notin T
    <3>1. T \ {k} = T
      BY <2>2
    <3>2. Cardinality(T \ {k}) = Cardinality(T) /\ Cardinality(T) \in Nat
      BY <1>5, <3>1, FS_CardinalityType
    <3> QED
      BY <2>2, <3>2
  <2> QED
    BY <2>1, <2>2
<1>6. /\ Cardinality(A) = Cardinality(A \ {k}) + One(b, f[k])
      /\ Cardinality(B) = Cardinality(A \ {k}) + One(b, v)
  BY <1>2, <1>3, <1>4, <1>5 DEF One
<1>7. Cardinality(A \ {k}) \in Nat
  BY <1>2, FS_Subset, FS_CardinalityType
<1>8. One(b, v) \in Int /\ One(b, f[k]) \in Int
  BY DEF One
<1>9. CountOf(b, g) = CountOf(b, f) + One(b, v) - One(b, f[k])
  BY <1>2, <1>3, <1>6, <1>7, <1>8
<1> QED
  BY <1>9 DEF g

\* Two sequences joined.
LEMMA CountConcat ==
    ASSUME NEW s \in Seq(Buffer), NEW t \in Seq(Buffer), NEW b
    PROVE  CountOf(b, s \o t) = CountOf(b, s) + CountOf(b, t)
<1> DEFINE A == Places(b, s)
           B == Places(b, t)
           u == s \o t
           C == Places(b, u)
           D == {k \in C : k > Len(s)}
           f == [k \in B |-> k + Len(s)]
<1>1. /\ DOMAIN s = 1..Len(s) /\ Len(s) \in Nat /\ DOMAIN t = 1..Len(t) /\ Len(t) \in Nat
      /\ DOMAIN u = 1..(Len(s) + Len(t))
      /\ \A k \in 1..Len(s) : u[k] = s[k]
      /\ \A k \in 1..Len(t) : u[k + Len(s)] = t[k]
      /\ \A k \in 1..(Len(s) + Len(t)) : k > Len(s) => k - Len(s) \in 1..Len(t) /\ u[k] = t[k - Len(s)]
  OBVIOUS
<1> HIDE DEF u
<1>2. /\ IsFiniteSet(A) /\ CountOf(b, s) = Cardinality(A)
      /\ IsFiniteSet(B) /\ CountOf(b, t) = Cardinality(B)
      /\ IsFiniteSet(C) /\ CountOf(b, u) = Cardinality(C)
  <2>1. IsFiniteSet(A) /\ CountOf(b, s) = Cardinality(A)
    BY <1>1, CountType
  <2>2. IsFiniteSet(B) /\ CountOf(b, t) = Cardinality(B)
    BY <1>1, CountType
  <2>3. Len(s) + Len(t) \in Nat
    BY <1>1
  <2>4. IsFiniteSet(C) /\ CountOf(b, u) = Cardinality(C)
    BY <1>1, <2>3, CountType
  <2> QED
    BY <2>1, <2>2, <2>4
<1>3. C = A \cup D /\ A \cap D = {}
  <2>1. ASSUME NEW k \in C, ~(k > Len(s)) PROVE k \in A
    BY <1>1, <2>1 DEF Places
  <2>2. A \subseteq C
    BY <1>1 DEF Places
  <2>3. \A k \in A : ~(k > Len(s))
    BY <1>1 DEF Places
  <2> QED
    BY <2>1, <2>2, <2>3
<1>4. f \in Bijection(B, D)
  <2>1. \A k \in B : f[k] \in D
    BY <1>1 DEF Places
  <2>2. \A j, k \in B : f[j] = f[k] => j = k
    BY <1>1 DEF Places
  <2>3. ASSUME NEW d \in D PROVE \E k \in B : f[k] = d
    <3>1. d \in 1..(Len(s) + Len(t)) /\ d > Len(s) /\ u[d] = b
      BY <1>1 DEF Places
    <3>2. d - Len(s) \in B
      BY <1>1, <3>1 DEF Places
    <3>3. f[d - Len(s)] = d
      BY <1>1, <3>1, <3>2
    <3> QED
      BY <3>2, <3>3
  <2> HIDE DEF D, B
  <2>4. f \in [B -> D]
    BY <2>1
  <2>5. f \in Injection(B, D)
    BY <2>2, <2>4 DEF Injection, IsInjective
  <2>6. f \in Surjection(B, D)
    BY <2>3, <2>4 DEF Surjection
  <2> QED
    BY <2>5, <2>6 DEF Bijection
<1> HIDE DEF A, B, C, D, f
<1>5. ExistsBijection(B, D)
  BY <1>4 DEF ExistsBijection
<1>6. IsFiniteSet(D) /\ Cardinality(D) = Cardinality(B)
  BY <1>2, <1>5, FS_Bijection
<1>7. Cardinality(A \cap D) = 0
  BY <1>3, FS_EmptySet
<1>8. Cardinality(C) = Cardinality(A) + Cardinality(D) - Cardinality(A \cap D)
  BY <1>2, <1>3, <1>6, FS_Union
<1>9. Cardinality(A) \in Nat /\ Cardinality(D) \in Nat
  BY <1>2, <1>6, FS_CardinalityType
<1>10. Cardinality(C) = Cardinality(A) + Cardinality(B)
  BY <1>6, <1>7, <1>8, <1>9
<1> QED
  BY <1>2, <1>10 DEF u

\* A sequence of one element, and the empty one.
LEMMA CountSingle ==
    ASSUME NEW v, NEW b
    PROVE  CountOf(b, <<v>>) = One(b, v) /\ CountOf(b, <<>>) = 0
<1>1. DOMAIN <<v>> = 1..1 /\ <<v>>[1] = v
  OBVIOUS
<1>2. ASSUME v = b PROVE CountOf(b, <<v>>) = One(b, v)
  <2>1. {k \in DOMAIN <<v>> : <<v>>[k] = b} = {1}
    BY <1>1, <1>2
  <2>2. Cardinality({1}) = 1
    BY FS_Singleton
  <2> QED
    BY <2>1, <2>2, <1>2 DEF CountOf, One
<1>3. ASSUME v # b PROVE CountOf(b, <<v>>) = One(b, v)
  <2>1. {k \in DOMAIN <<v>> : <<v>>[k] = b} = {}
    BY <1>1, <1>3
  <2> QED
    BY <2>1, <1>3, FS_EmptySet DEF CountOf, One
<1>4. {k \in DOMAIN <<>> : <<>>[k] = b} = {}
  OBVIOUS
<1>5. CountOf(b, <<>>) = 0
  BY <1>4, FS_EmptySet DEF CountOf
<1> QED
  BY <1>2, <1>3, <1>5

\* What sending to a queue and receiving from it does to the count, and where a
\* sequence may be cut.
LEMMA CountQueue ==
    ASSUME NEW s \in Seq(Buffer), NEW v \in Buffer, NEW b
    PROVE  /\ CountOf(b, s) \in 0..Len(s)
           /\ CountOf(b, Append(s, v)) = CountOf(b, s) + One(b, v)
           /\ s # <<>> => CountOf(b, s) = One(b, Head(s)) + CountOf(b, Tail(s))
           /\ \A k \in 0..Len(s) :
                CountOf(b, s) = CountOf(b, SubSeq(s, 1, k)) + CountOf(b, SubSeq(s, k + 1, Len(s)))
<1>1. CountOf(b, Append(s, v)) = CountOf(b, s) + One(b, v)
  <2>1. Append(s, v) = s \o <<v>> /\ <<v>> \in Seq(Buffer)
    OBVIOUS
  <2>2. CountOf(b, s \o <<v>>) = CountOf(b, s) + CountOf(b, <<v>>)
    BY <2>1, CountConcat
  <2> QED
    BY <2>1, <2>2, CountSingle
<1>2. ASSUME s # <<>> PROVE CountOf(b, s) = One(b, Head(s)) + CountOf(b, Tail(s))
  <2>1. s = <<Head(s)>> \o Tail(s) /\ <<Head(s)>> \in Seq(Buffer) /\ Tail(s) \in Seq(Buffer)
    BY <1>2
  <2>2. CountOf(b, <<Head(s)>> \o Tail(s)) = CountOf(b, <<Head(s)>>) + CountOf(b, Tail(s))
    BY <2>1, CountConcat
  <2> QED
    BY <2>1, <2>2, CountSingle
<1>3. ASSUME NEW k \in 0..Len(s)
      PROVE  CountOf(b, s) = CountOf(b, SubSeq(s, 1, k)) + CountOf(b, SubSeq(s, k + 1, Len(s)))
  <2> DEFINE l == SubSeq(s, 1, k)
             m == SubSeq(s, k + 1, Len(s))
  <2>1. /\ l \in Seq(Buffer) /\ Len(l) = k
        /\ \A j \in 1..k : l[j] = s[j]
    OBVIOUS
  <2>2. /\ m \in Seq(Buffer) /\ Len(m) = Len(s) - k
        /\ \A j \in 1..(Len(s) - k) : m[j] = s[j + k]
    OBVIOUS
  <2> HIDE DEF l, m
  <2> DEFINE u == l \o m
  <2>3. u \in Seq(Buffer) /\ Len(u) = Len(s)
    BY <2>1, <2>2
  <2>4. ASSUME NEW j \in 1..Len(s) PROVE u[j] = s[j]
    <3>1. ASSUME j <= k PROVE u[j] = s[j]
      BY <2>1, <2>2, <3>1
    <3>2. ASSUME j > k PROVE u[j] = s[j]
      <4>1. j - k \in 1..(Len(s) - k) /\ (j - k) + k = j
        BY <3>2
      <4>2. u[j] = m[j - k]
        BY <2>1, <2>2, <3>2
      <4> QED
        BY <2>2, <4>1, <4>2
    <3>3. k \in Int /\ j \in Int
      OBVIOUS
    <3> HIDE DEF u
    <3> QED
      BY <3>1, <3>2, <3>3
  <2>5. s = u
    <3> HIDE DEF u
    <3>1. s = [j \in 1..Len(s) |-> s[j]]
      OBVIOUS
    <3>2. u = [j \in 1..Len(s) |-> u[j]]
      BY <2>3
    <3> QED
      BY <2>4, <3>1, <3>2
  <2>6. CountOf(b, l \o m) = CountOf(b, l) + CountOf(b, m)
    BY <2>1, <2>2, CountConcat
  <2> QED
    BY <2>5, <2>6 DEF l, m
<1> QED
  BY <1>1, <1>2, <1>3, CountBound

---------------------------------------------------------------------------
(* Where the buffers are.                                                      *)

\* The places that Owned adds up: interfaces, queues and the packets in work.
AtInterfaces(b) == SumFunction([i \in Interfaces |-> AtInterface(b, i)])
Queued(b, q) == SumFunction([p \in DOMAIN q |-> CountOf(b, q[p])])
Working(b) == IF b = "buf" THEN Cardinality(busy) + Cardinality(slowBusy) ELSE 0

\* The sets that are summed over are finite.
LEMMA FiniteSums ==
    /\ IsFiniteSet(Interfaces)
    /\ IsFiniteSet(Processors) /\ Cardinality(Processors) = NumProcessors
    /\ IsFiniteSet(SlowProcessors) /\ Cardinality(SlowProcessors) = NumSlowPathProcessors
<1>1. /\ IsFiniteSet(0..(NumProcessors - 1))
      /\ Cardinality(0..(NumProcessors - 1)) = NumProcessors
  BY PoolAssumption, FS_Interval
<1>2. /\ IsFiniteSet(0..(NumSlowPathProcessors - 1))
      /\ Cardinality(0..(NumSlowPathProcessors - 1)) = NumSlowPathProcessors
  BY PoolAssumption, FS_Interval
<1> QED
  BY <1>1, <1>2, PoolAssumption DEF Processors, SlowProcessors

\* Owned in terms of the places.
LEMMA OwnedParts ==
    ASSUME NEW b, TypeOK
    PROVE  Owned(b) = pool[b] + AtInterfaces(b) + Queued(b, procQ) + Queued(b, slowQ) + Working(b)
<1>1. DOMAIN procQ = Processors /\ DOMAIN slowQ = SlowProcessors
  BY DEF TypeOK
<1> QED
  BY <1>1 DEF Owned, AtInterfaces, Queued, Working

\* The counts of an interface are natural numbers.
LEMMA AtInterfaceType ==
    ASSUME NEW b, NEW i \in Interfaces, TypeOK
    PROVE  /\ CountOf(b, slot[i]) \in 0..BatchSize
           /\ CountOf(b, fwQ[i]) \in 0..Len(fwQ[i]) /\ CountOf(b, pkts[i]) \in 0..Len(pkts[i])
           /\ Len(fwQ[i]) \in Nat /\ Len(pkts[i]) \in Nat
           /\ AtInterface(b, i) \in Nat
<1>1. slot[i] \in [1..BatchSize -> Slot] /\ fwQ[i] \in Seq(Buffer) /\ pkts[i] \in Seq(Buffer)
  BY DEF TypeOK, Batch
<1>2. CountOf(b, slot[i]) \in 0..BatchSize
  <2>1. DOMAIN slot[i] = 1..BatchSize /\ BatchSize \in Nat
    BY <1>1, PoolAssumption
  <2> QED
    BY <2>1, CountType
<1>3. CountOf(b, fwQ[i]) \in 0..Len(fwQ[i]) /\ CountOf(b, pkts[i]) \in 0..Len(pkts[i])
  BY <1>1, CountBound
<1>4. Len(fwQ[i]) \in Nat /\ Len(pkts[i]) \in Nat
  BY <1>1
<1> QED
  BY <1>2, <1>3, <1>4 DEF AtInterface

\* A sum over the interfaces is a natural number.
LEMMA AtInterfacesType ==
    ASSUME NEW b, TypeOK
    PROVE  AtInterfaces(b) \in Nat /\ \A i \in Interfaces : AtInterfaces(b) >= AtInterface(b, i)
<1> DEFINE f == [i \in Interfaces |-> AtInterface(b, i)]
<1>1. \A i \in Interfaces : f[i] \in Nat /\ f[i] = AtInterface(b, i)
  BY AtInterfaceType
<1>2. AtInterfaces(b) = SumFunctionOnSet(f, Interfaces)
  BY DEF AtInterfaces, SumFunction
<1> HIDE DEF f
<1>3. SumFunctionOnSet(f, Interfaces) \in Nat
  BY <1>1, FiniteSums, SumType
<1>4. ASSUME NEW i \in Interfaces PROVE SumFunctionOnSet(f, Interfaces) >= f[i]
  BY <1>1, FiniteSums, SumAtLeast
<1> QED
  BY <1>1, <1>2, <1>3, <1>4

\* A step that moves buffers at one interface changes the sum by what it moves.
LEMMA AtInterfacesStep ==
    ASSUME NEW b, TypeOK, TypeOK', NEW i \in Interfaces,
           \A j \in Interfaces : j # i =>
             slot'[j] = slot[j] /\ fwQ'[j] = fwQ[j] /\ pkts'[j] = pkts[j]
    PROVE  AtInterfaces(b)' = AtInterfaces(b) + AtInterface(b, i)' - AtInterface(b, i)
<1> DEFINE f == [j \in Interfaces |-> AtInterface(b, j)]
           g == [j \in Interfaces |-> AtInterface(b, j)']
<1>1. \A j \in Interfaces : AtInterface(b, j) \in Nat
  BY AtInterfaceType
<1>2. \A j \in Interfaces : AtInterface(b, j)' \in Nat
  <2> SUFFICES ASSUME NEW j \in Interfaces PROVE AtInterface(b, j)' \in Nat
    OBVIOUS
  <2>1. slot'[j] \in [1..BatchSize -> Slot] /\ fwQ'[j] \in Seq(Buffer) /\ pkts'[j] \in Seq(Buffer)
    BY DEF TypeOK, Batch
  <2>2. CountOf(b, slot'[j]) \in 0..BatchSize
    <3>1. DOMAIN slot'[j] = 1..BatchSize /\ BatchSize \in Nat
      BY <2>1, PoolAssumption
    <3> QED
      BY <3>1, CountType
  <2>3. CountOf(b, fwQ'[j]) \in 0..Len(fwQ'[j]) /\ CountOf(b, pkts'[j]) \in 0..Len(pkts'[j])
    BY <2>1, CountBound
  <2>4. Len(fwQ'[j]) \in Nat /\ Len(pkts'[j]) \in Nat
    BY <2>1
  <2> QED
    BY <2>2, <2>3, <2>4 DEF AtInterface
<1>3. \A j \in Interfaces : j # i => AtInterface(b, j)' = AtInterface(b, j)
  BY DEF AtInterface
<1>4. /\ AtInterfaces(b) = SumFunctionOnSet(f, Interfaces)
      /\ AtInterfaces(b)' = SumFunctionOnSet(g, Interfaces)
  BY DEF AtInterfaces, SumFunction
<1>5. /\ \A j \in Interfaces : f[j] \in Nat /\ g[j] \in Nat /\ (j # i => g[j] = f[j])
      /\ f[i] = AtInterface(b, i) /\ g[i] = AtInterface(b, i)'
  BY <1>1, <1>2, <1>3
<1> HIDE DEF f, g
<1>6. SumFunctionOnSet(g, Interfaces) = SumFunctionOnSet(f, Interfaces) + g[i] - f[i]
  BY <1>5, FiniteSums, SumUpdate
<1> QED
  BY <1>4, <1>5, <1>6

\* The queues: their sum, and what a change of one of them does to it.
LEMMA QueuedType ==
    ASSUME NEW b, NEW S, IsFiniteSet(S), NEW q \in [S -> Seq(Buffer)]
    PROVE  Queued(b, q) \in Nat /\ \A p \in S : Queued(b, q) >= CountOf(b, q[p])
<1> DEFINE f == [p \in S |-> CountOf(b, q[p])]
<1>1. \A p \in S : f[p] \in Nat /\ f[p] = CountOf(b, q[p])
  <2> SUFFICES ASSUME NEW p \in S PROVE f[p] \in Nat /\ f[p] = CountOf(b, q[p])
    OBVIOUS
  <2>1. q[p] \in Seq(Buffer) /\ Len(q[p]) \in Nat
    OBVIOUS
  <2>2. CountOf(b, q[p]) \in 0..Len(q[p])
    BY <2>1, CountBound
  <2> QED
    BY <2>1, <2>2
<1>2. Queued(b, q) = SumFunctionOnSet(f, S)
  BY DEF Queued, SumFunction
<1> HIDE DEF f
<1>3. SumFunctionOnSet(f, S) \in Nat
  BY <1>1, SumType
<1>4. ASSUME NEW p \in S PROVE SumFunctionOnSet(f, S) >= f[p]
  BY <1>1, SumAtLeast
<1> QED
  BY <1>1, <1>2, <1>3, <1>4

\* What a change of one queue does to the sum over the queues.
LEMMA QueuedStep ==
    ASSUME NEW b, NEW S, IsFiniteSet(S), NEW p \in S
    PROVE  \A q \in [S -> Seq(Buffer)], t \in Seq(Buffer) :
             Queued(b, [q EXCEPT ![p] = t]) = Queued(b, q) + CountOf(b, t) - CountOf(b, q[p])
<1>0. ASSUME NEW d, NEW e, \A y \in S : d[y] \in Nat /\ e[y] \in Nat /\ (y # p => e[y] = d[y])
      PROVE  SumFunctionOnSet(e, S) = SumFunctionOnSet(d, S) + e[p] - d[p]
  BY <1>0, SumUpdate
<1> TAKE q \in [S -> Seq(Buffer)], t \in Seq(Buffer)
<1> DEFINE r == [q EXCEPT ![p] = t]
           f == [o \in S |-> CountOf(b, q[o])]
           g == [o \in S |-> CountOf(b, r[o])]
<1>1. r \in [S -> Seq(Buffer)] /\ r[p] = t /\ \A o \in S : o # p => r[o] = q[o]
  OBVIOUS
<1> HIDE DEF r
<1>2. \A s \in Seq(Buffer) : CountOf(b, s) \in Nat
  <2> SUFFICES ASSUME NEW s \in Seq(Buffer) PROVE CountOf(b, s) \in Nat
    OBVIOUS
  <2>1. CountOf(b, s) \in 0..Len(s) /\ Len(s) \in Nat
    BY CountBound
  <2> QED
    BY <2>1
<1>3. /\ \A o \in S : f[o] \in Nat /\ g[o] \in Nat /\ (o # p => g[o] = f[o])
      /\ f[p] = CountOf(b, q[p]) /\ g[p] = CountOf(b, t)
  BY <1>1, <1>2
<1>4. Queued(b, q) = SumFunctionOnSet(f, S) /\ Queued(b, r) = SumFunctionOnSet(g, S)
  BY <1>1 DEF Queued, SumFunction
<1> HIDE DEF f, g
<1>5. SumFunctionOnSet(g, S) = SumFunctionOnSet(f, S) + g[p] - f[p]
  <2>1. \A o \in S : f[o] \in Nat /\ g[o] \in Nat /\ (o # p => g[o] = f[o])
    BY <1>3
  <2> QED
    BY <1>0, <2>1
<1>6. Queued(b, r) = Queued(b, q) + CountOf(b, t) - CountOf(b, q[p])
  BY <1>3, <1>4, <1>5
<1> QED
  BY <1>6 DEF r

---------------------------------------------------------------------------
(* No buffer is overwritten and no queue exceeds its capacity.                 *)

\* The messages a receiver still has to fill are exactly those it gave away:
\* none of them holds a buffer that would be lost.
Refilling(i) ==
    /\ pc[i] = "collect" =>
        \A k \in Batch : k >= idx[i] /\ k <= BatchSize - numReusable[i] => slot[i][k] = "stale"
    /\ pc[i] = "enqueue" => \A k \in Batch : k < idx[i] => slot[i][k] = "stale"

\* The channels hold at most what they were made for.
QueuesBounded ==
    /\ \A i \in Interfaces : Len(fwQ[i]) <= BatchSize
    /\ \A p \in Processors : Len(procQ[p]) <= processorQueueSize
    /\ \A s \in SlowProcessors : Len(slowQ[s]) <= processorQueueSize

\* Ownership with what conservation needs besides.
Capacity == Ownership /\ (\A i \in Interfaces : Refilling(i)) /\ QueuesBounded

\* All messages are to be filled and all queues empty at the start.
LEMMA InitCapacity == Init => Capacity
<1> SUFFICES ASSUME Init PROVE Capacity
  OBVIOUS
<1>1. \A i \in Interfaces : Refilling(i)
  BY DEF Init, Refilling
<1>2. QueuesBounded
  BY SizeTypes, PoolAssumption DEF Init, QueuesBounded
<1> QED
  BY <1>1, <1>2, InitOwnership DEF Capacity

\* Only the receiver changes its own messages.
LEMMA ReceiverKeepsRefilling ==
    ASSUME Capacity, NEW i \in Interfaces, Receiver(i)
    PROVE  \A j \in Interfaces : Refilling(j)'
<1> USE DEF Batch
<1>1. /\ slot \in [Interfaces -> [Batch -> Slot]] /\ pc \in [Interfaces -> {"collect", "read", "enqueue"}]
      /\ idx \in [Interfaces -> 1..(BatchSize + 1)]
      /\ numReusable \in [Interfaces -> 0..(BatchSize + 1)]
      /\ numPkts \in [Interfaces -> -1..BatchSize]
      /\ BatchSize \in Nat
  BY PoolAssumption DEF Capacity, Ownership, TypeOK
<1>2. idx[i] \in 1..(BatchSize + 1) /\ numReusable[i] \in 0..(BatchSize + 1) /\ numPkts[i] \in -1..BatchSize
  BY <1>1
<1>3. \A j \in Interfaces : Refilling(j)
  BY DEF Capacity
<1>4. BatchOwned(i)
  BY DEF Capacity, Ownership
<1>5. CASE Collect(i)
  <2>1. PICK b \in Buffer : slot' = [slot EXCEPT ![i][idx[i]] = b]
    BY <1>5 DEF Collect
  <2>2. /\ pc' = pc /\ numReusable' = numReusable /\ idx' = [idx EXCEPT ![i] = @ + 1]
        /\ pc[i] = "collect"
    BY <1>5 DEF Collect
  <2>3. \A k \in Batch : k >= idx[i] + 1 => k >= idx[i] /\ k # idx[i]
    BY <1>2
  <2>4. \A k \in Batch : k # idx[i] => slot'[i][k] = slot[i][k]
    BY <1>1, <2>1
  <2>5. Refilling(i)'
    BY <1>1, <1>3, <2>2, <2>3, <2>4 DEF Refilling
  <2>6. \A j \in Interfaces : j # i => Refilling(j)'
    BY <1>1, <1>3, <2>1, <2>2 DEF Refilling
  <2> QED
    BY <2>5, <2>6
<1>6. CASE Collected(i)
  <2>1. /\ pc' = [pc EXCEPT ![i] = "read"] /\ slot' = slot /\ idx' = idx /\ numReusable' = numReusable
    BY <1>6 DEF Collected
  <2> QED
    BY <1>1, <1>3, <2>1 DEF Refilling
<1>7. CASE ReadBatch(i)
  <2>1. PICK n \in -1..BatchSize, err \in BOOLEAN :
          /\ (n <= 0 /\ err) \/ (n >= 0 /\ ~err)
          /\ numReusable' = [numReusable EXCEPT ![i] = BatchSize - n]
          /\ pc' = [pc EXCEPT ![i] = IF err THEN "collect" ELSE "enqueue"]
    BY <1>7 DEF ReadBatch, Reusable
  <2>2. slot' = slot /\ idx' = [idx EXCEPT ![i] = 1]
    BY <1>7 DEF ReadBatch
  <2>3. pc'[i] = "collect" => n <= 0
    BY <1>1, <2>1
  <2>4. \A k \in Batch : ~(k < 1) /\ (n <= 0 => ~(k <= BatchSize - (BatchSize - n)))
    BY <1>1
  <2>5. idx'[i] = 1 /\ numReusable'[i] = BatchSize - n
    BY <1>1, <2>1, <2>2
  <2>6. Refilling(i)'
    BY <2>3, <2>4, <2>5 DEF Refilling
  <2>7. \A j \in Interfaces : j # i => Refilling(j)'
    BY <1>1, <1>3, <2>1, <2>2 DEF Refilling
  <2> QED
    BY <2>6, <2>7
<1>8. CASE Enqueue(i)
  <2>1. /\ slot' = [slot EXCEPT ![i][idx[i]] = "stale"]
        /\ pc' = pc /\ numReusable' = numReusable /\ idx' = [idx EXCEPT ![i] = @ + 1]
        /\ pc[i] = "enqueue" /\ idx[i] <= numPkts[i]
    BY <1>8 DEF Enqueue
  <2>2. idx[i] \in Batch
    BY <1>2, <2>1, PoolAssumption
  <2>3. \A k \in Batch : k < idx[i] + 1 => k < idx[i] \/ k = idx[i]
    BY <1>2
  <2>4. slot'[i][idx[i]] = "stale" /\ \A k \in Batch : k # idx[i] => slot'[i][k] = slot[i][k]
    BY <1>1, <2>1, <2>2
  <2>5. Refilling(i)'
    BY <1>1, <1>3, <2>1, <2>3, <2>4 DEF Refilling
  <2>6. \A j \in Interfaces : j # i => Refilling(j)'
    BY <1>1, <1>3, <2>1 DEF Refilling
  <2> QED
    BY <2>5, <2>6
<1>9. CASE Enqueued(i)
  <2>1. /\ pc' = [pc EXCEPT ![i] = "collect"] /\ idx' = [idx EXCEPT ![i] = 1]
        /\ slot' = slot /\ numReusable' = numReusable
        /\ pc[i] = "enqueue" /\ idx[i] > numPkts[i]
    BY <1>9 DEF Enqueued
  <2>2. numReusable[i] = BatchSize - numPkts[i]
    BY <1>4, <2>1 DEF BatchOwned
  <2>3. \A k \in Batch : k <= BatchSize - numReusable[i] => k < idx[i]
    BY <1>1, <1>2, <2>1, <2>2
  <2>4. Refilling(i)'
    BY <1>1, <1>3, <2>1, <2>3 DEF Refilling
  <2>5. \A j \in Interfaces : j # i => Refilling(j)'
    BY <1>1, <1>3, <2>1 DEF Refilling
  <2> QED
    BY <2>4, <2>5
<1> QED
  BY <1>5, <1>6, <1>7, <1>8, <1>9 DEF Receiver

\* A sender looks for room first.
LEMMA ForwardKeepsBound ==
    ASSUME NEW i \in Interfaces, NEW b \in Buffer, Forward(i, b), fwQ \in [Interfaces -> Seq(Buffer)],
           \A j \in Interfaces : Len(fwQ[j]) <= BatchSize
    PROVE  \A j \in Interfaces : Len(fwQ'[j]) <= BatchSize
<1>1. CASE Len(fwQ[i]) < BatchSize
  <2>1. fwQ' = [fwQ EXCEPT ![i] = Append(fwQ[i], b)]
    BY <1>1 DEF Forward
  <2>2. Len(Append(fwQ[i], b)) <= BatchSize
    <3>1. fwQ[i] \in Seq(Buffer) /\ Len(Append(fwQ[i], b)) = Len(fwQ[i]) + 1 /\ Len(fwQ[i]) \in Nat
      OBVIOUS
    <3> QED
      BY <1>1, <3>1, PoolAssumption
  <2> QED
    BY <2>1, <2>2
<1>2. CASE ~(Len(fwQ[i]) < BatchSize)
  BY <1>2 DEF Forward
<1> QED
  BY <1>1, <1>2

\* No step lets a queue grow beyond its capacity.
LEMMA NextKeepsBounds ==
    ASSUME Capacity, Next
    PROVE  QueuesBounded'
<1>1. /\ procQ \in [Processors -> Seq(Buffer)] /\ slowQ \in [SlowProcessors -> Seq(Buffer)]
      /\ fwQ \in [Interfaces -> Seq(Buffer)] /\ pkts \in [Interfaces -> Seq(Buffer)]
  BY DEF Capacity, Ownership, TypeOK
<1>2. /\ \A i \in Interfaces : Len(fwQ[i]) <= BatchSize
      /\ \A p \in Processors : Len(procQ[p]) <= processorQueueSize
      /\ \A s \in SlowProcessors : Len(slowQ[s]) <= processorQueueSize
  BY DEF Capacity, QueuesBounded
<1>3. ASSUME NEW q \in Seq(Buffer), NEW v, NEW n \in Nat
      PROVE  /\ Len(q) < n => Len(Append(q, v)) <= n
             /\ q # <<>> /\ Len(q) <= n => Len(Tail(q)) <= n
  <2>1. Len(q) \in Nat /\ Len(Append(q, v)) = Len(q) + 1
    OBVIOUS
  <2>2. q # <<>> => Len(Tail(q)) = Len(q) - 1
    OBVIOUS
  <2> QED
    BY <2>1, <2>2
<1>4. processorQueueSize \in Nat /\ BatchSize \in Nat
  BY SizeTypes, PoolAssumption
<1>5. ASSUME NEW i \in Interfaces, Receiver(i) PROVE QueuesBounded'
  <2>1. fwQ' = fwQ /\ slowQ' = slowQ
    BY <1>5 DEF Receiver, Collect, Collected, ReadBatch, Enqueue, Enqueued
  <2>2. \A p \in Processors : Len(procQ'[p]) <= processorQueueSize
    <3>1. \/ procQ' = procQ
          \/ \E p \in Processors : /\ Len(procQ[p]) < processorQueueSize
                                   /\ procQ' = [procQ EXCEPT ![p] = Append(@, "buf")]
      BY <1>5 DEF Receiver, Collect, Collected, ReadBatch, Enqueue, Enqueued
    <3>2. CASE procQ' = procQ
      BY <1>2, <3>2
    <3>3. ASSUME NEW p \in Processors, Len(procQ[p]) < processorQueueSize,
                 procQ' = [procQ EXCEPT ![p] = Append(procQ[p], "buf")]
          PROVE  \A o \in Processors : Len(procQ'[o]) <= processorQueueSize
      <4>1. Len(Append(procQ[p], "buf")) <= processorQueueSize
        BY <1>1, <1>3, <1>4, <3>3
      <4> QED
        BY <1>1, <1>2, <3>3, <4>1
    <3> QED
      BY <3>1, <3>2, <3>3
  <2> QED
    BY <1>2, <2>1, <2>2 DEF QueuesBounded
<1>6. ASSUME NEW i \in Interfaces, readUpTo(i) PROVE QueuesBounded'
  <2>1. PICK k \in Nat : fwQ' = [fwQ EXCEPT ![i] = SubSeq(fwQ[i], k + 1, Len(fwQ[i]))]
    <3> DEFINE n == BatchSize - Len(pkts[i])
               taken == IF Len(fwQ[i]) < n THEN Len(fwQ[i]) ELSE n
    <3>1. fwQ' = [fwQ EXCEPT ![i] = SubSeq(fwQ[i], taken + 1, Len(fwQ[i]))]
      BY <1>6 DEF readUpTo
    <3>2. Len(pkts[i]) \in Nat /\ Len(pkts[i]) <= BatchSize /\ Len(fwQ[i]) \in Nat
      BY <1>1 DEF Capacity, Ownership, RingBounded
    <3>3. taken \in Nat
      BY <1>4, <3>2
    <3> HIDE DEF taken
    <3> QED
      BY <3>1, <3>3
  <2>2. Len(SubSeq(fwQ[i], k + 1, Len(fwQ[i]))) <= BatchSize
    <3>1. fwQ[i] \in Seq(Buffer) /\ Len(fwQ[i]) \in Nat /\ Len(fwQ[i]) <= BatchSize
      BY <1>1, <1>2
    <3>2. Len(SubSeq(fwQ[i], k + 1, Len(fwQ[i]))) <= Len(fwQ[i])
      BY <3>1
    <3> QED
      BY <1>4, <3>1, <3>2
  <2>3. procQ' = procQ /\ slowQ' = slowQ
    BY <1>6 DEF readUpTo
  <2>4. \A j \in Interfaces : Len(fwQ'[j]) <= BatchSize
    BY <1>1, <1>2, <2>1, <2>2
  <2> QED
    BY <1>2, <2>3, <2>4 DEF QueuesBounded
<1>7. ASSUME NEW i \in Interfaces, WriteBatch(i) PROVE QueuesBounded'
  BY <1>2, <1>7 DEF WriteBatch, QueuesBounded
<1>8. ASSUME NEW p \in Processors, TakePacket(p) PROVE QueuesBounded'
  <2>1. Len(Tail(procQ[p])) <= processorQueueSize
    BY <1>1, <1>2, <1>3, <1>4, <1>8 DEF TakePacket
  <2>2. procQ' = [procQ EXCEPT ![p] = Tail(procQ[p])] /\ slowQ' = slowQ /\ fwQ' = fwQ
    BY <1>8 DEF TakePacket
  <2> QED
    BY <1>1, <1>2, <2>1, <2>2 DEF QueuesBounded
<1>9. ASSUME NEW p \in Processors, FinishPacket(p) PROVE QueuesBounded'
  <2>0. procQ' = procQ /\ "buf" \in Buffer
    BY <1>9 DEF FinishPacket, Buffer
  <2>1. CASE ToSlowPath(slowQueueOf(p)) /\ UNCHANGED fwQ
    <3> DEFINE s == slowQueueOf(p)
    <3>1. s \in SlowProcessors
      BY PoolAssumption DEF slowQueueOf, SlowProcessors, Processors
    <3> HIDE DEF s
    <3>2. CASE Len(slowQ[s]) < processorQueueSize
      <4>1. slowQ' = [slowQ EXCEPT ![s] = Append(slowQ[s], "buf")]
        BY <2>1, <3>2 DEF ToSlowPath, s
      <4>2. Len(Append(slowQ[s], "buf")) <= processorQueueSize
        BY <1>1, <1>3, <1>4, <3>1, <3>2
      <4> QED
        BY <1>1, <1>2, <2>0, <2>1, <3>1, <4>1, <4>2 DEF QueuesBounded
    <3>3. CASE ~(Len(slowQ[s]) < processorQueueSize)
      <4>1. slowQ' = slowQ
        BY <2>1, <3>3 DEF ToSlowPath, s
      <4> QED
        BY <1>2, <2>0, <2>1, <4>1 DEF QueuesBounded
    <3> QED
      BY <3>2, <3>3
  <2>2. CASE (\E i \in Interfaces : Forward(i, "buf")) /\ UNCHANGED slowQ
    BY <1>1, <1>2, <2>0, <2>2, ForwardKeepsBound DEF QueuesBounded
  <2>3. CASE returnPacketToPool("buf") /\ UNCHANGED <<fwQ, slowQ>>
    BY <1>2, <2>0, <2>3 DEF QueuesBounded
  <2> QED
    BY <1>9, <2>1, <2>2, <2>3 DEF FinishPacket
<1>10. ASSUME NEW s \in SlowProcessors, TakeSlowPacket(s) PROVE QueuesBounded'
  <2>1. Len(Tail(slowQ[s])) <= processorQueueSize
    BY <1>1, <1>2, <1>3, <1>4, <1>10 DEF TakeSlowPacket
  <2>2. slowQ' = [slowQ EXCEPT ![s] = Tail(slowQ[s])] /\ procQ' = procQ /\ fwQ' = fwQ
    BY <1>10 DEF TakeSlowPacket
  <2> QED
    BY <1>1, <1>2, <2>1, <2>2 DEF QueuesBounded
<1>11. ASSUME NEW s \in SlowProcessors, FinishSlowPacket(s) PROVE QueuesBounded'
  <2>1. procQ' = procQ /\ slowQ' = slowQ /\ "buf" \in Buffer /\ "nil" \in Buffer
    BY <1>11 DEF FinishSlowPacket, Buffer
  <2>2. fwQ' = fwQ \/ \E i \in Interfaces, b \in Buffer : Forward(i, b)
    BY <1>11, <2>1, PoolAssumption DEF FinishSlowPacket
  <2>3. \A j \in Interfaces : Len(fwQ'[j]) <= BatchSize
    BY <1>1, <1>2, <2>2, ForwardKeepsBound
  <2> QED
    BY <1>2, <2>1, <2>3 DEF QueuesBounded
<1> QED
  BY <1>5, <1>6, <1>7, <1>8, <1>9, <1>10, <1>11
     DEF Next, Forwarder, Processor, SlowPathProcessor

\* Every step keeps the invariant.
LEMMA NextKeepsCapacity == Capacity /\ [Next]_vars => Capacity'
<1> SUFFICES ASSUME Capacity, [Next]_vars PROVE Capacity'
  OBVIOUS
<1>0. Ownership'
  BY NextKeepsOwnership DEF Capacity
<1>1. CASE UNCHANGED vars
  BY <1>0, <1>1 DEF vars, Capacity, Refilling, QueuesBounded
<1>2. CASE Next
  <2>1. QueuesBounded'
    BY <1>2, NextKeepsBounds
  <2>2. CASE \E i \in Interfaces : Receiver(i)
    BY <1>0, <2>1, <2>2, ReceiverKeepsRefilling DEF Capacity
  <2>3. CASE UNCHANGED receiver
    BY <1>0, <2>1, <2>3 DEF Capacity, Refilling, receiver
  <2>4. (\E i \in Interfaces : Receiver(i)) \/ UNCHANGED receiver
    BY <1>2 DEF Next, Forwarder, Processor, SlowPathProcessor, readUpTo, WriteBatch,
       TakePacket, FinishPacket, TakeSlowPacket, FinishSlowPacket
  <2> QED
    BY <2>2, <2>3, <2>4
<1> QED
  BY <1>1, <1>2

---------------------------------------------------------------------------
(* Conservation: every step keeps the number of buffers of each kind.          *)

\* The parts of Owned are natural numbers.
LEMMA PartTypes ==
    ASSUME NEW b \in Buffer, TypeOK
    PROVE  /\ pool[b] \in Nat /\ AtInterfaces(b) \in Nat
           /\ Queued(b, procQ) \in Nat /\ Queued(b, slowQ) \in Nat /\ Working(b) \in Nat
           /\ IsFiniteSet(busy) /\ IsFiniteSet(slowBusy)
           /\ Cardinality(busy) \in Nat /\ Cardinality(slowBusy) \in Nat
<1>1. pool[b] \in Nat
  BY SizeTypes DEF TypeOK
<1>2. AtInterfaces(b) \in Nat
  BY AtInterfacesType
<1>3. Queued(b, procQ) \in Nat
  BY FiniteSums, QueuedType DEF TypeOK
<1>4. Queued(b, slowQ) \in Nat
  BY FiniteSums, QueuedType DEF TypeOK
<1>5. IsFiniteSet(busy) /\ IsFiniteSet(slowBusy)
  BY FiniteSums, FS_Subset DEF TypeOK
<1>6. Cardinality(busy) \in Nat /\ Cardinality(slowBusy) \in Nat
  BY <1>5, FS_CardinalityType
<1> QED
  BY <1>1, <1>2, <1>3, <1>4, <1>5, <1>6 DEF Working

\* A buffer that is given back is in the pool.
LEMMA ReturnCount ==
    ASSUME NEW b \in Buffer, NEW v \in Buffer, TypeOK, returnPacketToPool(v)
    PROVE  pool'[b] = pool[b] + One(b, v)
<1>1. pool[b] \in Nat /\ pool[v] \in Nat /\ DOMAIN pool = Buffer
  BY SizeTypes DEF TypeOK
<1>2. pool' = [pool EXCEPT ![v] = pool[v] + 1]
  BY DEF returnPacketToPool
<1> QED
  BY <1>1, <1>2 DEF One

\* Nothing at the interfaces changes.
LEMMA InterfacesUntouched ==
    ASSUME NEW b, UNCHANGED <<slot, fwQ, pkts>>
    PROVE  AtInterfaces(b)' = AtInterfaces(b)
BY DEF AtInterfaces, AtInterface

\* A packet offered to a forwarder is in its queue or back in the pool.
LEMMA ForwardCount ==
    ASSUME NEW b \in Buffer, NEW v \in Buffer, NEW i \in Interfaces, TypeOK, TypeOK',
           Forward(i, v), UNCHANGED <<slot, pkts>>
    PROVE  pool'[b] + AtInterfaces(b)' = pool[b] + AtInterfaces(b) + One(b, v)
<1>0. pool[b] \in Nat /\ AtInterfaces(b) \in Nat /\ One(b, v) \in Nat
  BY PartTypes DEF One
<1>1. CASE Len(fwQ[i]) < BatchSize
  <2>1. fwQ' = [fwQ EXCEPT ![i] = Append(fwQ[i], v)] /\ pool' = pool
    BY <1>1 DEF Forward
  <2>2. fwQ \in [Interfaces -> Seq(Buffer)] /\ fwQ[i] \in Seq(Buffer)
    BY DEF TypeOK
  <2>3. \A j \in Interfaces : j # i => slot'[j] = slot[j] /\ fwQ'[j] = fwQ[j] /\ pkts'[j] = pkts[j]
    BY <2>1, <2>2
  <2>4. AtInterfaces(b)' = AtInterfaces(b) + AtInterface(b, i)' - AtInterface(b, i)
    BY <2>3, AtInterfacesStep
  <2>5. fwQ'[i] = Append(fwQ[i], v)
    BY <2>1, <2>2
  <2>6. CountOf(b, Append(fwQ[i], v)) = CountOf(b, fwQ[i]) + One(b, v)
    BY <2>2, CountQueue
  <2>7. /\ CountOf(b, slot[i]) \in Nat /\ CountOf(b, fwQ[i]) \in Nat /\ CountOf(b, pkts[i]) \in Nat
    BY AtInterfaceType, PoolAssumption
  <2>8. AtInterface(b, i)' = CountOf(b, slot[i]) + CountOf(b, fwQ'[i]) + CountOf(b, pkts[i])
    BY DEF AtInterface
  <2>9. AtInterface(b, i) = CountOf(b, slot[i]) + CountOf(b, fwQ[i]) + CountOf(b, pkts[i])
    BY DEF AtInterface
  <2>10. AtInterface(b, i)' = AtInterface(b, i) + One(b, v) /\ AtInterface(b, i) \in Nat
    BY <1>0, <2>5, <2>6, <2>7, <2>8, <2>9
  <2> QED
    BY <1>0, <2>1, <2>4, <2>10
<1>2. CASE ~(Len(fwQ[i]) < BatchSize)
  <2>1. returnPacketToPool(v) /\ fwQ' = fwQ
    BY <1>2 DEF Forward
  <2>2. pool'[b] = pool[b] + One(b, v)
    BY <2>1, ReturnCount
  <2>3. AtInterfaces(b)' = AtInterfaces(b)
    BY <2>1, InterfacesUntouched
  <2> QED
    BY <1>0, <2>2, <2>3
<1> QED
  BY <1>1, <1>2

\* The receiver takes a buffer for a message that has none, and gives one away.
LEMMA ReceiverConserves ==
    ASSUME Capacity, Capacity', NEW i \in Interfaces, Receiver(i), NEW b \in Buffer
    PROVE  Owned(b)' = Owned(b)
<1>1. TypeOK /\ TypeOK' /\ BatchOwned(i) /\ Refilling(i)
  BY DEF Capacity, Ownership
<1>2. /\ pool[b] \in Nat /\ AtInterfaces(b) \in Nat
      /\ Queued(b, procQ) \in Nat /\ Queued(b, slowQ) \in Nat /\ Working(b) \in Nat
  BY <1>1, PartTypes
<1>3. Owned(b) = pool[b] + AtInterfaces(b) + Queued(b, procQ) + Queued(b, slowQ) + Working(b)
  BY <1>1, OwnedParts
<1>4. Owned(b)' = pool'[b] + AtInterfaces(b)' + Queued(b, procQ') + Queued(b, slowQ') + Working(b)'
  <2>1. DOMAIN procQ' = Processors /\ DOMAIN slowQ' = SlowProcessors
    BY <1>1 DEF TypeOK
  <2> QED
    BY <2>1 DEF Owned, AtInterfaces, Queued, Working
<1>5. slowQ' = slowQ /\ Working(b)' = Working(b) /\ fwQ' = fwQ /\ pkts' = pkts
  BY DEF Receiver, Collect, Collected, ReadBatch, Enqueue, Enqueued, Working
<1>6. /\ slot \in [Interfaces -> [Batch -> Slot]] /\ slot[i] \in [Batch -> Slot]
      /\ idx[i] \in 1..(BatchSize + 1) /\ BatchSize \in Nat
      /\ numReusable[i] \in 0..(BatchSize + 1) /\ numPkts[i] \in -1..BatchSize
      /\ pool \in [Buffer -> 0..poolSize] /\ procQ \in [Processors -> Seq(Buffer)]
  BY <1>1, PoolAssumption DEF TypeOK
<1>7. ASSUME NEW v, idx[i] \in Batch, slot' = [slot EXCEPT ![i][idx[i]] = v]
      PROVE  AtInterfaces(b)' = AtInterfaces(b) + One(b, v) - One(b, slot[i][idx[i]])
  <2> DEFINE k == idx[i]
             f == slot[i]
  <2>1. slot'[i] = [f EXCEPT ![k] = v] /\ \A j \in Interfaces : j # i => slot'[j] = slot[j]
    BY <1>6, <1>7
  <2>2. f = [j \in 1..BatchSize |-> f[j]] /\ k \in 1..BatchSize
    BY <1>6, <1>7 DEF Batch
  <2> HIDE DEF k, f
  <2>3. CountOf(b, [f EXCEPT ![k] = v]) = CountOf(b, f) + One(b, v) - One(b, f[k])
    BY <1>6, <2>2, CountUpdate
  <2>4. AtInterfaces(b)' = AtInterfaces(b) + AtInterface(b, i)' - AtInterface(b, i)
    BY <1>1, <1>5, <2>1, AtInterfacesStep
  <2>5. /\ CountOf(b, slot[i]) \in Nat /\ CountOf(b, fwQ[i]) \in Nat /\ CountOf(b, pkts[i]) \in Nat
    BY <1>1, AtInterfaceType, PoolAssumption
  <2>6. AtInterface(b, i)' = CountOf(b, slot'[i]) + CountOf(b, fwQ[i]) + CountOf(b, pkts[i])
    BY <1>5 DEF AtInterface
  <2>7. AtInterface(b, i) = CountOf(b, slot[i]) + CountOf(b, fwQ[i]) + CountOf(b, pkts[i])
    BY DEF AtInterface
  <2>8. One(b, v) \in Nat /\ One(b, f[k]) \in Nat
    BY DEF One
  <2>9. CountOf(b, slot'[i]) = CountOf(b, slot[i]) + One(b, v) - One(b, f[k])
    BY <2>1, <2>3 DEF f
  <2>10. AtInterface(b, i)' = AtInterface(b, i) + One(b, v) - One(b, f[k]) /\ AtInterface(b, i) \in Nat
    BY <2>5, <2>6, <2>7, <2>8, <2>9
  <2>11. AtInterfaces(b)' = AtInterfaces(b) + One(b, v) - One(b, f[k])
    BY <1>2, <2>4, <2>8, <2>10
  <2> QED
    BY <2>11 DEF f, k
<1>8. One(b, "stale") = 0 /\ \A v : One(b, v) \in Nat
  BY DEF One, Buffer
<1>9. CASE Collect(i)
  <2>1. PICK v \in Buffer : /\ pool[v] > 0
                            /\ pool' = [pool EXCEPT ![v] = pool[v] - 1]
                            /\ slot' = [slot EXCEPT ![i][idx[i]] = v]
    BY <1>9 DEF Collect
  <2>2. pc[i] = "collect" /\ idx[i] <= BatchSize - numReusable[i] /\ procQ' = procQ
    BY <1>9 DEF Collect
  <2>3. idx[i] \in Batch
    BY <1>6, <2>2 DEF Batch
  <2>4. slot[i][idx[i]] = "stale"
    <3>1. idx[i] >= idx[i]
      BY <1>6
    <3> QED
      BY <1>1, <2>2, <2>3, <3>1 DEF Refilling
  <2>5. AtInterfaces(b)' = AtInterfaces(b) + One(b, v)
    <3>1. AtInterfaces(b)' = AtInterfaces(b) + One(b, v) - One(b, "stale")
      BY <1>7, <2>1, <2>3, <2>4
    <3> QED
      BY <1>2, <1>8, <3>1
  <2>6. pool'[b] = pool[b] - One(b, v)
    BY <1>2, <1>6, <2>1 DEF One
  <2> QED
    BY <1>2, <1>3, <1>4, <1>5, <1>8, <2>2, <2>5, <2>6
<1>10. CASE Collected(i) \/ ReadBatch(i) \/ Enqueued(i)
  <2>1. pool' = pool /\ slot' = slot /\ procQ' = procQ
    BY <1>10 DEF Collected, ReadBatch, Enqueued
  <2>2. AtInterfaces(b)' = AtInterfaces(b)
    BY <1>5, <2>1, InterfacesUntouched
  <2> QED
    BY <1>3, <1>4, <1>5, <2>1, <2>2
<1>11. CASE Enqueue(i)
  <2> DEFINE v == slot[i][idx[i]]
  <2>1. pc[i] = "enqueue" /\ idx[i] <= numPkts[i] /\ slot' = [slot EXCEPT ![i][idx[i]] = "stale"]
    BY <1>11 DEF Enqueue
  <2>2. idx[i] \in Batch
    BY <1>6, <2>1 DEF Batch
  <2>3. v \in Buffer
    <3>1. v \in Slot
      BY <1>6, <2>2
    <3>2. v # "stale"
      <4>1. idx[i] >= idx[i]
        BY <1>6
      <4> QED
        BY <1>1, <2>1, <2>2, <4>1 DEF BatchOwned
    <3> QED
      BY <3>1, <3>2 DEF Slot
  <2>4. AtInterfaces(b)' = AtInterfaces(b) - One(b, v)
    <3>1. AtInterfaces(b)' = AtInterfaces(b) + One(b, "stale") - One(b, v)
      BY <1>7, <2>1, <2>2
    <3> QED
      BY <1>2, <1>8, <3>1
  <2>5. \/ returnPacketToPool(v) /\ procQ' = procQ
        \/ \E p \in Processors : procQ' = [procQ EXCEPT ![p] = Append(procQ[p], v)] /\ pool' = pool
    BY <1>11 DEF Enqueue
  <2> HIDE DEF v
  <2>6. pool'[b] + Queued(b, procQ') = pool[b] + Queued(b, procQ) + One(b, v)
    <3>1. CASE returnPacketToPool(v) /\ procQ' = procQ
      <4>1. pool'[b] = pool[b] + One(b, v)
        BY <1>1, <2>3, <3>1, ReturnCount
      <4> QED
        BY <1>2, <1>8, <3>1, <4>1
    <3>2. ASSUME NEW p \in Processors, procQ' = [procQ EXCEPT ![p] = Append(procQ[p], v)], pool' = pool
          PROVE  pool'[b] + Queued(b, procQ') = pool[b] + Queued(b, procQ) + One(b, v)
      <4>1. procQ[p] \in Seq(Buffer) /\ Append(procQ[p], v) \in Seq(Buffer)
        BY <1>6, <2>3
      <4>2. CountOf(b, Append(procQ[p], v)) = CountOf(b, procQ[p]) + One(b, v)
        BY <2>3, <4>1, CountQueue
      <4>3. Queued(b, procQ') = Queued(b, procQ) + CountOf(b, Append(procQ[p], v)) - CountOf(b, procQ[p])
        BY <1>6, <3>2, <4>1, FiniteSums, QueuedStep, ZenonT(30)
      <4>4. CountOf(b, procQ[p]) \in Nat
        BY <4>1, CountBound
      <4> QED
        BY <1>2, <1>8, <3>2, <4>2, <4>3, <4>4
    <3> QED
      BY <2>5, <3>1, <3>2
  <2>7. pool'[b] \in Nat /\ Queued(b, procQ') \in Nat
    <3>1. pool'[b] \in Nat
      BY <1>1, SizeTypes DEF TypeOK
    <3>2. procQ' \in [Processors -> Seq(Buffer)]
      BY <1>1 DEF TypeOK
    <3> QED
      BY <3>1, <3>2, FiniteSums, QueuedType
  <2> QED
    BY <1>2, <1>3, <1>4, <1>5, <1>8, <2>4, <2>6, <2>7
<1> QED
  BY <1>9, <1>10, <1>11 DEF Receiver

\* Owned after a step, in terms of the places.
LEMMA OwnedPartsNext ==
    ASSUME NEW b \in Buffer, TypeOK'
    PROVE  /\ Owned(b)' = pool'[b] + AtInterfaces(b)' + Queued(b, procQ') + Queued(b, slowQ') + Working(b)'
           /\ pool'[b] \in Nat /\ AtInterfaces(b)' \in Nat
           /\ Queued(b, procQ') \in Nat /\ Queued(b, slowQ') \in Nat
<1>1. /\ procQ' \in [Processors -> Seq(Buffer)] /\ slowQ' \in [SlowProcessors -> Seq(Buffer)]
      /\ DOMAIN procQ' = Processors /\ DOMAIN slowQ' = SlowProcessors
  BY DEF TypeOK
<1>2. Owned(b)' = pool'[b] + AtInterfaces(b)' + Queued(b, procQ') + Queued(b, slowQ') + Working(b)'
  BY <1>1 DEF Owned, AtInterfaces, Queued, Working
<1>3. pool'[b] \in Nat
  BY SizeTypes DEF TypeOK
<1>4. Queued(b, procQ') \in Nat /\ Queued(b, slowQ') \in Nat
  BY <1>1, FiniteSums, QueuedType
<1>5. (AtInterfaces(b) \in Nat)'
  BY AtInterfacesType, PTL
<1> QED
  BY <1>2, <1>3, <1>4, <1>5

\* A sequence has a natural number of buffers of a kind.
LEMMA CountNat ==
    ASSUME NEW b PROVE \A s \in Seq(Buffer) : CountOf(b, s) \in Nat
<1> SUFFICES ASSUME NEW s \in Seq(Buffer) PROVE CountOf(b, s) \in Nat
  OBVIOUS
<1>1. CountOf(b, s) \in 0..Len(s) /\ Len(s) \in Nat
  BY CountBound
<1> QED
  BY <1>1

\* Without odd alerts no queue holds a slice without memory.
LEMMA HeadIsBuffer ==
    ASSUME TypeOK, Owned("nil") = 0
    PROVE  /\ \A p \in Processors : procQ[p] # <<>> => Head(procQ[p]) = "buf"
           /\ \A s \in SlowProcessors : slowQ[s] # <<>> => Head(slowQ[s]) = "buf"
           /\ pool["nil"] = 0
<1>1. "nil" \in Buffer
  BY DEF Buffer
<1>2. /\ pool["nil"] \in Nat /\ AtInterfaces("nil") \in Nat
      /\ Queued("nil", procQ) \in Nat /\ Queued("nil", slowQ) \in Nat /\ Working("nil") \in Nat
  BY <1>1, PartTypes
<1>3. Owned("nil") = pool["nil"] + AtInterfaces("nil") + Queued("nil", procQ) + Queued("nil", slowQ) + Working("nil")
  BY OwnedParts
<1>4. Queued("nil", procQ) = 0 /\ Queued("nil", slowQ) = 0 /\ pool["nil"] = 0
  <2>1. ASSUME NEW k \in Nat, NEW l \in Nat, NEW m \in Nat, NEW n \in Nat, NEW o \in Nat,
               k + l + m + n + o = 0
        PROVE  m = 0 /\ n = 0 /\ k = 0
    BY <2>1
  <2>2. pool["nil"] + AtInterfaces("nil") + Queued("nil", procQ) + Queued("nil", slowQ) + Working("nil") = 0
    BY <1>3, Zenon
  <2> QED
    BY ONLY <1>2, <2>1, <2>2, Zenon
<1>5. procQ \in [Processors -> Seq(Buffer)] /\ slowQ \in [SlowProcessors -> Seq(Buffer)]
  BY DEF TypeOK
<1>6. ASSUME NEW s \in Seq(Buffer), CountOf("nil", s) <= 0, s # <<>> PROVE Head(s) = "buf"
  <2>1. CountOf("nil", s) = One("nil", Head(s)) + CountOf("nil", Tail(s))
    BY <1>1, <1>6, CountQueue
  <2>2. Tail(s) \in Seq(Buffer) /\ Head(s) \in Buffer
    BY <1>6
  <2>3. CountOf("nil", Tail(s)) \in Nat
    BY <2>2, CountNat
  <2>4. One("nil", Head(s)) \in Nat
    BY DEF One
  <2>5. One("nil", Head(s)) = 0
    BY <1>6, <2>1, <2>3, <2>4
  <2> QED
    BY <2>2, <2>5 DEF One, Buffer
<1>7. \A p \in Processors : CountOf("nil", procQ[p]) <= 0
  BY <1>4, <1>5, FiniteSums, QueuedType
<1>8. \A s \in SlowProcessors : CountOf("nil", slowQ[s]) <= 0
  BY <1>4, <1>5, FiniteSums, QueuedType
<1> QED
  BY <1>4, <1>5, <1>6, <1>7, <1>8

\* A processor starts or ends its work on one buffer.
LEMMA WorkingStep ==
    ASSUME NEW b \in Buffer, TypeOK
    PROVE  /\ \A p : p \notin busy /\ busy' = busy \cup {p} /\ slowBusy' = slowBusy =>
                Working(b)' = Working(b) + One(b, "buf")
           /\ \A p : p \in busy /\ busy' = busy \ {p} /\ slowBusy' = slowBusy =>
                Working(b)' = Working(b) - One(b, "buf")
           /\ \A s : s \notin slowBusy /\ slowBusy' = slowBusy \cup {s} /\ busy' = busy =>
                Working(b)' = Working(b) + One(b, "buf")
           /\ \A s : s \in slowBusy /\ slowBusy' = slowBusy \ {s} /\ busy' = busy =>
                Working(b)' = Working(b) - One(b, "buf")
<1>1. /\ IsFiniteSet(busy) /\ IsFiniteSet(slowBusy)
      /\ Cardinality(busy) \in Nat /\ Cardinality(slowBusy) \in Nat
  BY PartTypes
<1>2. ASSUME NEW T, IsFiniteSet(T), NEW p
      PROVE  /\ p \notin T => Cardinality(T \cup {p}) = Cardinality(T) + 1
             /\ p \in T => Cardinality(T \ {p}) = Cardinality(T) - 1
  BY <1>2, FS_AddElement, FS_RemoveElement
<1>3. Working(b)' = IF b = "buf" THEN Cardinality(busy') + Cardinality(slowBusy') ELSE 0
  BY DEF Working
<1>4. ASSUME NEW p, p \notin busy, busy' = busy \cup {p}, slowBusy' = slowBusy
      PROVE  Working(b)' = Working(b) + One(b, "buf")
  BY <1>1, <1>2, <1>3, <1>4 DEF Working, One
<1>5. ASSUME NEW p, p \in busy, busy' = busy \ {p}, slowBusy' = slowBusy
      PROVE  Working(b)' = Working(b) - One(b, "buf")
  <2>1. Cardinality(busy') = Cardinality(busy) - 1
    BY <1>1, <1>2, <1>5
  <2>2. CASE b = "buf"
    BY <1>1, <1>3, <1>5, <2>1, <2>2 DEF Working, One
  <2>3. CASE b # "buf"
    BY <1>3, <2>3 DEF Working, One
  <2> QED
    BY <2>2, <2>3
<1>6. ASSUME NEW s, s \notin slowBusy, slowBusy' = slowBusy \cup {s}, busy' = busy
      PROVE  Working(b)' = Working(b) + One(b, "buf")
  BY <1>1, <1>2, <1>3, <1>6 DEF Working, One
<1>7. ASSUME NEW s, s \in slowBusy, slowBusy' = slowBusy \ {s}, busy' = busy
      PROVE  Working(b)' = Working(b) - One(b, "buf")
  <2>1. Cardinality(slowBusy') = Cardinality(slowBusy) - 1
    BY <1>1, <1>2, <1>7
  <2>2. CASE b = "buf"
    BY <1>1, <1>3, <1>7, <2>1, <2>2 DEF Working, One
  <2>3. CASE b # "buf"
    BY <1>3, <2>3 DEF Working, One
  <2> QED
    BY <2>2, <2>3
<1> QED
  BY <1>4, <1>5, <1>6, <1>7

\* What a queue loses when its head is received.
LEMMA ReceiveCount ==
    ASSUME NEW b, NEW S, IsFiniteSet(S), NEW p \in S
    PROVE  \A q \in [S -> Seq(Buffer)] :
             q[p] # <<>> => Queued(b, [q EXCEPT ![p] = Tail(q[p])]) = Queued(b, q) - One(b, Head(q[p]))
<1> SUFFICES ASSUME NEW q \in [S -> Seq(Buffer)], q[p] # <<>>
             PROVE  Queued(b, [q EXCEPT ![p] = Tail(q[p])]) = Queued(b, q) - One(b, Head(q[p]))
  OBVIOUS
<1>1. q[p] \in Seq(Buffer) /\ Tail(q[p]) \in Seq(Buffer)
  OBVIOUS
<1>2. CountOf(b, q[p]) = One(b, Head(q[p])) + CountOf(b, Tail(q[p]))
  <2>1. "buf" \in Buffer
    BY DEF Buffer
  <2> QED
    BY <1>1, <2>1, CountQueue
<1>3. Queued(b, [q EXCEPT ![p] = Tail(q[p])]) = Queued(b, q) + CountOf(b, Tail(q[p])) - CountOf(b, q[p])
  <2> DEFINE t == Tail(q[p])
  <2>1. t \in Seq(Buffer)
    BY <1>1
  <2> HIDE DEF t
  <2>2. Queued(b, [q EXCEPT ![p] = t]) = Queued(b, q) + CountOf(b, t) - CountOf(b, q[p])
    BY <2>1, QueuedStep
  <2> QED
    BY <2>2 DEF t
<1>4. CountOf(b, Tail(q[p])) \in Nat /\ One(b, Head(q[p])) \in Nat /\ Queued(b, q) \in Nat
  <2>1. CountOf(b, Tail(q[p])) \in Nat
    BY <1>1, CountNat
  <2>2. Queued(b, q) \in Nat
    BY QueuedType
  <2> QED
    BY <2>1, <2>2 DEF One
<1> QED
  BY <1>2, <1>3, <1>4

\* A processor takes one buffer from its queue and gives one away.
LEMMA ProcessorConserves ==
    ASSUME TypeOK, TypeOK', Owned("nil") = 0, NEW p \in Processors, Processor(p), NEW b \in Buffer
    PROVE  Owned(b)' = Owned(b)
<1>1. /\ pool[b] \in Nat /\ AtInterfaces(b) \in Nat
      /\ Queued(b, procQ) \in Nat /\ Queued(b, slowQ) \in Nat /\ Working(b) \in Nat
  BY PartTypes
<1>2. Owned(b) = pool[b] + AtInterfaces(b) + Queued(b, procQ) + Queued(b, slowQ) + Working(b)
  BY OwnedParts
<1>3. /\ Owned(b)' = pool'[b] + AtInterfaces(b)' + Queued(b, procQ') + Queued(b, slowQ') + Working(b)'
      /\ pool'[b] \in Nat /\ AtInterfaces(b)' \in Nat
      /\ Queued(b, procQ') \in Nat /\ Queued(b, slowQ') \in Nat
  BY OwnedPartsNext
<1>4. One(b, "buf") \in Nat /\ "buf" \in Buffer
  BY DEF One, Buffer
<1>5. slot' = slot /\ pkts' = pkts /\ slowBusy' = slowBusy
  BY DEF Processor, TakePacket, FinishPacket, receiver
<1>6. CASE TakePacket(p)
  <2>1. /\ p \notin busy /\ procQ[p] # <<>> /\ busy' = busy \cup {p}
        /\ procQ' = [procQ EXCEPT ![p] = Tail(procQ[p])]
        /\ pool' = pool /\ slowQ' = slowQ /\ fwQ' = fwQ
    BY <1>6 DEF TakePacket
  <2>2. Working(b)' = Working(b) + One(b, "buf")
    BY <1>5, <2>1, WorkingStep
  <2>3. Head(procQ[p]) = "buf"
    BY <2>1, HeadIsBuffer
  <2>4. Queued(b, procQ') = Queued(b, procQ) - One(b, "buf")
    <3>1. Queued(b, procQ') = Queued(b, procQ) - One(b, Head(procQ[p]))
      BY <2>1, FiniteSums, ReceiveCount DEF TypeOK
    <3> QED
      BY <2>3, <3>1
  <2>5. AtInterfaces(b)' = AtInterfaces(b)
    BY <1>5, <2>1, InterfacesUntouched
  <2> QED
    BY <1>1, <1>2, <1>3, <1>4, <2>1, <2>2, <2>4, <2>5
<1>7. CASE FinishPacket(p)
  <2>1. p \in busy /\ busy' = busy \ {p} /\ procQ' = procQ
    BY <1>7 DEF FinishPacket
  <2>2. Working(b)' = Working(b) - One(b, "buf")
    BY <1>5, <2>1, WorkingStep
  <2>3. CASE ToSlowPath(slowQueueOf(p)) /\ UNCHANGED fwQ
    <3> DEFINE s == slowQueueOf(p)
    <3>1. s \in SlowProcessors
      BY PoolAssumption DEF slowQueueOf, SlowProcessors, Processors
    <3>2. ToSlowPath(s)
      BY <2>3
    <3> HIDE DEF s
    <3>3. AtInterfaces(b)' = AtInterfaces(b)
      BY <1>5, <2>3, InterfacesUntouched
    <3>4. CASE Len(slowQ[s]) < processorQueueSize
      <4>1. slowQ' = [slowQ EXCEPT ![s] = Append(slowQ[s], "buf")] /\ pool' = pool
        BY <3>2, <3>4 DEF ToSlowPath
      <4>2. slowQ \in [SlowProcessors -> Seq(Buffer)]
        BY DEF TypeOK
      <4>3. slowQ[s] \in Seq(Buffer) /\ Append(slowQ[s], "buf") \in Seq(Buffer)
        BY <1>4, <3>1, <4>2
      <4>4. CountOf(b, Append(slowQ[s], "buf")) = CountOf(b, slowQ[s]) + One(b, "buf")
        BY <1>4, <4>3, CountQueue
      <4>5. Queued(b, slowQ') = Queued(b, slowQ) + CountOf(b, Append(slowQ[s], "buf")) - CountOf(b, slowQ[s])
        BY <3>1, <4>1, <4>2, <4>3, FiniteSums, QueuedStep, ZenonT(30)
      <4>6. CountOf(b, slowQ[s]) \in Nat
        BY <4>3, CountBound
      <4>7. Queued(b, slowQ') = Queued(b, slowQ) + One(b, "buf")
        BY <1>1, <1>4, <4>4, <4>5, <4>6
      <4> QED
        BY <1>1, <1>2, <1>3, <1>4, <2>1, <2>2, <3>3, <4>1, <4>7
    <3>5. CASE ~(Len(slowQ[s]) < processorQueueSize)
      <4>1. returnPacketToPool("buf") /\ slowQ' = slowQ
        BY <3>2, <3>5 DEF ToSlowPath
      <4>2. pool'[b] = pool[b] + One(b, "buf")
        BY <1>4, <4>1, ReturnCount
      <4> QED
        BY <1>1, <1>2, <1>3, <1>4, <2>1, <2>2, <3>3, <4>1, <4>2
    <3> QED
      BY <3>4, <3>5
  <2>4. ASSUME NEW i \in Interfaces, Forward(i, "buf"), slowQ' = slowQ PROVE Owned(b)' = Owned(b)
    <3>1. pool'[b] + AtInterfaces(b)' = pool[b] + AtInterfaces(b) + One(b, "buf")
      BY <1>4, <1>5, <2>4, ForwardCount
    <3> QED
      BY <1>1, <1>2, <1>3, <1>4, <2>1, <2>2, <2>4, <3>1
  <2>5. CASE returnPacketToPool("buf") /\ UNCHANGED <<fwQ, slowQ>>
    <3>1. pool'[b] = pool[b] + One(b, "buf")
      BY <1>4, <2>5, ReturnCount
    <3>2. AtInterfaces(b)' = AtInterfaces(b)
      BY <1>5, <2>5, InterfacesUntouched
    <3> QED
      BY <1>1, <1>2, <1>3, <1>4, <2>1, <2>2, <2>5, <3>1, <3>2
  <2> QED
    BY <1>7, <2>3, <2>4, <2>5 DEF FinishPacket
<1> QED
  BY <1>6, <1>7 DEF Processor

\* So does a slow-path processor, unless an odd alert gives it nothing to send.
LEMMA SlowPathConserves ==
    ASSUME ~OddAlerts, TypeOK, TypeOK', Owned("nil") = 0, NEW s \in SlowProcessors,
           SlowPathProcessor(s), NEW b \in Buffer
    PROVE  Owned(b)' = Owned(b)
<1>1. /\ pool[b] \in Nat /\ AtInterfaces(b) \in Nat
      /\ Queued(b, procQ) \in Nat /\ Queued(b, slowQ) \in Nat /\ Working(b) \in Nat
  BY PartTypes
<1>2. Owned(b) = pool[b] + AtInterfaces(b) + Queued(b, procQ) + Queued(b, slowQ) + Working(b)
  BY OwnedParts
<1>3. /\ Owned(b)' = pool'[b] + AtInterfaces(b)' + Queued(b, procQ') + Queued(b, slowQ') + Working(b)'
      /\ pool'[b] \in Nat /\ AtInterfaces(b)' \in Nat
      /\ Queued(b, procQ') \in Nat /\ Queued(b, slowQ') \in Nat
  BY OwnedPartsNext
<1>4. One(b, "buf") \in Nat /\ "buf" \in Buffer
  BY DEF One, Buffer
<1>5. slot' = slot /\ pkts' = pkts /\ busy' = busy /\ procQ' = procQ
  BY DEF SlowPathProcessor, TakeSlowPacket, FinishSlowPacket, receiver
<1>6. CASE TakeSlowPacket(s)
  <2>1. /\ s \notin slowBusy /\ slowQ[s] # <<>> /\ slowBusy' = slowBusy \cup {s}
        /\ slowQ' = [slowQ EXCEPT ![s] = Tail(slowQ[s])]
        /\ pool' = pool /\ fwQ' = fwQ
    BY <1>6 DEF TakeSlowPacket
  <2>2. Working(b)' = Working(b) + One(b, "buf")
    BY <1>5, <2>1, WorkingStep
  <2>3. Head(slowQ[s]) = "buf"
    BY <2>1, HeadIsBuffer
  <2>4. Queued(b, slowQ') = Queued(b, slowQ) - One(b, "buf")
    <3>1. Queued(b, slowQ') = Queued(b, slowQ) - One(b, Head(slowQ[s]))
      BY <2>1, FiniteSums, ReceiveCount DEF TypeOK
    <3> QED
      BY <2>3, <3>1
  <2>5. AtInterfaces(b)' = AtInterfaces(b)
    BY <1>5, <2>1, InterfacesUntouched
  <2> QED
    BY <1>1, <1>2, <1>3, <1>4, <1>5, <2>1, <2>2, <2>4, <2>5
<1>7. CASE FinishSlowPacket(s)
  <2>1. s \in slowBusy /\ slowBusy' = slowBusy \ {s} /\ slowQ' = slowQ
    BY <1>7 DEF FinishSlowPacket
  <2>2. Working(b)' = Working(b) - One(b, "buf")
    BY <1>5, <2>1, WorkingStep
  <2>3. ASSUME NEW i \in Interfaces, Forward(i, "buf") PROVE Owned(b)' = Owned(b)
    <3>1. pool'[b] + AtInterfaces(b)' = pool[b] + AtInterfaces(b) + One(b, "buf")
      BY <1>4, <1>5, <2>3, ForwardCount
    <3> QED
      BY <1>1, <1>2, <1>3, <1>4, <1>5, <2>1, <2>2, <3>1
  <2>4. CASE returnPacketToPool("buf") /\ UNCHANGED fwQ
    <3>1. pool'[b] = pool[b] + One(b, "buf")
      BY <1>4, <2>4, ReturnCount
    <3>2. AtInterfaces(b)' = AtInterfaces(b)
      BY <1>5, <2>4, InterfacesUntouched
    <3> QED
      BY <1>1, <1>2, <1>3, <1>4, <1>5, <2>1, <2>2, <3>1, <3>2
  <2> QED
    BY <1>7, <2>3, <2>4 DEF FinishSlowPacket
<1> QED
  BY <1>6, <1>7 DEF SlowPathProcessor

\* A forwarder moves packets from its queue to what it writes, and what it wrote
\* or dropped back to the pool.
LEMMA ForwarderConserves ==
    ASSUME TypeOK, TypeOK', RingBounded, NEW i \in Interfaces, Forwarder(i), NEW b \in Buffer
    PROVE  Owned(b)' = Owned(b)
<1>1. /\ pool[b] \in Nat /\ AtInterfaces(b) \in Nat
      /\ Queued(b, procQ) \in Nat /\ Queued(b, slowQ) \in Nat /\ Working(b) \in Nat
  BY PartTypes
<1>2. Owned(b) = pool[b] + AtInterfaces(b) + Queued(b, procQ) + Queued(b, slowQ) + Working(b)
  BY OwnedParts
<1>3. /\ Owned(b)' = pool'[b] + AtInterfaces(b)' + Queued(b, procQ') + Queued(b, slowQ') + Working(b)'
      /\ pool'[b] \in Nat /\ AtInterfaces(b)' \in Nat
  BY OwnedPartsNext
<1>4. slot' = slot /\ procQ' = procQ /\ slowQ' = slowQ /\ Working(b)' = Working(b)
  BY DEF Forwarder, readUpTo, WriteBatch, receiver, Working
<1>5. /\ fwQ \in [Interfaces -> Seq(Buffer)] /\ pkts \in [Interfaces -> Seq(Buffer)]
      /\ fwQ[i] \in Seq(Buffer) /\ pkts[i] \in Seq(Buffer)
      /\ Len(fwQ[i]) \in Nat /\ Len(pkts[i]) \in Nat /\ Len(pkts[i]) <= BatchSize
      /\ BatchSize \in Nat
  <2>1. fwQ \in [Interfaces -> Seq(Buffer)] /\ pkts \in [Interfaces -> Seq(Buffer)]
    BY DEF TypeOK
  <2>2. fwQ[i] \in Seq(Buffer) /\ pkts[i] \in Seq(Buffer)
    BY <2>1
  <2>3. Len(fwQ[i]) \in Nat /\ Len(pkts[i]) \in Nat
    BY <2>2
  <2>4. Len(pkts[i]) <= BatchSize /\ BatchSize \in Nat
    BY PoolAssumption DEF RingBounded
  <2> QED
    BY <2>1, <2>2, <2>3, <2>4
<1>6. ASSUME \A j \in Interfaces : j # i => fwQ'[j] = fwQ[j] /\ pkts'[j] = pkts[j]
      PROVE  AtInterfaces(b)' = AtInterfaces(b) + (CountOf(b, fwQ'[i]) + CountOf(b, pkts'[i]))
                                - (CountOf(b, fwQ[i]) + CountOf(b, pkts[i]))
  <2>1. AtInterfaces(b)' = AtInterfaces(b) + AtInterface(b, i)' - AtInterface(b, i)
    BY <1>4, <1>6, AtInterfacesStep
  <2>2. AtInterface(b, i)' = CountOf(b, slot[i]) + CountOf(b, fwQ'[i]) + CountOf(b, pkts'[i])
    BY <1>4 DEF AtInterface
  <2>3. AtInterface(b, i) = CountOf(b, slot[i]) + CountOf(b, fwQ[i]) + CountOf(b, pkts[i])
    BY DEF AtInterface
  <2>4. CountOf(b, slot[i]) \in Nat /\ CountOf(b, fwQ[i]) \in Nat /\ CountOf(b, pkts[i]) \in Nat
    <3>1. CountOf(b, slot[i]) \in 0..BatchSize
      BY AtInterfaceType
    <3>2. CountOf(b, fwQ[i]) \in Nat /\ CountOf(b, pkts[i]) \in Nat
      BY <1>5, CountNat
    <3> QED
      BY <3>1, <3>2, PoolAssumption
  <2>5. CountOf(b, fwQ'[i]) \in Nat /\ CountOf(b, pkts'[i]) \in Nat
    <3>1. fwQ'[i] \in Seq(Buffer) /\ pkts'[i] \in Seq(Buffer)
      BY DEF TypeOK
    <3> QED
      BY <3>1, CountNat
  <2> QED
    BY <1>1, <2>1, <2>2, <2>3, <2>4, <2>5
<1>7. CASE readUpTo(i)
  <2> DEFINE n == BatchSize - Len(pkts[i])
             taken == IF Len(fwQ[i]) < n THEN Len(fwQ[i]) ELSE n
             more == SubSeq(fwQ[i], 1, taken)
             rest == SubSeq(fwQ[i], taken + 1, Len(fwQ[i]))
  <2>1. taken \in 0..Len(fwQ[i])
    BY <1>5
  <2>2. /\ pkts' = [pkts EXCEPT ![i] = pkts[i] \o more]
        /\ fwQ' = [fwQ EXCEPT ![i] = rest]
        /\ pool' = pool
    BY <1>7 DEF readUpTo
  <2>3. CountOf(b, fwQ[i]) = CountOf(b, more) + CountOf(b, rest)
    <3> HIDE DEF taken
    <3>1. "buf" \in Buffer
      BY DEF Buffer
    <3> QED
      BY <1>5, <2>1, <3>1, CountQueue
  <2>4. more \in Seq(Buffer) /\ rest \in Seq(Buffer)
    <3> HIDE DEF taken
    <3> QED
      BY <1>5, <2>1
  <2> HIDE DEF more, rest
  <2>5. CountOf(b, pkts[i] \o more) = CountOf(b, pkts[i]) + CountOf(b, more)
    BY <1>5, <2>4, CountConcat
  <2>6. pkts'[i] = pkts[i] \o more /\ fwQ'[i] = rest
    BY <1>5, <2>2
  <2>7. \A j \in Interfaces : j # i => fwQ'[j] = fwQ[j] /\ pkts'[j] = pkts[j]
    BY <1>5, <2>2
  <2>8. CountOf(b, more) \in Nat /\ CountOf(b, rest) \in Nat /\ CountOf(b, pkts[i]) \in Nat
    BY <1>5, <2>4, CountNat
  <2>9. CountOf(b, fwQ'[i]) + CountOf(b, pkts'[i]) = CountOf(b, fwQ[i]) + CountOf(b, pkts[i])
    BY <2>3, <2>5, <2>6, <2>8
  <2>10. AtInterfaces(b)' = AtInterfaces(b)
    <3>1. CountOf(b, fwQ[i]) + CountOf(b, pkts[i]) \in Nat
      BY <2>3, <2>8
    <3> QED
      BY <1>1, <1>6, <2>7, <2>9, <3>1
  <2> QED
    BY <1>2, <1>3, <1>4, <2>2, <2>10
<1>8. CASE WriteBatch(i)
  <2>1. PICK written \in 0..Len(pkts[i]) :
          LET done == IF written = Len(pkts[i]) THEN written ELSE written + 1
              returned == SubSeq(pkts[i], 1, done)
          IN  /\ pool' = [c \in Buffer |-> pool[c] + CountOf(c, returned)]
              /\ pkts' = [pkts EXCEPT ![i] = SubSeq(@, written + 2, Len(@))]
    BY <1>8 DEF WriteBatch, leftovers
  <2> DEFINE done == IF written = Len(pkts[i]) THEN written ELSE written + 1
             returned == SubSeq(pkts[i], 1, done)
             rest == SubSeq(pkts[i], done + 1, Len(pkts[i]))
  <2>2. done \in 0..Len(pkts[i]) /\ written \in Nat
    BY <1>5
  <2>3. SubSeq(pkts[i], written + 2, Len(pkts[i])) = rest
    <3>1. CASE written = Len(pkts[i])
      <4>1. SubSeq(pkts[i], written + 2, Len(pkts[i])) = <<>>
        BY <1>5, <2>2, <3>1
      <4>2. SubSeq(pkts[i], written + 1, Len(pkts[i])) = <<>>
        BY <1>5, <2>2, <3>1
      <4>3. done = written
        BY <3>1
      <4> QED
        BY <4>1, <4>2, <4>3
    <3>2. CASE written # Len(pkts[i])
      <4>1. done + 1 = written + 2
        BY <2>2, <3>2
      <4> HIDE DEF done
      <4> QED
        BY <4>1
    <3> QED
      BY <3>1, <3>2
  <2>4. /\ pool' = [c \in Buffer |-> pool[c] + CountOf(c, returned)]
        /\ pkts' = [pkts EXCEPT ![i] = rest] /\ fwQ' = fwQ
    <3>1. pkts' = [pkts EXCEPT ![i] = SubSeq(pkts[i], written + 2, Len(pkts[i]))]
      BY <2>1
    <3> QED
      BY <1>8, <2>1, <2>3, <3>1 DEF WriteBatch
  <2>5. CountOf(b, pkts[i]) = CountOf(b, returned) + CountOf(b, rest)
    <3> HIDE DEF done
    <3>1. "buf" \in Buffer
      BY DEF Buffer
    <3> QED
      BY <1>5, <2>2, <3>1, CountQueue
  <2>6. returned \in Seq(Buffer) /\ rest \in Seq(Buffer)
    <3> HIDE DEF done
    <3> QED
      BY <1>5, <2>2
  <2> HIDE DEF returned, rest
  <2>7. CountOf(b, returned) \in Nat /\ CountOf(b, rest) \in Nat /\ CountOf(b, fwQ[i]) \in Nat
    BY <1>5, <2>6, CountNat
  <2>8. pkts'[i] = rest /\ \A j \in Interfaces : j # i => fwQ'[j] = fwQ[j] /\ pkts'[j] = pkts[j]
    BY <1>5, <2>4
  <2>9. AtInterfaces(b)' = AtInterfaces(b) + (CountOf(b, fwQ[i]) + CountOf(b, rest))
                           - (CountOf(b, fwQ[i]) + CountOf(b, pkts[i]))
    BY <1>6, <2>4, <2>8
  <2>10. AtInterfaces(b)' = AtInterfaces(b) - CountOf(b, returned)
    BY <1>1, <2>5, <2>7, <2>9
  <2>11. pool'[b] = pool[b] + CountOf(b, returned)
    BY <2>4
  <2> QED
    BY <1>1, <1>2, <1>3, <1>4, <2>7, <2>10, <2>11
<1> QED
  BY <1>7, <1>8 DEF Forwarder

---------------------------------------------------------------------------
(* The pool is large enough.                                                   *)

\* At the start everything is in the pool.
LEMMA InitConserved == Init => BuffersConserved
<1> SUFFICES ASSUME Init PROVE BuffersConserved
  OBVIOUS
<1>1. TypeOK
  BY InitOwnership DEF Ownership
<1>2. ASSUME NEW b \in Buffer PROVE Owned(b) = pool[b]
  <2>1. ASSUME NEW S, IsFiniteSet(S), NEW f, \A x \in S : f[x] = 0
        PROVE  SumFunctionOnSet(f, S) = 0
    <3>1. SumFunctionOnSet(f, S) <= Cardinality(S) * 0
      <4>1. \A x \in S : f[x] \in Nat /\ f[x] <= 0
        BY <2>1
      <4> QED
        BY <2>1, <4>1, SumBound
    <3>2. SumFunctionOnSet(f, S) \in Nat
      BY <2>1, SumType
    <3>3. Cardinality(S) * 0 = 0
      BY <2>1, FS_CardinalityType
    <3> QED
      BY <3>1, <3>2, <3>3
  <2>2. AtInterfaces(b) = 0
    <3> DEFINE f == [i \in Interfaces |-> AtInterface(b, i)]
    <3>1. ASSUME NEW i \in Interfaces PROVE f[i] = 0
      <4>1. slot[i] = [k \in Batch |-> "stale"] /\ fwQ[i] = <<>> /\ pkts[i] = <<>>
        BY DEF Init
      <4>2. {k \in DOMAIN slot[i] : slot[i][k] = b} = {}
        BY <4>1 DEF Buffer
      <4>3. CountOf(b, slot[i]) = 0
        BY <4>2, FS_EmptySet DEF CountOf
      <4>4. CountOf(b, fwQ[i]) = 0 /\ CountOf(b, pkts[i]) = 0
        BY <4>1, CountSingle
      <4> QED
        BY <4>3, <4>4 DEF AtInterface
    <3>2. AtInterfaces(b) = SumFunctionOnSet(f, Interfaces)
      BY DEF AtInterfaces, SumFunction
    <3> HIDE DEF f
    <3> QED
      BY <2>1, <3>1, <3>2, FiniteSums
  <2>3. ASSUME NEW S, IsFiniteSet(S), NEW q, q = [p \in S |-> <<>>] PROVE Queued(b, q) = 0
    <3> DEFINE f == [p \in S |-> CountOf(b, q[p])]
    <3>1. DOMAIN q = S /\ \A p \in S : q[p] = <<>>
      BY <2>3
    <3>2. \A p \in S : f[p] = 0
      BY <3>1, CountSingle
    <3>3. Queued(b, q) = SumFunctionOnSet(f, S)
      BY <3>1 DEF Queued, SumFunction
    <3> HIDE DEF f
    <3> QED
      BY <2>1, <2>3, <3>2, <3>3
  <2>4. Queued(b, procQ) = 0 /\ Queued(b, slowQ) = 0
    BY <2>3, FiniteSums DEF Init
  <2>5. Working(b) = 0
    BY FS_EmptySet DEF Init, Working
  <2>6. pool[b] \in Nat
    BY <1>1, PartTypes
  <2>7. Owned(b) = pool[b] + AtInterfaces(b) + Queued(b, procQ) + Queued(b, slowQ) + Working(b)
    BY <1>1, OwnedParts
  <2> QED
    BY <2>2, <2>4, <2>5, <2>6, <2>7
<1>3. pool["buf"] = poolSize /\ pool["nil"] = 0 /\ "buf" \in Buffer /\ "nil" \in Buffer
  BY DEF Init, Buffer
<1> QED
  BY <1>2, <1>3 DEF BuffersConserved

\* What no step changes, when every alert is a traceroute request.
Conservation == Capacity /\ BuffersConserved

\* Every step keeps the number of buffers of each kind.
LEMMA NextConserves ==
    ASSUME ~OddAlerts
    PROVE  Conservation /\ [Next]_vars => Conservation'
<1> SUFFICES ASSUME Conservation, [Next]_vars PROVE Conservation'
  OBVIOUS
<1>1. Capacity /\ Capacity'
  BY NextKeepsCapacity DEF Conservation
<1>2. TypeOK /\ TypeOK' /\ RingBounded /\ Owned("nil") = 0
  BY <1>1 DEF Conservation, BuffersConserved, Capacity, Ownership
<1>3. ASSUME NEW b \in Buffer PROVE Owned(b)' = Owned(b)
  <2>1. CASE UNCHANGED vars
    BY <2>1 DEF vars, Owned, AtInterface
  <2>2. ASSUME NEW i \in Interfaces, Receiver(i) PROVE Owned(b)' = Owned(b)
    BY <1>1, <2>2, ReceiverConserves
  <2>3. ASSUME NEW i \in Interfaces, Forwarder(i) PROVE Owned(b)' = Owned(b)
    BY <1>2, <2>3, ForwarderConserves
  <2>4. ASSUME NEW p \in Processors, Processor(p) PROVE Owned(b)' = Owned(b)
    BY <1>2, <2>4, ProcessorConserves
  <2>5. ASSUME NEW s \in SlowProcessors, SlowPathProcessor(s) PROVE Owned(b)' = Owned(b)
    BY <1>2, <2>5, SlowPathConserves
  <2> QED
    BY <2>1, <2>2, <2>3, <2>4, <2>5 DEF Next
<1>4. "buf" \in Buffer /\ "nil" \in Buffer
  BY DEF Buffer
<1>5. BuffersConserved'
  BY <1>3, <1>4 DEF Conservation, BuffersConserved
<1> QED
  BY <1>1, <1>5 DEF Conservation

\* A receiver that needs a buffer has a message without one.
LEMMA CollectingNeedsOne ==
    ASSUME Capacity, NEW i \in Interfaces, pc[i] = "collect", idx[i] <= BatchSize - numReusable[i]
    PROVE  CountOf("buf", slot[i]) <= BatchSize - 1
<1>1. /\ slot[i] \in [1..BatchSize -> Slot] /\ BatchSize \in Nat
      /\ idx[i] \in 1..(BatchSize + 1) /\ numReusable[i] \in 0..(BatchSize + 1)
  BY PoolAssumption DEF Capacity, Ownership, TypeOK, Batch
<1>2. idx[i] \in 1..BatchSize
  BY <1>1
<1>3. slot[i][idx[i]] = "stale"
  BY <1>1, <1>2 DEF Capacity, Refilling, Batch
<1> DEFINE f == slot[i]
           k == idx[i]
           g == [f EXCEPT ![k] = "buf"]
<1>4. f = [j \in 1..BatchSize |-> f[j]] /\ DOMAIN g = 1..BatchSize /\ DOMAIN f = 1..BatchSize
  BY <1>1
<1>5. CountOf("buf", g) = CountOf("buf", f) + One("buf", "buf") - One("buf", "stale")
  <2>1. f = [j \in 1..BatchSize |-> f[j]] /\ k \in 1..BatchSize
    BY <1>1, <1>2, <1>4
  <2>2. f[k] = "stale"
    BY <1>3
  <2> HIDE DEF f, k
  <2>3. ASSUME NEW b, NEW v
        PROVE  CountOf(b, [f EXCEPT ![k] = v]) = CountOf(b, f) + One(b, v) - One(b, f[k])
    <3>1. BatchSize \in Nat /\ k \in 1..BatchSize
      BY <1>1, <2>1
    <3>2. f = [j \in 1..BatchSize |-> f[j]]
      BY <2>1
    <3> QED
      BY ONLY <3>1, <3>2, CountUpdate
  <2>4. CountOf("buf", g) = CountOf("buf", f) + One("buf", "buf") - One("buf", f[k])
    BY <2>3
  <2> QED
    BY <2>2, <2>4
<1> HIDE DEF f, g
<1>6. CountOf("buf", g) \in 0..BatchSize /\ CountOf("buf", f) \in 0..BatchSize
  BY <1>1, <1>4, CountType
<1>7. One("buf", "buf") = 1 /\ One("buf", "stale") = 0
  BY DEF One
<1>8. CountOf("buf", f) <= BatchSize - 1
  BY <1>1, <1>5, <1>6, <1>7
<1> QED
  BY <1>8 DEF f

\* Interfaces other than i, each with its messages, queue and array full.
LEMMA InterfaceBound ==
    ASSUME Capacity, NEW i \in Interfaces, CountOf("buf", slot[i]) <= BatchSize - 1
    PROVE  AtInterfaces("buf") <= (NumInterfaces * BatchSize + NumInterfaces * (2 * BatchSize)) - 1
<1> DEFINE f == [j \in Interfaces |-> AtInterface("buf", j)]
           m == 3 * BatchSize
           R == Interfaces \ {i}
<1>1. TypeOK /\ BatchSize \in Nat
  BY PoolAssumption DEF Capacity, Ownership
<1>2. ASSUME NEW j \in Interfaces
      PROVE  /\ f[j] \in Nat /\ f[j] <= m
             /\ CountOf("buf", slot[j]) <= BatchSize - 1 => f[j] <= m - 1
  <2>1. /\ CountOf("buf", slot[j]) \in 0..BatchSize
        /\ CountOf("buf", fwQ[j]) \in 0..Len(fwQ[j]) /\ CountOf("buf", pkts[j]) \in 0..Len(pkts[j])
        /\ Len(fwQ[j]) \in Nat /\ Len(pkts[j]) \in Nat
    BY <1>1, AtInterfaceType
  <2>2. Len(fwQ[j]) <= BatchSize /\ Len(pkts[j]) <= BatchSize
    BY DEF Capacity, QueuesBounded, Ownership, RingBounded
  <2>3. f[j] = CountOf("buf", slot[j]) + CountOf("buf", fwQ[j]) + CountOf("buf", pkts[j])
    BY DEF AtInterface
  <2> HIDE DEF f
  <2> QED
    BY <1>1, <2>1, <2>2, <2>3
<1>3. AtInterfaces("buf") = SumFunctionOnSet(f, Interfaces)
  BY DEF AtInterfaces, SumFunction
<1>4. IsFiniteSet(R) /\ Cardinality(R) = NumInterfaces - 1 /\ Cardinality(R) \in Nat
  BY FiniteSums, FS_RemoveElement, FS_CardinalityType DEF NumInterfaces
<1>5. m \in Nat
  BY <1>1
<1>6. \A j \in Interfaces : f[j] \in Nat
  BY <1>2
<1> HIDE DEF f, m
<1>7. SumFunctionOnSet(f, Interfaces) = f[i] + SumFunctionOnSet(f, R)
  BY <1>6, FiniteSums, SumSplit
<1>8. \A j \in R : f[j] \in Nat /\ f[j] <= m
  BY <1>2
<1> HIDE DEF R
<1>9. SumFunctionOnSet(f, R) <= Cardinality(R) * m
  BY <1>4, <1>5, <1>8, SumBound
<1>10. SumFunctionOnSet(f, R) \in Nat
  BY <1>4, <1>8, SumType
<1>11. f[i] \in Nat /\ f[i] <= m - 1
  BY <1>2
<1>12. NumInterfaces \in Nat /\ NumInterfaces * m = (NumInterfaces - 1) * m + m
  BY <1>5, SizeTypes
<1>13. (NumInterfaces - 1) * m \in Nat
  BY <1>4, <1>5
<1>14. AtInterfaces("buf") <= NumInterfaces * m - 1
  BY <1>3, <1>4, <1>5, <1>7, <1>9, <1>10, <1>11, <1>12, <1>13
<1>15. NumInterfaces * m = NumInterfaces * BatchSize + NumInterfaces * (2 * BatchSize)
  BY <1>1, <1>12 DEF m
<1> QED
  BY <1>14, <1>15, Zenon

\* The processors of a kind: their queues full and each with a packet in hand.
LEMMA QueueBound ==
    ASSUME NEW S, IsFiniteSet(S), NEW n \in Nat, NEW q \in [S -> Seq(Buffer)],
           \A p \in S : Len(q[p]) <= n, NEW T \in SUBSET S
    PROVE  Queued("buf", q) + Cardinality(T) <= Cardinality(S) * (n + 1)
<1> DEFINE f == [p \in S |-> CountOf("buf", q[p])]
<1>1. ASSUME NEW p \in S PROVE f[p] \in Nat /\ f[p] <= n
  <2>1. q[p] \in Seq(Buffer) /\ Len(q[p]) \in Nat
    OBVIOUS
  <2>2. CountOf("buf", q[p]) \in 0..Len(q[p])
    BY <2>1, CountBound
  <2> QED
    BY <2>1, <2>2
<1>2. Queued("buf", q) = SumFunctionOnSet(f, S)
  BY DEF Queued, SumFunction
<1> HIDE DEF f
<1>3. SumFunctionOnSet(f, S) <= Cardinality(S) * n
  BY <1>1, SumBound
<1>4. SumFunctionOnSet(f, S) \in Nat
  BY <1>1, SumType
<1>5. /\ Cardinality(S) \in Nat /\ Cardinality(T) \in Nat /\ Cardinality(T) <= Cardinality(S)
  BY FS_Subset, FS_CardinalityType
<1>6. Cardinality(S) * n \in Nat /\ Cardinality(S) * (n + 1) = Cardinality(S) * n + Cardinality(S)
  BY <1>5
<1> QED
  BY <1>2, <1>3, <1>4, <1>5, <1>6

\* All places full but for one message leave a buffer in the pool.
LEMMA ConservedSuffices == Conservation => PoolSuffices
<1> SUFFICES ASSUME Conservation, NEW i \in Interfaces, pc[i] = "collect",
                    idx[i] <= BatchSize - numReusable[i]
             PROVE  pool["buf"] + pool["nil"] > 0
  BY DEF PoolSuffices
<1>1. Capacity /\ TypeOK /\ "buf" \in Buffer /\ Owned("buf") = poolSize /\ Owned("nil") = 0
  BY DEF Conservation, BuffersConserved, Capacity, Ownership, Buffer
<1>2. AtInterfaces("buf") <= (NumInterfaces * BatchSize + NumInterfaces * (2 * BatchSize)) - 1
  BY <1>1, CollectingNeedsOne, InterfaceBound
<1>3. processorQueueSize \in Nat
  BY SizeTypes
<1>4. Queued("buf", procQ) + Cardinality(busy) <= NumProcessors * (processorQueueSize + 1)
  <2>1. /\ procQ \in [Processors -> Seq(Buffer)] /\ busy \in SUBSET Processors
        /\ \A p \in Processors : Len(procQ[p]) <= processorQueueSize
    BY <1>1 DEF TypeOK, Capacity, QueuesBounded
  <2>2. Queued("buf", procQ) + Cardinality(busy) <= Cardinality(Processors) * (processorQueueSize + 1)
    BY <1>3, <2>1, FiniteSums, QueueBound
  <2> QED
    BY <2>2, FiniteSums
<1>5. Queued("buf", slowQ) + Cardinality(slowBusy) <= NumSlowPathProcessors * (processorQueueSize + 1)
  <2>1. /\ slowQ \in [SlowProcessors -> Seq(Buffer)] /\ slowBusy \in SUBSET SlowProcessors
        /\ \A s \in SlowProcessors : Len(slowQ[s]) <= processorQueueSize
    BY <1>1 DEF TypeOK, Capacity, QueuesBounded
  <2>2. Queued("buf", slowQ) + Cardinality(slowBusy)
          <= Cardinality(SlowProcessors) * (processorQueueSize + 1)
    BY <1>3, <2>1, FiniteSums, QueueBound
  <2> QED
    BY <2>2, FiniteSums
<1>6. /\ pool["buf"] \in Nat /\ AtInterfaces("buf") \in Nat
      /\ Queued("buf", procQ) \in Nat /\ Queued("buf", slowQ) \in Nat
      /\ Cardinality(busy) \in Nat /\ Cardinality(slowBusy) \in Nat
  BY <1>1, PartTypes
<1>7. poolSize = pool["buf"] + AtInterfaces("buf") + Queued("buf", procQ) + Queued("buf", slowQ)
                 + (Cardinality(busy) + Cardinality(slowBusy))
  <2>1. Owned("buf") = pool["buf"] + AtInterfaces("buf") + Queued("buf", procQ) + Queued("buf", slowQ)
                       + Working("buf")
    BY <1>1, OwnedParts
  <2>2. Working("buf") = Cardinality(busy) + Cardinality(slowBusy)
    BY DEF Working
  <2> QED
    BY <1>1, <2>1, <2>2
<1> DEFINE w == NumInterfaces * BatchSize + NumInterfaces * (2 * BatchSize)
           x == NumProcessors * (processorQueueSize + 1)
           y == NumSlowPathProcessors * (processorQueueSize + 1)
<1>8. poolSize = w + x + y
  <2>1. (NumProcessors + NumSlowPathProcessors) * (processorQueueSize + 1) = x + y
    BY <1>3, PoolAssumption
  <2>2. x \in Nat /\ y \in Nat /\ NumInterfaces * BatchSize \in Nat /\ NumInterfaces * (2 * BatchSize) \in Nat
    BY <1>3, SizeTypes, PoolAssumption
  <2> HIDE DEF x, y
  <2> QED
    BY <2>1, <2>2 DEF poolSize
<1>9. w \in Nat /\ x \in Nat /\ y \in Nat
  BY <1>3, SizeTypes, PoolAssumption
<1> HIDE DEF w, x, y
<1>10. /\ AtInterfaces("buf") <= w - 1
       /\ Queued("buf", procQ) + Cardinality(busy) <= x
       /\ Queued("buf", slowQ) + Cardinality(slowBusy) <= y
  BY <1>2, <1>4, <1>5, Zenon DEF w, x, y
<1>11. pool["buf"] > 0
  BY <1>6, <1>7, <1>8, <1>9, <1>10
<1>12. pool["nil"] = 0
  BY <1>1, HeadIsBuffer
<1> QED
  BY <1>6, <1>11, <1>12

\* For every number of interfaces and processors and every batch size, as long
\* as only traceroute requests carry router alerts: no buffer of the router's
\* pipeline is lost, whatever queue is full and whatever read or write fails.
\* (With other alerts buffers are lost, as run pool_odd_alert shows.)
THEOREM PoolConserved == ~OddAlerts => (Spec => []BuffersConserved)
<1> SUFFICES ASSUME ~OddAlerts PROVE Spec => []BuffersConserved
  OBVIOUS
<1>1. Init => Conservation
  BY InitCapacity, InitConserved DEF Conservation
<1>2. Conservation /\ [Next]_vars => Conservation'
  BY NextConserves
<1>3. Conservation => BuffersConserved
  BY DEF Conservation
<1> QED
  BY <1>1, <1>2, <1>3, PTL DEF Spec

\* Under the same condition the size that Run computes for the pool suffices for
\* every configuration: a receiver in need of a buffer finds one.
THEOREM PoolLargeEnough == ~OddAlerts => (Spec => []PoolSuffices)
<1> SUFFICES ASSUME ~OddAlerts PROVE Spec => []PoolSuffices
  OBVIOUS
<1>1. Init => Conservation
  BY InitCapacity, InitConserved DEF Conservation
<1>2. Conservation /\ [Next]_vars => Conservation'
  BY NextConserves
<1> QED
  BY <1>1, <1>2, ConservedSuffices, PTL DEF Spec
=============================================================================
