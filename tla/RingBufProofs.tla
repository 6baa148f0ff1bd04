--------------------------- MODULE RingBufProofs ---------------------------
(***************************************************************************)
(* The ring buffer implements a bounded first-in first-out queue and loses  *)
(* no wake-up, for every capacity, every set of entries and every number of *)
(* goroutines.                                                              *)
(***************************************************************************)
EXTENDS RingBuf, SequenceTheorems, TLAPS

\* The place of the k-th entry counted from index r, without a remainder.
Slot(r, k) == IF r + k < Cap THEN r + k ELSE r + k - Cap

\* The c entries from index r on, as the mapping to the queue reads them.
Window(e, r, c) == [i \in 1..c |-> e[(r + i - 1) % Cap]]

\* The write index lies as many places behind the read index as entries are readable,
\* or one turn of the ring less; an index that rests at Cap is not 0.
IndexInv ==
    /\ writeIndex \in 0..Cap /\ readIndex \in 0..Cap
    /\ readable \in 0..Cap /\ writable = Cap - readable
    /\ \/ readIndex + readable = writeIndex
       \/ readIndex + readable = writeIndex + Cap

\* The readable entries are the ones that are not nil.
EntriesInv ==
    /\ entries \in [Slots -> Data \cup {Nil}]
    /\ \A k \in Slots : entries[Slot(readIndex, k)] # Nil <=> k < readable

\* What goroutines pass.
CallInv ==
    /\ pc \in [Procs -> {"idle", "waiting", "woken"}]
    /\ DOMAIN call = Procs
    /\ \A p \in Procs : call[p] \in Seq(Data \cup {Nil}) /\ Len(call[p]) <= MaxBatch
    /\ \A w \in Writers : call[w] \in Seq(Data)

\* What a call returns: at most Cap entries, or -1.
RetInv == ret \in [proc : Procs \cup {"none"}, n : -1..Cap, items : Seq(Data)]

\* The inductive invariant of the ring.
RingInv == IndexInv /\ EntriesInv /\ closed \in BOOLEAN /\ CallInv /\ RetInv

---------------------------------------------------------------------------
(* Facts about indices and sequences.                                       *)

\* The remainder the mapping to the queue takes is one subtraction.
LEMMA SlotIsRemainder ==
    ASSUME NEW r \in 0..Cap, NEW k \in Slots
    PROVE  Slot(r, k) = (r + k) % Cap /\ Slot(r, k) \in Slots
<1>1. Cap \in Nat /\ Cap > 0
  BY RingAssumption
<1>2. \A q \in Slots : q % Cap = q /\ (q + Cap) % Cap = q
  BY <1>1 DEF Slots
<1> QED
  BY <1>1, <1>2 DEF Slot, Slots

\* Every place of the ring is a distance of less than Cap from any index.
LEMMA SlotReachesAll ==
    ASSUME NEW r \in 0..Cap, NEW i \in Slots
    PROVE  \E k \in Slots : Slot(r, k) = i
<1> DEFINE k == IF r <= i THEN i - r ELSE i - r + Cap
<1>1. Cap \in Nat /\ Cap > 0
  BY RingAssumption
<1>2. k \in Slots /\ Slot(r, k) = i
  BY <1>1 DEF Slot, Slots
<1> QED
  BY <1>2

\* Places counted from an index that has moved on by j.
LEMMA SlotShift ==
    ASSUME NEW r \in 0..Cap, NEW s \in 0..Cap, NEW j \in 0..Cap, NEW k \in Slots,
           s = r + j \/ s = r + j - Cap
    PROVE  /\ k + j < Cap => k + j \in Slots /\ Slot(s, k) = Slot(r, k + j)
           /\ k + j >= Cap => k + j - Cap \in Slots /\ Slot(s, k) = Slot(r, k + j - Cap)
<1>1. Cap \in Nat /\ Cap > 0
  BY RingAssumption
<1> QED
  BY <1>1 DEF Slot, Slots

\* The batches of Write are the sequences of at most MaxBatch entries.
LEMMA BatchesAreSeqs ==
    /\ Batches = Abstract!Batches
    /\ \A b : b \in Batches <=> b \in Seq(Data) /\ Len(b) <= MaxBatch
<1>1. MaxBatch \in Nat
  BY RingAssumption
<1>2. Batches = UNION {[1..m -> Data] : m \in 0..MaxBatch}
  BY DEF Batches, BoundedSeq, SeqOf
<1>3. ASSUME NEW b \in Batches PROVE b \in Seq(Data) /\ Len(b) <= MaxBatch
  <2>1. PICK m \in 0..MaxBatch : b \in [1..m -> Data]
    BY <1>2, <1>3
  <2> QED
    BY <1>1, <2>1
<1>4. ASSUME NEW b \in Seq(Data), Len(b) <= MaxBatch PROVE b \in Batches
  <2>1. Len(b) \in 0..MaxBatch /\ b \in [1..Len(b) -> Data]
    BY <1>1, <1>4
  <2> QED
    BY <1>2, <2>1
<1> QED
  BY <1>3, <1>4
     DEF Batches, BoundedSeq, SeqOf, Abstract!Batches, Abstract!BoundedSeq, Abstract!SeqOf

---------------------------------------------------------------------------
(* The two copies of write and read, seen from the read index.              *)

\* write puts a batch that fits right behind the readable entries, whether or not it
\* wraps around the end of the slice, and leaves every other entry alone.
LEMMA WroteFacts ==
    ASSUME IndexInv, EntriesInv,
           NEW b \in Seq(Data), Len(b) <= writable
    PROVE  /\ wrote(b).index \in 0..Cap
           /\ \/ readIndex + readable + Len(b) = wrote(b).index
              \/ readIndex + readable + Len(b) = wrote(b).index + Cap
           /\ wrote(b).entries \in [Slots -> Data \cup {Nil}]
           /\ \A k \in Slots : wrote(b).entries[Slot(readIndex, k)] =
                IF k >= readable /\ k < readable + Len(b) THEN b[k - readable + 1]
                ELSE entries[Slot(readIndex, k)]
<1>1. Cap \in Nat /\ Cap > 0
  BY RingAssumption
<1>2. Len(b) \in Nat /\ \A i \in 1..Len(b) : b[i] \in Data
  OBVIOUS
<1> DEFINE n == Smaller(Cap - writeIndex, Len(b))
           rest == Len(b) - n
           copied == [i \in Slots |->
                        IF i < rest THEN b[n + i + 1]
                        ELSE IF i >= writeIndex /\ i - writeIndex < n THEN b[i - writeIndex + 1]
                        ELSE entries[i]]
<1>3. /\ wrote(b).entries = copied
      /\ wrote(b).index = IF rest > 0 THEN rest ELSE writeIndex + n
  BY DEF wrote
<1>4. /\ n \in 0..Len(b) /\ rest \in 0..Len(b)
      /\ n <= Cap - writeIndex
      /\ rest > 0 => n = Cap - writeIndex
  BY <1>1, <1>2 DEF Smaller, IndexInv
<1> HIDE DEF n, rest
<1>5. wrote(b).index \in 0..Cap
  BY <1>1, <1>2, <1>3, <1>4 DEF IndexInv
<1>6. \/ readIndex + readable + Len(b) = wrote(b).index
      \/ readIndex + readable + Len(b) = wrote(b).index + Cap
  BY <1>1, <1>2, <1>3, <1>4 DEF IndexInv, rest
<1>7. copied \in [Slots -> Data \cup {Nil}]
  BY <1>1, <1>2, <1>4 DEF IndexInv, EntriesInv, Slots, rest
<1>8. ASSUME NEW k \in Slots
      PROVE  copied[Slot(readIndex, k)] =
                IF k >= readable /\ k < readable + Len(b) THEN b[k - readable + 1]
                ELSE entries[Slot(readIndex, k)]
  <2>1. Slot(readIndex, k) \in Slots
    BY SlotIsRemainder DEF IndexInv
  <2> QED
    BY <1>1, <1>2, <1>4, <2>1, SMTT(30) DEF IndexInv, Slots, Slot, rest
<1> QED
  BY <1>3, <1>5, <1>6, <1>7, <1>8

\* read returns the oldest entries in order, sets them to nil and leaves every other
\* entry alone.
LEMMA TookFacts ==
    ASSUME IndexInv, EntriesInv,
           NEW j \in 0..readable
    PROVE  /\ took(j).index \in 0..Cap
           /\ \/ took(j).index = readIndex + j
              \/ took(j).index = readIndex + j - Cap
           /\ took(j).index + (readable - j) \in {writeIndex, writeIndex + Cap}
           /\ took(j).entries \in [Slots -> Data \cup {Nil}]
           /\ \A k \in Slots : took(j).entries[Slot(readIndex, k)] =
                IF k < j THEN Nil ELSE entries[Slot(readIndex, k)]
           /\ took(j).items = [i \in 1..j |-> entries[Slot(readIndex, i - 1)]]
<1>1. Cap \in Nat /\ Cap > 0
  BY RingAssumption
<1> DEFINE n == Smaller(Cap - readIndex, j)
           rest == j - n
           taken == {i \in Slots : i < rest \/ (i >= readIndex /\ i - readIndex < n)}
<1>3. /\ took(j).entries = [i \in Slots |-> IF i \in taken THEN Nil ELSE entries[i]]
      /\ took(j).index = IF rest > 0 THEN rest ELSE readIndex + n
      /\ took(j).items = [i \in 1..j |-> IF i <= n THEN entries[readIndex + i - 1]
                                         ELSE entries[i - n - 1]]
  BY DEF took
<1>4. /\ n \in 0..j /\ rest \in 0..j
      /\ n <= Cap - readIndex
      /\ rest > 0 => n = Cap - readIndex
  BY <1>1 DEF Smaller, IndexInv
<1> HIDE DEF n, rest
<1>5. /\ took(j).index \in 0..Cap
      /\ \/ took(j).index = readIndex + j
         \/ took(j).index = readIndex + j - Cap
      /\ took(j).index + (readable - j) \in {writeIndex, writeIndex + Cap}
  BY <1>1, <1>3, <1>4 DEF IndexInv, rest
<1>6. took(j).entries \in [Slots -> Data \cup {Nil}]
  BY <1>3 DEF EntriesInv
<1>7. ASSUME NEW k \in Slots
      PROVE  took(j).entries[Slot(readIndex, k)] =
                IF k < j THEN Nil ELSE entries[Slot(readIndex, k)]
  <2>1. Slot(readIndex, k) \in Slots
    BY SlotIsRemainder DEF IndexInv
  <2>2. Slot(readIndex, k) \in taken <=> k < j
    BY <1>1, <1>4, <2>1 DEF IndexInv, Slots, Slot, rest
  <2> QED
    BY <1>3, <2>1, <2>2
<1>8. took(j).items = [i \in 1..j |-> entries[Slot(readIndex, i - 1)]]
  <2>1. ASSUME NEW i \in 1..j
        PROVE  (IF i <= n THEN entries[readIndex + i - 1] ELSE entries[i - n - 1])
                  = entries[Slot(readIndex, i - 1)]
    BY <1>1, <1>4 DEF IndexInv, Slot, rest
  <2> QED
    BY <1>3, <2>1
<1> QED
  BY <1>3, <1>5, <1>6, <1>7, <1>8

---------------------------------------------------------------------------
(* The inductive invariant, action by action.                               *)

\* A function over 1..n is a sequence of length n.
LEMMA FunctionIsSeq ==
    ASSUME NEW S, NEW n \in Nat, NEW f \in [1..n -> S]
    PROVE  f \in Seq(S) /\ Len(f) = n
OBVIOUS

\* The readable entries of a ring, oldest first, are a sequence of data.
LEMMA WindowIsSeq ==
    ASSUME NEW e \in [Slots -> Data \cup {Nil}], NEW r \in 0..Cap, NEW c \in 0..Cap,
           \A k \in Slots : k < c => e[Slot(r, k)] # Nil
    PROVE  /\ Window(e, r, c) \in Seq(Data) /\ Len(Window(e, r, c)) = c
           /\ \A i \in 1..c : Window(e, r, c)[i] = e[Slot(r, i - 1)]
<1>1. Cap \in Nat /\ Cap > 0 /\ c \in Nat
  BY RingAssumption
<1>2. ASSUME NEW i \in 1..c
      PROVE  Window(e, r, c)[i] = e[Slot(r, i - 1)] /\ Window(e, r, c)[i] \in Data
  <2>1. i - 1 \in Slots /\ i - 1 < c
    BY <1>1 DEF Slots
  <2>2. Slot(r, i - 1) = (r + (i - 1)) % Cap /\ Slot(r, i - 1) \in Slots
    BY <2>1, SlotIsRemainder
  <2>3. r + (i - 1) = r + i - 1
    BY <1>1
  <2> QED
    BY <2>1, <2>2, <2>3 DEF Window
<1>3. Window(e, r, c) \in [1..c -> Data]
  BY <1>2 DEF Window
<1> QED
  BY <1>1, <1>2, <1>3, FunctionIsSeq

\* The contents of the ring are the queue it stands for.
LEMMA ContentsFacts ==
    ASSUME IndexInv, EntriesInv
    PROVE  /\ contents \in Seq(Data) /\ Len(contents) = readable
           /\ \A i \in 1..readable : contents[i] = entries[Slot(readIndex, i - 1)]
<1>1. contents = Window(entries, readIndex, readable)
  BY DEF contents, Window
<1>2. /\ entries \in [Slots -> Data \cup {Nil}] /\ readIndex \in 0..Cap /\ readable \in 0..Cap
      /\ \A k \in Slots : k < readable => entries[Slot(readIndex, k)] # Nil
  BY DEF IndexInv, EntriesInv
<1> QED
  BY <1>1, <1>2, WindowIsSeq

\* The same after a step.
LEMMA NextContentsFacts ==
    ASSUME IndexInv', EntriesInv'
    PROVE  /\ contents' \in Seq(Data) /\ Len(contents') = readable'
           /\ \A i \in 1..readable' : contents'[i] = entries'[Slot(readIndex', i - 1)]
<1>1. contents' = Window(entries', readIndex', readable')
  BY DEF contents, Window
<1>2. /\ entries' \in [Slots -> Data \cup {Nil}] /\ readIndex' \in 0..Cap /\ readable' \in 0..Cap
      /\ \A k \in Slots : k < readable' => entries'[Slot(readIndex', k)] # Nil
  BY DEF IndexInv, EntriesInv, Slots, Slot
<1> QED
  BY <1>1, <1>2, WindowIsSeq

\* A step that returns from a call of p: what is kept of calls and of results.
LEMMA ReturnFacts ==
    ASSUME CallInv, NEW p \in Procs, NEW wake \in SUBSET Procs,
           NEW n \in -1..Cap, NEW items \in Seq(Data),
           Return(p, wake, Result(p, n, items))
    PROVE  CallInv' /\ RetInv'
<1>1. \A b \in {<<>>} : b \in Seq(Data \cup {Nil}) /\ b \in Seq(Data) /\ Len(b) = 0
  OBVIOUS
<1>2. MaxBatch \in Nat
  BY RingAssumption
<1>3. CallInv'
  BY <1>1, <1>2 DEF CallInv, Return, Broadcast, Procs
<1>4. RetInv'
  BY DEF RetInv, Return, Result
<1> QED
  BY <1>3, <1>4

\* A step that begins to wait.
LEMMA WaitFacts ==
    ASSUME CallInv, RetInv, NEW p \in Procs, NEW b \in Seq(Data \cup {Nil}), Len(b) <= MaxBatch,
           p \in Writers => b \in Seq(Data),
           Wait(p, b)
    PROVE  CallInv' /\ RetInv'
BY DEF CallInv, RetInv, Wait

\* The ring after a write of a batch that fits: the batch lies behind what was readable.
LEMMA WriteStep ==
    ASSUME RingInv, NEW b \in Seq(Data), Len(b) <= writable,
           entries' = wrote(b).entries, writeIndex' = wrote(b).index,
           writable' = writable - Len(b), readable' = readable + Len(b),
           readIndex' = readIndex
    PROVE  IndexInv' /\ EntriesInv' /\ contents' = contents \o b
<1> USE DEF RingInv
<1>1. Cap \in Nat /\ Cap > 0 /\ Nil \notin Data /\ Len(b) \in Nat /\ \A i \in 1..Len(b) : b[i] \in Data
  BY RingAssumption DEF Nil
<1>c. readable \in Nat
  BY <1>1 DEF IndexInv
<1>2. IndexInv'
  BY <1>1, WroteFacts DEF IndexInv
<1>3. \A k \in Slots : entries'[Slot(readIndex, k)] =
                IF k >= readable /\ k < readable + Len(b) THEN b[k - readable + 1]
                ELSE entries[Slot(readIndex, k)]
  BY WroteFacts
<1>4. \A k \in Slots : entries'[Slot(readIndex', k)] # Nil <=> k < readable'
  <2> TAKE k \in Slots
  <2>1. CASE k < readable
    BY <1>1, <1>3, <2>1 DEF IndexInv, EntriesInv, Slots
  <2>2. CASE k >= readable /\ k < readable + Len(b)
    <3>1. k - readable + 1 \in 1..Len(b)
      BY <1>1, <2>2 DEF IndexInv, Slots
    <3> QED
      BY <1>1, <1>3, <2>2, <3>1
  <2>3. CASE k >= readable + Len(b)
    BY <1>1, <1>3, <2>3 DEF IndexInv, EntriesInv, Slots
  <2> QED
    BY <1>1, <2>1, <2>2, <2>3 DEF IndexInv, Slots
<1>5. EntriesInv'
  BY <1>4, WroteFacts DEF EntriesInv, Slots, Slot
<1>6. contents' = contents \o b
  <2>1. /\ contents' \in Seq(Data) /\ Len(contents') = readable'
        /\ \A i \in 1..readable' : contents'[i] = entries'[Slot(readIndex', i - 1)]
    BY <1>2, <1>5, NextContentsFacts
  <2>2. /\ contents \o b \in Seq(Data) /\ Len(contents \o b) = readable + Len(b)
        /\ \A i \in 1..(readable + Len(b)) :
             (contents \o b)[i] = IF i <= readable THEN contents[i] ELSE b[i - readable]
    <3>1. contents \in Seq(Data) /\ Len(contents) = readable
      BY ContentsFacts
    <3> QED
      BY <3>1, ConcatProperties
  <2>3. ASSUME NEW i \in 1..(readable + Len(b)) PROVE contents'[i] = (contents \o b)[i]
    <3>1. i - 1 \in Slots
      BY <1>1, <1>2 DEF IndexInv, Slots
    <3>2. contents'[i] = entries'[Slot(readIndex, i - 1)]
      BY <2>1
    <3>3. CASE i <= readable
      <4>1. contents'[i] = entries[Slot(readIndex, i - 1)]
        BY <1>1, <1>3, <3>1, <3>2, <3>3 DEF IndexInv
      <4> QED
        BY <2>2, <3>3, <4>1, ContentsFacts
    <3>4. CASE i > readable
      <4>1. i - 1 >= readable /\ i - 1 < readable + Len(b) /\ (i - 1) - readable + 1 = i - readable
        BY <1>1, <1>c, <3>4
      <4>2. contents'[i] = b[i - readable]
        BY <1>3, <3>1, <3>2, <4>1
      <4> QED
        BY <1>1, <1>c, <2>2, <3>4, <4>2
    <3>5. i <= readable \/ i > readable
      BY <1>1, <1>c
    <3> QED
      BY <3>3, <3>4, <3>5
  <2> QED
    BY <2>1, <2>2, <2>3, SeqEqual
<1> QED
  BY <1>2, <1>5, <1>6

\* The ring after a read: the oldest entries are gone, and they are the result.
LEMMA ReadStep ==
    ASSUME RingInv, NEW j \in 0..readable,
           entries' = took(j).entries, readIndex' = took(j).index,
           readable' = readable - j, writable' = writable + j,
           writeIndex' = writeIndex
    PROVE  /\ IndexInv' /\ EntriesInv'
           /\ contents' = SubSeq(contents, j + 1, Len(contents))
           /\ took(j).items = SubSeq(contents, 1, j)
           /\ took(j).items \in Seq(Data)
<1> USE DEF RingInv
<1>1. Cap \in Nat /\ Cap > 0 /\ Nil \notin Data
  BY RingAssumption DEF Nil
<1>a. /\ readIndex' \in 0..Cap
      /\ \/ readIndex' = readIndex + j
         \/ readIndex' = readIndex + j - Cap
      /\ readIndex' + (readable - j) \in {writeIndex, writeIndex + Cap}
      /\ entries' \in [Slots -> Data \cup {Nil}]
      /\ took(j).items = [i \in 1..j |-> entries[Slot(readIndex, i - 1)]]
  BY TookFacts
<1>b. \A k \in Slots : entries'[Slot(readIndex, k)] =
                           IF k < j THEN Nil ELSE entries[Slot(readIndex, k)]
  BY TookFacts
<1>2. IndexInv'
  BY <1>1, <1>a DEF IndexInv
<1>3. ASSUME NEW k \in Slots
      PROVE  /\ k + j < Cap => /\ k + j \in Slots
                               /\ Slot(readIndex', k) = Slot(readIndex, k + j)
             /\ k + j >= Cap => /\ k + j - Cap \in Slots
                                /\ Slot(readIndex', k) = Slot(readIndex, k + j - Cap)
  <2>1. readIndex \in 0..Cap /\ j \in 0..Cap
    BY <1>1 DEF IndexInv
  <2> QED
    BY <1>a, <2>1, SlotShift
<1>4. ASSUME NEW k \in Slots
      PROVE  entries'[Slot(readIndex', k)] =
               IF k + j < Cap THEN entries[Slot(readIndex, k + j)] ELSE Nil
  <2>1. CASE k + j < Cap
    <3>1. k + j \in Slots /\ ~(k + j < j)
      BY <1>1, <1>3, <2>1 DEF Slots, IndexInv
    <3> QED
      BY <1>3, <2>1, <1>b, <3>1
  <2>2. CASE k + j >= Cap
    <3>1. k + j - Cap \in Slots /\ k + j - Cap < j
      BY <1>1, <1>3, <2>2 DEF Slots, IndexInv
    <3> QED
      BY <1>1, <1>3, <2>2, <1>b, <3>1 DEF Slots, IndexInv
  <2> QED
    BY <1>1, <2>1, <2>2 DEF Slots, IndexInv
<1>5. EntriesInv'
  <2>1. ASSUME NEW k \in Slots
        PROVE  entries'[Slot(readIndex', k)] # Nil <=> k < readable'
    <3>1. readable \in 0..Cap /\ k \in 0..(Cap - 1)
      BY <1>1 DEF IndexInv, Slots
    <3>2. CASE k + j < Cap
      <4>1. k + j \in Slots /\ (k + j < readable <=> k < readable - j)
        BY <1>1, <3>1, <3>2 DEF Slots
      <4> QED
        BY <1>4, <3>2, <4>1 DEF EntriesInv
    <3>3. CASE k + j >= Cap
      BY <1>1, <1>4, <3>1, <3>3
    <3> QED
      BY <1>1, <3>1, <3>2, <3>3
  <2> QED
    BY <1>a, <2>1 DEF EntriesInv, Slots, Slot
<1>6. /\ contents' \in Seq(Data) /\ Len(contents') = readable'
      /\ \A i \in 1..readable' : contents'[i] = entries'[Slot(readIndex', i - 1)]
  BY <1>2, <1>5, NextContentsFacts
<1>7. contents' = SubSeq(contents, j + 1, Len(contents))
  <2>1. \A i \in (j + 1)..readable : contents[i] \in Data
    BY <1>1, ContentsFacts DEF IndexInv
  <2>2. /\ SubSeq(contents, j + 1, readable) \in Seq(Data)
        /\ Len(SubSeq(contents, j + 1, readable)) = readable - j
        /\ \A i \in 1..(readable - j) : SubSeq(contents, j + 1, readable)[i] = contents[j + i]
    BY <1>1, <2>1, ContentsFacts, SubSeqProperties DEF IndexInv
  <2>3. ASSUME NEW i \in 1..(readable - j) PROVE contents'[i] = contents[j + i]
    <3>1. i - 1 \in Slots /\ (i - 1) + j < Cap /\ j + i \in 1..readable /\ (i - 1) + j = j + i - 1
      BY <1>1 DEF IndexInv, Slots
    <3>2. contents'[i] = entries[Slot(readIndex, j + i - 1)]
      BY <1>4, <1>6, <3>1
    <3> QED
      BY <3>1, <3>2, ContentsFacts
  <2> QED
    BY <1>6, <2>2, <2>3, SeqEqual, ContentsFacts
<1>8. took(j).items = SubSeq(contents, 1, j) /\ took(j).items \in Seq(Data)
  <2>1. \A i \in 1..j : contents[i] \in Data /\ contents[i] = entries[Slot(readIndex, i - 1)]
    BY <1>1, ContentsFacts DEF IndexInv
  <2>2. /\ SubSeq(contents, 1, j) \in Seq(Data)
        /\ Len(SubSeq(contents, 1, j)) = j
        /\ \A i \in 1..j : SubSeq(contents, 1, j)[i] = contents[i]
    BY <1>1, <2>1, SubSeqProperties DEF IndexInv
  <2>3. took(j).items \in [1..j -> Data]
    BY <1>a, <2>1
  <2>4. took(j).items \in Seq(Data) /\ Len(took(j).items) = j
    BY <1>1, <2>3 DEF IndexInv
  <2>5. \A i \in 1..j : took(j).items[i] = SubSeq(contents, 1, j)[i]
    BY <2>1, <1>a, <2>2
  <2> QED
    BY <2>2, <2>4, <2>5, SeqEqual
<1> QED
  BY <1>2, <1>5, <1>7, <1>8

\* A step of the ring seen by callers: one of the queue, or none.
QueueStep == [Abstract!AbsNext]_(Abstract!absVars)

\* A step that leaves the ring alone leaves its contents alone.
LEMMA RingUnchanged ==
    ASSUME RingInv, UNCHANGED ring
    PROVE  IndexInv' /\ EntriesInv' /\ closed' = closed /\ closed' \in BOOLEAN /\ contents' = contents
BY DEF RingInv, IndexInv, EntriesInv, ring, contents, Slots, Slot

\* Write, and the second half of a write that waited: the invariant is kept, and the
\* queue takes what fits, refuses because it is closed, or does not change.
LEMMA WriteFacts ==
    ASSUME RingInv, NEW w \in Writers, NEW batch \in Seq(Data), Len(batch) <= MaxBatch,
           NEW block \in BOOLEAN, doWrite(w, batch, block)
    PROVE  RingInv' /\ QueueStep
<1> DEFINE full == Len(batch) > 0 /\ writable = 0 /\ ~closed
           n == Smaller(writable, Len(batch))
           new == wrote(SubSeq(batch, 1, n))
<1>0. /\ Cap \in Nat /\ Cap > 0 /\ Len(batch) \in Nat /\ w \in Procs /\ w \notin Readers
      /\ readable \in 0..Cap /\ writable = Cap - readable /\ writable \in 0..Cap
  BY RingAssumption DEF RingInv, IndexInv, Procs
<1>1. Len(contents) = readable /\ batch \in Abstract!Batches
  BY ContentsFacts, BatchesAreSeqs DEF RingInv
<1>2. CASE /\ full /\ ~block
           /\ Return(w, {}, Result(w, 0, <<>>))
           /\ UNCHANGED ring
  <2>1. RingInv'
    <3>1. <<>> \in Seq(Data) /\ {} \in SUBSET Procs /\ 0 \in -1..Cap /\ -1 \in -1..Cap
      BY <1>0
    <3>2. CallInv' /\ RetInv'
      BY <1>0, <1>2, <3>1, ReturnFacts DEF RingInv
    <3> QED
      BY <1>2, <3>2, RingUnchanged DEF RingInv
  <2>2. SubSeq(batch, 1, 0) = <<>> /\ contents \o <<>> = contents
    BY ContentsFacts, ConcatEmptySeq, SubSeqEmpty DEF RingInv
  <2>3. Abstract!AbsWrite(w)
    BY <1>0, <1>1, <1>2, <2>2, RingUnchanged
       DEF Abstract!AbsWrite, Return, Result, Abstract!Result
  <2> QED
    BY <2>1, <2>3 DEF QueueStep, Abstract!AbsNext
<1>3. CASE full /\ block /\ Wait(w, batch)
  <2>1. batch \in Seq(Data \cup {Nil})
    BY SeqMonotonic
  <2>2. RingInv'
    BY <1>0, <1>3, <2>1, RingUnchanged, WaitFacts DEF RingInv, Wait
  <2> QED
    BY <1>3, <2>2, RingUnchanged DEF QueueStep, Abstract!absVars, Wait
<1>4. CASE /\ closed
           /\ Return(w, {}, Result(w, -1, <<>>))
           /\ UNCHANGED ring
  <2>1. RingInv'
    <3>1. <<>> \in Seq(Data) /\ {} \in SUBSET Procs /\ 0 \in -1..Cap /\ -1 \in -1..Cap
      BY <1>0
    <3>2. CallInv' /\ RetInv'
      BY <1>0, <1>4, <3>1, ReturnFacts DEF RingInv
    <3> QED
      BY <1>4, <3>2, RingUnchanged DEF RingInv
  <2>2. Abstract!AbsRefuse(w)
    BY <1>0, <1>4, RingUnchanged DEF Abstract!AbsRefuse, Return, Result, Abstract!Result
  <2> QED
    BY <2>1, <2>2 DEF QueueStep, Abstract!AbsNext
<1>5. CASE /\ ~full /\ ~closed
           /\ entries' = new.entries /\ writeIndex' = new.index
           /\ writable' = writable - n /\ readable' = readable + n
           /\ Return(w, Readers, Result(w, n, SubSeq(batch, 1, n)))
           /\ UNCHANGED <<readIndex, closed>>
  <2> DEFINE b == SubSeq(batch, 1, n)
  <2>1. n \in 0..Len(batch) /\ n <= writable /\ n \in -1..Cap
    BY <1>0 DEF Smaller
  <2>2. b \in Seq(Data) /\ Len(b) = n
    BY <1>0, <2>1, SubSeqProperties
  <2>3. IndexInv' /\ EntriesInv' /\ contents' = contents \o b
    BY <1>5, <2>1, <2>2, WriteStep
  <2>4. RingInv'
    BY <1>0, <1>5, <2>1, <2>2, <2>3, ReturnFacts DEF RingInv, Procs
  <2>5. n = IF Cap - Len(contents) < Len(batch) THEN Cap - Len(contents) ELSE Len(batch)
    BY <1>0, <1>1 DEF Smaller
  <2>6. Abstract!AbsWrite(w)
    BY <1>1, <1>5, <2>3, <2>5 DEF Abstract!AbsWrite, Return, Result, Abstract!Result
  <2> QED
    BY <2>4, <2>6 DEF QueueStep, Abstract!AbsNext
<1> QED
  BY <1>2, <1>3, <1>4, <1>5 DEF doWrite

\* Read, and the second half of a read that waited.
LEMMA ReadFacts ==
    ASSUME RingInv, NEW r \in Readers, NEW batch \in Seq(Data \cup {Nil}), Len(batch) <= MaxBatch,
           NEW block \in BOOLEAN, doRead(r, batch, block)
    PROVE  RingInv' /\ QueueStep
<1> DEFINE empty == Len(batch) > 0 /\ readable = 0 /\ ~closed
           n == Smaller(readable, Len(batch))
           new == took(n)
<1>0. /\ Cap \in Nat /\ Cap > 0 /\ r \in Procs /\ r \notin Writers
      /\ readable \in 0..Cap /\ Len(batch) \in 0..MaxBatch
  BY RingAssumption DEF RingInv, IndexInv, Procs
<1>1. contents \in Seq(Data) /\ Len(contents) = readable
  BY ContentsFacts DEF RingInv
<1>2. CASE /\ empty /\ ~block
           /\ Return(r, {}, Result(r, 0, <<>>))
           /\ UNCHANGED ring
  <2>1. RingInv'
    <3>1. <<>> \in Seq(Data) /\ {} \in SUBSET Procs /\ 0 \in -1..Cap /\ -1 \in -1..Cap
      BY <1>0
    <3>2. CallInv' /\ RetInv'
      BY <1>0, <1>2, <3>1, ReturnFacts DEF RingInv
    <3> QED
      BY <1>2, <3>2, RingUnchanged DEF RingInv
  <2>2. contents = <<>> /\ SubSeq(contents, 1, 0) = <<>>
    BY <1>1, <1>2, EmptySeq, SubSeqEmpty
  <2>3. Abstract!AbsRead(r)
    BY <1>0, <1>1, <1>2, <2>2, RingUnchanged
       DEF Abstract!AbsRead, Return, Result, Abstract!Result
  <2> QED
    BY <2>1, <2>3 DEF QueueStep, Abstract!AbsNext
<1>3. CASE empty /\ block /\ Wait(r, batch)
  <2>1. RingInv'
    BY <1>0, <1>3, RingUnchanged, WaitFacts DEF RingInv, Wait
  <2> QED
    BY <1>3, <2>1, RingUnchanged DEF QueueStep, Abstract!absVars, Wait
<1>4. CASE /\ closed /\ readable = 0
           /\ Return(r, {}, Result(r, -1, <<>>))
           /\ UNCHANGED ring
  <2>1. RingInv'
    <3>1. <<>> \in Seq(Data) /\ {} \in SUBSET Procs /\ 0 \in -1..Cap /\ -1 \in -1..Cap
      BY <1>0
    <3>2. CallInv' /\ RetInv'
      BY <1>0, <1>4, <3>1, ReturnFacts DEF RingInv
    <3> QED
      BY <1>4, <3>2, RingUnchanged DEF RingInv
  <2>2. contents = <<>>
    BY <1>1, <1>4, EmptySeq
  <2>3. Abstract!AbsRefuse(r)
    BY <1>0, <1>4, <2>2, RingUnchanged DEF Abstract!AbsRefuse, Return, Result, Abstract!Result
  <2> QED
    BY <2>1, <2>3 DEF QueueStep, Abstract!AbsNext
<1>5. CASE /\ ~empty /\ ~(closed /\ readable = 0)
           /\ entries' = new.entries /\ readIndex' = new.index
           /\ readable' = readable - n /\ writable' = writable + n
           /\ Return(r, Writers, Result(r, n, new.items))
           /\ UNCHANGED <<writeIndex, closed>>
  <2>1. n \in 0..readable /\ n \in -1..Cap
    BY <1>0 DEF Smaller
  <2>2. /\ IndexInv' /\ EntriesInv' /\ contents' = SubSeq(contents, n + 1, Len(contents))
        /\ new.items = SubSeq(contents, 1, n) /\ new.items \in Seq(Data)
    BY <1>5, <2>1, ReadStep
  <2>3. RingInv'
    BY <1>0, <1>5, <2>1, <2>2, ReturnFacts DEF RingInv, Procs
  <2>4. n = IF Len(contents) < Len(batch) THEN Len(contents) ELSE Len(batch)
    BY <1>0, <1>1 DEF Smaller
  <2>5. ~closed \/ contents # <<>>
    BY <1>1, <1>5, EmptySeq
  <2>6. Abstract!AbsRead(r)
    BY <1>0, <1>5, <2>2, <2>4, <2>5 DEF Abstract!AbsRead, Return, Result, Abstract!Result
  <2> QED
    BY <2>3, <2>6 DEF QueueStep, Abstract!AbsNext
<1> QED
  BY <1>2, <1>3, <1>4, <1>5 DEF doRead

\* The initial ring, empty or full, satisfies the invariant and is an initial queue.
LEMMA InitFacts == Init => RingInv /\ Abstract!AbsInit
<1> SUFFICES ASSUME Init PROVE RingInv /\ Abstract!AbsInit
  OBVIOUS
<1> USE DEF Init
<1>1. Cap \in Nat /\ Cap > 0 /\ MaxBatch \in Nat /\ Nil \notin Data
  BY RingAssumption DEF Nil
<1>2. IndexInv
  BY <1>1 DEF IndexInv
<1>3. EntriesInv
  <2>1. ASSUME NEW k \in Slots PROVE Slot(readIndex, k) \in Slots /\ k < Cap /\ ~(k < 0)
    BY <1>1 DEF Slots, Slot
  <2>2. CASE entries = [i \in Slots |-> Nil] /\ readable = 0
    BY <2>1, <2>2 DEF EntriesInv
  <2>3. CASE entries \in [Slots -> Data] /\ readable = Cap
    BY <1>1, <2>1, <2>3 DEF EntriesInv
  <2> QED
    BY <2>2, <2>3
<1>4. CallInv
  <2>1. <<>> \in Seq(Data) /\ <<>> \in Seq(Data \cup {Nil}) /\ Len(<<>>) <= MaxBatch
    BY <1>1
  <2> QED
    BY <2>1 DEF CallInv, Procs
<1>5. RetInv
  BY <1>1 DEF RetInv, Result
<1>6. Abstract!AbsInit
  <2>1. contents \in Seq(Data) /\ Len(contents) = readable
    BY <1>2, <1>3, ContentsFacts
  <2>2. contents = <<>> \/ contents \in [1..Cap -> Data]
    BY <2>1, EmptySeq, LenProperties
  <2> QED
    BY <2>2 DEF Abstract!AbsInit, Result, Abstract!Result
<1> QED
  BY <1>2, <1>3, <1>4, <1>5, <1>6 DEF RingInv

\* Every step keeps the invariant and is a step of the queue or none.
LEMMA NextFacts == RingInv /\ [Next]_vars => RingInv' /\ QueueStep
<1> SUFFICES ASSUME RingInv, [Next]_vars PROVE RingInv' /\ QueueStep
  OBVIOUS
<1>1. ASSUME NEW w \in Writers, Write(w) PROVE RingInv' /\ QueueStep
  BY <1>1, BatchesAreSeqs, WriteFacts DEF Write
<1>2. ASSUME NEW r \in Readers, Read(r) PROVE RingInv' /\ QueueStep
  <2>1. PICK k \in 0..MaxBatch, block \in BOOLEAN : doRead(r, [i \in 1..k |-> Nil], block)
    BY <1>2 DEF Read
  <2>2. k \in Nat /\ k <= MaxBatch /\ [i \in 1..k |-> Nil] \in [1..k -> Data \cup {Nil}]
    BY RingAssumption
  <2>3. /\ [i \in 1..k |-> Nil] \in Seq(Data \cup {Nil})
        /\ Len([i \in 1..k |-> Nil]) = k
    BY <2>2, FunctionIsSeq
  <2> QED
    BY <2>1, <2>2, <2>3, ReadFacts
<1>3. ASSUME NEW p \in Procs, Resume(p) PROVE RingInv' /\ QueueStep
  <2>1. /\ call[p] \in Seq(Data \cup {Nil}) /\ Len(call[p]) <= MaxBatch
        /\ p \in Writers => call[p] \in Seq(Data)
    BY DEF RingInv, CallInv
  <2>2. CASE p \in Writers /\ doWrite(p, call[p], TRUE)
    BY <2>1, <2>2, WriteFacts
  <2>3. CASE p \in Readers /\ doRead(p, call[p], TRUE)
    BY <2>1, <2>3, ReadFacts
  <2> QED
    BY <1>3, <2>2, <2>3 DEF Resume
<1>4. CASE Close
  <2>1. IndexInv' /\ EntriesInv' /\ contents' = contents
    BY <1>4 DEF RingInv, IndexInv, EntriesInv, Close, contents, Slots, Slot
  <2>2. CallInv' /\ RetInv'
    BY <1>4 DEF RingInv, CallInv, RetInv, Close, Broadcast
  <2>3. Abstract!AbsClose
    BY <1>4, <2>1 DEF Close, Abstract!AbsClose
  <2> QED
    BY <1>4, <2>1, <2>2, <2>3 DEF RingInv, QueueStep, Abstract!AbsNext, Close
<1>5. CASE UNCHANGED vars
  <2>1. CallInv' /\ RetInv'
    BY <1>5 DEF RingInv, CallInv, RetInv, vars
  <2> QED
    BY <1>5, <2>1, RingUnchanged DEF RingInv, QueueStep, Abstract!absVars, vars
<1> QED
  BY <1>1, <1>2, <1>3, <1>4, <1>5 DEF Next

\* The invariant says what TypeOK says.
LEMMA InvImpliesTypeOK == RingInv => TypeOK
<1> SUFFICES ASSUME RingInv PROVE TypeOK
  OBVIOUS
<1>1. Cap \in Nat /\ Cap > 0
  BY RingAssumption
<1>2. (readIndex + readable) % Cap = writeIndex % Cap
  <2>1. \A q \in 0..Cap : (q + Cap) % Cap = q % Cap
    BY <1>1
  <2> QED
    BY <1>1, <2>1 DEF RingInv, IndexInv
<1>3. \A i \in Slots : entries[(readIndex + i) % Cap] # Nil <=> i < readable
  BY SlotIsRemainder DEF RingInv, IndexInv, EntriesInv
<1> QED
  BY <1>2, <1>3 DEF TypeOK, RingInv, IndexInv, EntriesInv, CallInv, RetInv

---------------------------------------------------------------------------
(* The theorems.                                                            *)

\* In every reachable state the counters, the indices and the entries of the ring
\* agree: exactly the readable places are not nil (Ring.write, Ring.read).
THEOREM RingTypeOK == Spec => []TypeOK
<1>1. Init => RingInv
  BY InitFacts
<1>2. RingInv /\ [Next]_vars => RingInv'
  BY NextFacts
<1> QED
  BY <1>1, <1>2, InvImpliesTypeOK, PTL DEF Spec

\* The ring is a first-in first-out queue for its callers, whatever its capacity and
\* however calls, waits and Close interleave.
THEOREM RingImplementsQueue == Spec => ImplementsQueue
<1>1. Init => RingInv /\ Abstract!AbsInit
  BY InitFacts
<1>2. RingInv /\ [Next]_vars => RingInv' /\ [Abstract!AbsNext]_(Abstract!absVars)
  BY NextFacts DEF QueueStep
<1> QED
  BY <1>1, <1>2, PTL DEF Spec, ImplementsQueue, Abstract!AbsSpec

\* No goroutine waits for room that is there, for entries that are there, or on a ring
\* that is closed: every step that makes room, entries or the end of the ring visible
\* broadcasts on the condition of those that wait for it.
THEOREM RingNoLostWakeup == Spec => []NoLostWakeup
<1>1. Init => NoLostWakeup
  BY DEF Init, NoLostWakeup
<1>2. RingInv /\ NoLostWakeup /\ [Next]_vars => NoLostWakeup'
  <2> SUFFICES ASSUME RingInv, NoLostWakeup, [Next]_vars PROVE NoLostWakeup'
    OBVIOUS
  <2>0. /\ Cap \in Nat /\ Writers \cap Readers = {}
        /\ readable \in 0..Cap /\ writable = Cap - readable
        /\ DOMAIN pc = Procs
    BY RingAssumption DEF RingInv, IndexInv, CallInv
  <2>1. ASSUME NEW w \in Writers, NEW batch, Len(batch) \in Nat, NEW block, doWrite(w, batch, block)
        PROVE  NoLostWakeup'
    <3> DEFINE n == Smaller(writable, Len(batch))
    <3>1. CASE Return(w, {}, Result(w, 0, <<>>)) /\ UNCHANGED ring
      BY <2>0, <3>1 DEF NoLostWakeup, Return, Broadcast, ring, Procs
    <3>2. CASE Len(batch) > 0 /\ writable = 0 /\ ~closed /\ Wait(w, batch)
      BY <2>0, <3>2 DEF NoLostWakeup, Wait, ring, Procs
    <3>3. CASE Return(w, {}, Result(w, -1, <<>>)) /\ UNCHANGED ring
      BY <2>0, <3>3 DEF NoLostWakeup, Return, Broadcast, ring, Procs
    <3>4. CASE /\ ~(Len(batch) > 0 /\ writable = 0 /\ ~closed) /\ ~closed
               /\ writable' = writable - n /\ readable' = readable + n
               /\ Return(w, Readers, Result(w, n, SubSeq(batch, 1, n)))
               /\ UNCHANGED <<readIndex, closed>>
      <4>1. writable = 0 => writable' = 0
        BY <2>0, <2>1, <3>4 DEF Smaller
      <4>2. \A p \in Procs : pc'[p] = "waiting" => pc[p] = "waiting" /\ p \notin Readers
        BY <2>0, <3>4 DEF Return, Broadcast, Procs
      <4> QED
        BY <2>0, <3>4, <4>1, <4>2 DEF NoLostWakeup
    <3> QED
      BY <2>1, <3>1, <3>2, <3>3, <3>4 DEF doWrite
  <2>2. ASSUME NEW r \in Readers, NEW batch, Len(batch) \in Nat, NEW block, doRead(r, batch, block)
        PROVE  NoLostWakeup'
    <3> DEFINE n == Smaller(readable, Len(batch))
    <3>1. CASE Return(r, {}, Result(r, 0, <<>>)) /\ UNCHANGED ring
      BY <2>0, <3>1 DEF NoLostWakeup, Return, Broadcast, ring, Procs
    <3>2. CASE Len(batch) > 0 /\ readable = 0 /\ ~closed /\ Wait(r, batch)
      BY <2>0, <3>2 DEF NoLostWakeup, Wait, ring, Procs
    <3>3. CASE Return(r, {}, Result(r, -1, <<>>)) /\ UNCHANGED ring
      BY <2>0, <3>3 DEF NoLostWakeup, Return, Broadcast, ring, Procs
    <3>4. CASE /\ ~(Len(batch) > 0 /\ readable = 0 /\ ~closed) /\ ~(closed /\ readable = 0)
               /\ readable' = readable - n /\ writable' = writable + n
               /\ Return(r, Writers, Result(r, n, took(n).items))
               /\ UNCHANGED <<writeIndex, closed>>
      <4>1. readable = 0 => readable' = 0
        BY <2>0, <2>2, <3>4 DEF Smaller
      <4>2. \A p \in Procs : pc'[p] = "waiting" => pc[p] = "waiting" /\ p \notin Writers
        BY <2>0, <3>4 DEF Return, Broadcast, Procs
      <4> QED
        BY <2>0, <3>4, <4>1, <4>2 DEF NoLostWakeup
    <3> QED
      BY <2>2, <3>1, <3>2, <3>3, <3>4 DEF doRead
  <2>3. ASSUME NEW w \in Writers, Write(w) PROVE NoLostWakeup'
    <3>1. \A b \in Batches : Len(b) \in Nat
      BY BatchesAreSeqs
    <3> QED
      BY <2>1, <2>3, <3>1 DEF Write
  <2>4. ASSUME NEW r \in Readers, Read(r) PROVE NoLostWakeup'
    <3>1. \A k \in 0..MaxBatch : Len([i \in 1..k |-> Nil]) \in Nat
      BY RingAssumption
    <3> QED
      BY <2>2, <2>4, <3>1 DEF Read
  <2>5. ASSUME NEW p \in Procs, Resume(p) PROVE NoLostWakeup'
    <3>1. Len(call[p]) \in Nat
      BY DEF RingInv, CallInv
    <3> QED
      BY <2>1, <2>2, <2>5, <3>1 DEF Resume
  <2>6. CASE Close
    BY <2>6 DEF Close, Broadcast, NoLostWakeup
  <2>7. CASE UNCHANGED vars
    BY <2>7 DEF vars, ring, NoLostWakeup
  <2> QED
    BY <2>3, <2>4, <2>5, <2>6, <2>7 DEF Next
<1>3. Init => RingInv
  BY InitFacts
<1>4. RingInv /\ [Next]_vars => RingInv'
  BY NextFacts
<1> QED
  BY <1>1, <1>2, <1>3, <1>4, PTL DEF Spec

=============================================================================
