------------------------------ MODULE RingBuf ------------------------------
(* The ring buffer of private/ringbuf: a slice with a read and a write index,  *)
(* used by goroutines that pass slices of entries and wait on two conditions.  *)
(* What a goroutine does while it holds the mutex is one step; waiting on a    *)
(* condition gives the mutex up, and a goroutine that was woken tests again.   *)
EXTENDS Integers, SequencesExt

CONSTANTS
    Cap,                \* number of entries, the count of New
    Data,               \* what is stored
    Writers, Readers,   \* goroutines that call Write, and that call Read
    MaxBatch            \* bound: length of the slices they pass

ASSUME RingAssumption ==
    /\ Cap \in Nat \ {0}
    /\ MaxBatch \in Nat \ {0}
    /\ Writers \cap Readers = {}
    /\ "nil" \notin Data

VARIABLES
    entries,            \* Ring.entries, indexed from 0
    writeIndex, readIndex,
    writable, readable,
    closed,
    pc,                 \* "idle", "waiting" on its condition, or "woken"
    call,               \* the slice a goroutine passed to its current call
    ret                 \* the call that returned last: its result, the entries it wrote or read

ring == <<entries, writeIndex, readIndex, writable, readable, closed>>
vars == <<ring, pc, call, ret>>

Procs == Writers \cup Readers
Slots == 0..(Cap - 1)
Nil == "nil"
Batches == BoundedSeq(Data, MaxBatch)

Result(p, n, items) == [proc |-> p, n |-> n, items |-> items]

Smaller(x, y) == IF x < y THEN x ELSE y

\* New without newf: an empty ring; with newf: a full one.
Init ==
    /\ \/ /\ entries = [i \in Slots |-> Nil]
          /\ writable = Cap /\ readable = 0
       \/ /\ entries \in [Slots -> Data]
          /\ writable = 0 /\ readable = Cap
    /\ writeIndex = 0 /\ readIndex = 0
    /\ closed = FALSE
    /\ pc = [p \in Procs |-> "idle"]
    /\ call = [p \in Procs |-> <<>>]
    /\ ret = Result("none", 0, <<>>)

\* Broadcast on a condition: all that wait on it are woken.
Broadcast(procs) == [p \in Procs |-> IF p \in procs /\ pc[p] = "waiting" THEN "woken" ELSE pc[p]]

---------------------------------------------------------------------------
(* The copies of write and read: up to the end of the slice, then from its      *)
(* start.  An index rests at Cap when a copy ends exactly there.                *)

\* Mutants: the index is reset to the start of the slice, not behind the second
\* copy; the second copy starts with the first entry of the batch again.
wroteResetsIndex(batch) ==
    LET n == Smaller(Cap - writeIndex, Len(batch))
        rest == Len(batch) - n
    IN  [entries |-> [i \in Slots |->
            IF i < rest THEN batch[n + i + 1]
            ELSE IF i >= writeIndex /\ i - writeIndex < n THEN batch[i - writeIndex + 1]
            ELSE entries[i]],
         index |-> IF rest > 0 THEN 0 ELSE writeIndex + n]
wroteRestartsBatch(batch) ==
    LET n == Smaller(Cap - writeIndex, Len(batch))
        rest == Len(batch) - n
    IN  [entries |-> [i \in Slots |->
            IF i < rest THEN batch[i + 1]
            ELSE IF i >= writeIndex /\ i - writeIndex < n THEN batch[i - writeIndex + 1]
            ELSE entries[i]],
         index |-> IF rest > 0 THEN rest ELSE writeIndex + n]

wrote(batch) ==
    LET n == Smaller(Cap - writeIndex, Len(batch))
        rest == Len(batch) - n
    IN  [entries |-> [i \in Slots |->
            IF i < rest THEN batch[n + i + 1]
            ELSE IF i >= writeIndex /\ i - writeIndex < n THEN batch[i - writeIndex + 1]
            ELSE entries[i]],
         index |-> IF rest > 0 THEN rest ELSE writeIndex + n]

\* What is read is set to nil.
took(k) ==
    LET n == Smaller(Cap - readIndex, k)
        rest == k - n
        taken == {i \in Slots : i < rest \/ (i >= readIndex /\ i - readIndex < n)}
    IN  [items |-> [i \in 1..k |-> IF i <= n THEN entries[readIndex + i - 1] ELSE entries[i - n - 1]],
         entries |-> [i \in Slots |-> IF i \in taken THEN Nil ELSE entries[i]],
         index |-> IF rest > 0 THEN rest ELSE readIndex + n]

---------------------------------------------------------------------------
(* Calls.  The first step of a call and the step of a goroutine that was woken  *)
(* differ only in that the latter is bound to block.                            *)

Wait(p, batch) ==
    /\ pc' = [pc EXCEPT ![p] = "waiting"]
    /\ call' = [call EXCEPT ![p] = batch]
    /\ UNCHANGED <<ring, ret>>

Return(p, wake, result) ==
    /\ pc' = [Broadcast(wake) EXCEPT ![p] = "idle"]
    /\ call' = [call EXCEPT ![p] = <<>>]
    /\ ret' = result

\* Mutant: a write wakes the writers, as a read does.
doWriteWakesWriters(w, batch, block) ==
    LET full == Len(batch) > 0 /\ writable = 0 /\ ~closed
        n == Smaller(writable, Len(batch))
    IN  IF full /\ block THEN Wait(w, batch)
        ELSE IF closed THEN Return(w, {}, Result(w, -1, <<>>)) /\ UNCHANGED ring
        ELSE /\ entries' = wrote(SubSeq(batch, 1, n)).entries
             /\ writeIndex' = wrote(SubSeq(batch, 1, n)).index
             /\ writable' = writable - n /\ readable' = readable + n
             /\ Return(w, Writers, Result(w, n, SubSeq(batch, 1, n)))
             /\ UNCHANGED <<readIndex, closed>>

doWrite(w, batch, block) ==
    LET full == Len(batch) > 0 /\ writable = 0 /\ ~closed
        n == Smaller(writable, Len(batch))
        new == wrote(SubSeq(batch, 1, n))
    IN  \/ /\ full /\ ~block
           /\ Return(w, {}, Result(w, 0, <<>>))
           /\ UNCHANGED ring
        \/ /\ full /\ block
           /\ Wait(w, batch)
        \/ /\ closed
           /\ Return(w, {}, Result(w, -1, <<>>))
           /\ UNCHANGED ring
        \/ /\ ~full /\ ~closed
           /\ entries' = new.entries /\ writeIndex' = new.index
           /\ writable' = writable - n /\ readable' = readable + n
           /\ Return(w, Readers, Result(w, n, SubSeq(batch, 1, n)))
           /\ UNCHANGED <<readIndex, closed>>

\* The slice passed to Read matters by its length only.
doRead(r, batch, block) ==
    LET empty == Len(batch) > 0 /\ readable = 0 /\ ~closed
        n == Smaller(readable, Len(batch))
        new == took(n)
    IN  \/ /\ empty /\ ~block
           /\ Return(r, {}, Result(r, 0, <<>>))
           /\ UNCHANGED ring
        \/ /\ empty /\ block
           /\ Wait(r, batch)
        \/ /\ closed /\ readable = 0
           /\ Return(r, {}, Result(r, -1, <<>>))
           /\ UNCHANGED ring
        \/ /\ ~empty /\ ~(closed /\ readable = 0)
           /\ entries' = new.entries /\ readIndex' = new.index
           /\ readable' = readable - n /\ writable' = writable + n
           /\ Return(r, Writers, Result(r, n, new.items))
           /\ UNCHANGED <<writeIndex, closed>>

Write(w) == pc[w] = "idle" /\ \E batch \in Batches, block \in BOOLEAN : doWrite(w, batch, block)

Read(r) ==
    /\ pc[r] = "idle"
    /\ \E k \in 0..MaxBatch, block \in BOOLEAN : doRead(r, [i \in 1..k |-> Nil], block)

\* A goroutine that was woken has the mutex again.
Resume(p) ==
    /\ pc[p] = "woken"
    /\ \/ p \in Writers /\ doWrite(p, call[p], TRUE)
       \/ p \in Readers /\ doRead(p, call[p], TRUE)

\* Mutant: only the writers are notified.
CloseForgetsReaders ==
    /\ closed' = TRUE
    /\ pc' = Broadcast(Writers)
    /\ UNCHANGED <<entries, writeIndex, readIndex, writable, readable, call, ret>>

Close ==
    /\ closed' = TRUE
    /\ pc' = Broadcast(Procs)
    /\ UNCHANGED <<entries, writeIndex, readIndex, writable, readable, call, ret>>

Next ==
    \/ \E w \in Writers : Write(w)
    \/ \E r \in Readers : Read(r)
    \/ \E p \in Procs : Resume(p)
    \/ Close

Spec == Init /\ [][Next]_vars

\* A goroutine that was woken gets the mutex in the end (sync.Mutex does not starve
\* those that wait for it); whether anybody calls Write, Read or Close is left open.
SpecLive == Spec /\ \A p \in Procs : WF_vars(Resume(p))

---------------------------------------------------------------------------
(* Properties.                                                                 *)

\* The counters agree with the indices: between them lie the readable entries, none
\* of them nil, and outside of them nothing is kept alive.
TypeOK ==
    /\ entries \in [Slots -> Data \cup {Nil}]
    /\ writeIndex \in 0..Cap /\ readIndex \in 0..Cap
    /\ readable \in 0..Cap /\ writable = Cap - readable
    /\ (readIndex + readable) % Cap = writeIndex % Cap
    /\ \A i \in Slots : entries[(readIndex + i) % Cap] # Nil <=> i < readable
    /\ closed \in BOOLEAN
    /\ pc \in [Procs -> {"idle", "waiting", "woken"}]
    /\ \A p \in Procs : call[p] \in Seq(Data \cup {Nil})
    /\ ret \in [proc : Procs \cup {"none"}, n : -1..Cap, items : Seq(Data)]

\* No wake-up is lost: a goroutine waits only for what is not there, and on a ring
\* that is not closed, however calls, wake-ups and Close interleave (the two
\* conditions of Ring).
NoLostWakeup ==
    \A p \in Procs : pc[p] = "waiting" =>
        /\ ~closed
        /\ p \in Writers => writable = 0
        /\ p \in Readers => readable = 0

\* Close ends every call, also of goroutines that wait or have been woken and find
\* nothing for them: nobody hangs on a ring that is no longer used ("causes all
\* blocked readers/writers to be notified").
CloseReleasesAll == closed ~> \A p \in Procs : pc[p] = "idle"

contents == [i \in 1..readable |-> entries[(readIndex + i - 1) % Cap]]

\* The ring is a first-in first-out queue: no entry is lost, duplicated, reordered or
\* made up where a batch wraps around the end, and a closed ring is drained before
\* readers are told (Write, Read).
Abstract == INSTANCE BoundedQueue WITH queue <- contents
ImplementsQueue == Abstract!AbsSpec
=============================================================================
