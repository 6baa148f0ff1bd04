---------------------------- MODULE BoundedQueue ----------------------------
(* What callers of a ring buffer rely on (private/ringbuf, the comments of     *)
(* Write, Read and Close): a first-in first-out queue of bounded length.  A    *)
(* call takes effect at one moment between its start and its return.           *)
EXTENDS Integers, SequencesExt

CONSTANTS
    Cap,                \* number of entries, the count of New
    Data,               \* what is stored
    Writers, Readers,   \* goroutines that call Write, and that call Read
    MaxBatch            \* bound: length of the slices they pass

VARIABLES
    queue,      \* the entries written and not yet read
    closed,     \* Close was called
    ret         \* the call that returned last: its result, the entries it wrote or read

absVars == <<queue, closed, ret>>

Batches == BoundedSeq(Data, MaxBatch)

Result(p, n, items) == [proc |-> p, n |-> n, items |-> items]

AbsInit ==
    /\ \/ queue = <<>>
       \/ queue \in [1..Cap -> Data]
    /\ closed = FALSE
    /\ ret = Result("none", 0, <<>>)

\* As much of the batch as fits; nothing, from a call that does not block, when full.
AbsWrite(w) ==
    \E batch \in Batches :
        LET n == IF Cap - Len(queue) < Len(batch) THEN Cap - Len(queue) ELSE Len(batch)
        IN  /\ ~closed
            /\ queue' = queue \o SubSeq(batch, 1, n)
            /\ ret' = Result(w, n, SubSeq(batch, 1, n))
            /\ UNCHANGED closed

\* The oldest entries, as many as there is room for; also from a closed queue.
AbsRead(r) ==
    \E k \in 0..MaxBatch :
        LET n == IF Len(queue) < k THEN Len(queue) ELSE k
        IN  /\ ~closed \/ queue # <<>>
            /\ queue' = SubSeq(queue, n + 1, Len(queue))
            /\ ret' = Result(r, n, SubSeq(queue, 1, n))
            /\ UNCHANGED closed

\* A closed queue accepts nothing, and tells readers so when it is empty.
AbsRefuse(p) ==
    /\ closed
    /\ p \in Readers => queue = <<>>
    /\ ret' = Result(p, -1, <<>>)
    /\ UNCHANGED <<queue, closed>>

AbsClose == closed' = TRUE /\ UNCHANGED <<queue, ret>>

AbsNext ==
    \/ \E w \in Writers : AbsWrite(w)
    \/ \E r \in Readers : AbsRead(r)
    \/ \E p \in Writers \cup Readers : AbsRefuse(p)
    \/ AbsClose

AbsSpec == AbsInit /\ [][AbsNext]_absVars
=============================================================================
