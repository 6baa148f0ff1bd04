--------------------------- MODULE GatewayProofs ---------------------------
(***************************************************************************)
(* The gateways deliver only whole packets that hosts sent, once each unless *)
(* the network duplicates a frame, lose nothing that a sender accepted, and  *)
(* account for every frame buffer, for all packets, paths and frame sizes.   *)
(***************************************************************************)
EXTENDS Gateway, SequenceTheorems, ProofBasics

---------------------------------------------------------------------------
(* Cells.  Sent(n) are the cells of the packets before n that can be sent.   *)

Sent(n) == {c \in [pkt : Pkts, off : Nat] :
              c.pkt < n /\ c.pkt \notin Invalid /\ c.off < PktLen[c.pkt]}

IsEnd(c) == c.off = PktLen[c.pkt] - 1

\* Cell d comes behind c in what a sender sends.
Follows(c, d) == IF IsEnd(c) THEN d.off = 0 ELSE d.pkt = c.pkt /\ d.off = c.off + 1

\* Cells in the order of a sender, without a gap.
Chain(cells) == \A i \in 1 .. (Len(cells) - 1) : Follows(cells[i], cells[i + 1])

\* The packets before n that can be sent, as cells.
Whole(n) == {Cells(p) : p \in {q \in Pkts : q < n /\ q \notin Invalid}}

\* The last cell of a packet.
EndOf(p) == [pkt |-> p, off |-> PktLen[p] - 1]

Has(cells, c) == \E i \in 1 .. Len(cells) : cells[i] = c
Distinct(seq) == \A i, j \in 1 .. Len(seq) : seq[i] = seq[j] => i = j

\* The packets end in these cells, at places from lo to hi, and are different ones
\* if the cells are.
Brought(pkts, cells, lo, hi) ==
  /\ \A j \in 1 .. Len(pkts) : \E p \in Pkts : \E x \in 1 .. Len(cells) :
       lo <= x /\ x <= hi /\ pkts[j] = Cells(p) /\ cells[x] = EndOf(p)
  /\ Distinct(cells) => Distinct(pkts)

\* Packets have a length.
LEMMA PacketFacts ==
  /\ Pkts = 1 .. Len(PktLen) /\ Len(PktLen) \in Nat
  /\ \A p \in Pkts : PktLen[p] \in Nat /\ PktLen[p] >= 1 /\ p \in Nat /\ HeaderLen(p) \in {1, 2}
  /\ Mtu \in Nat /\ Mtu >= 3 /\ Mtu < NoStart /\ NoStart \in Nat
<1>1. Pkts = 1 .. Len(PktLen) /\ Len(PktLen) \in Nat /\ \A p \in Pkts : PktLen[p] \in Nat
  BY GatewayAssumption DEF Pkts
<1>2. ASSUME NEW p \in Pkts PROVE HeaderLen(p) \in {1, 2} /\ HeaderLen(p) >= 1 /\ p \in Nat
  BY <1>1 DEF HeaderLen
<1>3. ASSUME NEW p \in Pkts PROVE PktLen[p] >= 1
  <2>1. PktLen[p] >= HeaderLen(p) /\ PktLen[p] \in Nat
    BY <1>1, GatewayAssumption
  <2> QED
    BY ONLY <1>2, <2>1
<1>4. Mtu \in Nat /\ Mtu >= 3 /\ Mtu < NoStart /\ NoStart \in Nat
  <2>1. Mtu \in 3 .. (NoStart - 1)
    BY GatewayAssumption
  <2>2. NoStart \in Nat
    BY DEF NoStart
  <2> QED
    BY <2>1, <2>2
<1> QED
  BY <1>1, <1>2, <1>3, <1>4

\* A cell that was sent is a cell.
LEMMA SentFacts ==
  ASSUME NEW n \in Nat, NEW c \in Sent(n)
  PROVE  /\ c.pkt \in Pkts /\ c.pkt < n /\ c.pkt \notin Invalid /\ c.off \in Nat
         /\ PktLen[c.pkt] \in Nat /\ c.off < PktLen[c.pkt]
         /\ c = [pkt |-> c.pkt, off |-> c.off]
BY PacketFacts DEF Sent

\* The cells of a packet.
LEMMA CellsFacts ==
  ASSUME NEW n \in Nat, NEW p \in Pkts, p < n, p \notin Invalid
  PROVE  /\ Cells(p) \in Seq(Sent(n)) /\ Len(Cells(p)) = PktLen[p] /\ PktLen[p] >= 1
         /\ PktLen[p] \in Nat
         /\ \A i \in 1 .. PktLen[p] : Cells(p)[i] = [pkt |-> p, off |-> i - 1]
         /\ Chain(Cells(p)) /\ Cells(p) \in Whole(n)
<1>1. PktLen[p] \in Nat /\ PktLen[p] >= 1
  BY PacketFacts
<1>2. ASSUME NEW i \in 1 .. PktLen[p] PROVE [pkt |-> p, off |-> i - 1] \in Sent(n)
  BY <1>1, <1>2 DEF Sent
<1>3. Cells(p) \in Seq(Sent(n)) /\ Len(Cells(p)) = PktLen[p]
  <2>1. Cells(p) \in [1 .. PktLen[p] -> Sent(n)]
    BY <1>1, <1>2 DEF Cells
  <2>2. Cells(p) \in Seq(Sent(n))
    BY <1>1, <2>1
  <2> QED
    BY <1>1, <2>1, <2>2, LenProperties
<1>4. \A i \in 1 .. PktLen[p] : Cells(p)[i] = [pkt |-> p, off |-> i - 1]
  BY DEF Cells
<1>5. Chain(Cells(p))
  <2> SUFFICES ASSUME NEW i \in 1 .. (PktLen[p] - 1) PROVE Follows(Cells(p)[i], Cells(p)[i + 1])
    BY <1>3 DEF Chain
  <2>1. i \in 1 .. PktLen[p] /\ i + 1 \in 1 .. PktLen[p]
    BY <1>1
  <2>2. Cells(p)[i] = [pkt |-> p, off |-> i - 1] /\ Cells(p)[i + 1] = [pkt |-> p, off |-> (i + 1) - 1]
    BY <1>4, <2>1
  <2> QED
    BY <1>1, <2>2 DEF Follows, IsEnd
<1>6. Cells(p) \in Whole(n)
  BY DEF Whole
<1> QED
  BY <1>1, <1>3, <1>4, <1>5, <1>6

\* More cells can have been sent once more packets have come.
LEMMA SentMonotone ==
  ASSUME NEW n \in Nat
  PROVE  Sent(n) \subseteq Sent(n + 1) /\ Whole(n) \subseteq Whole(n + 1)
<1>1. \A p \in Pkts : p < n => p < n + 1
  BY PacketFacts
<1>2. Sent(n) \subseteq Sent(n + 1)
  BY <1>1 DEF Sent
<1>3. Whole(n) \subseteq Whole(n + 1)
  BY <1>1 DEF Whole
<1> QED
  BY <1>2, <1>3

\* Part of a chain is a chain.
LEMMA ChainPart ==
  ASSUME NEW n \in Nat, NEW cells \in Seq(Sent(n)), Chain(cells),
         NEW a \in Nat, NEW b \in Nat, a >= 1, b <= Len(cells), a <= b + 1
  PROVE  /\ SubSeq(cells, a, b) \in Seq(Sent(n)) /\ Len(SubSeq(cells, a, b)) = (b - a) + 1
         /\ \A i \in 1 .. ((b - a) + 1) : SubSeq(cells, a, b)[i] = cells[(a + i) - 1]
         /\ Chain(SubSeq(cells, a, b))
<1>1. Len(cells) \in Nat /\ DOMAIN cells = 1 .. Len(cells)
  OBVIOUS
<1>2. /\ SubSeq(cells, a, b) \in Seq(Sent(n)) /\ Len(SubSeq(cells, a, b)) = (b - a) + 1
      /\ \A i \in 1 .. ((b - a) + 1) : SubSeq(cells, a, b)[i] = cells[(a + i) - 1]
  BY <1>1, SubSeqProperties
<1>3. ASSUME NEW i \in 1 .. (b - a)
      PROVE Follows(SubSeq(cells, a, b)[i], SubSeq(cells, a, b)[i + 1])
  <2>1. i \in 1 .. ((b - a) + 1) /\ i + 1 \in 1 .. ((b - a) + 1)
    OBVIOUS
  <2>2. (a + i) - 1 \in 1 .. (Len(cells) - 1) /\ (a + (i + 1)) - 1 = ((a + i) - 1) + 1
    BY <1>1
  <2>3. Follows(cells[(a + i) - 1], cells[((a + i) - 1) + 1])
    BY <2>2 DEF Chain
  <2> QED
    BY <1>2, <2>1, <2>2, <2>3
<1>4. Chain(SubSeq(cells, a, b))
  <2>1. Len(SubSeq(cells, a, b)) - 1 = b - a
    BY <1>2
  <2> QED
    BY <1>3, <2>1 DEF Chain
<1> QED
  BY <1>2, <1>4

\* Two chains are one if the second begins where the first ends.
LEMMA ChainJoin ==
  ASSUME NEW n \in Nat, NEW c \in Seq(Sent(n)), NEW d \in Seq(Sent(n)), Chain(c), Chain(d),
         c # <<>> /\ d # <<>> => Follows(c[Len(c)], d[1])
  PROVE  /\ c \o d \in Seq(Sent(n)) /\ Len(c \o d) = Len(c) + Len(d) /\ Chain(c \o d)
         /\ \A i \in 1 .. Len(c) : (c \o d)[i] = c[i]
         /\ \A i \in 1 .. Len(d) : (c \o d)[Len(c) + i] = d[i]
<1>1. Len(c) \in Nat /\ Len(d) \in Nat
  OBVIOUS
<1>2. /\ c \o d \in Seq(Sent(n)) /\ Len(c \o d) = Len(c) + Len(d)
      /\ \A i \in 1 .. (Len(c) + Len(d)) : (c \o d)[i] = IF i <= Len(c) THEN c[i] ELSE d[i - Len(c)]
  BY ConcatProperties
<1>3. \A i \in 1 .. Len(c) : (c \o d)[i] = c[i]
  BY <1>1, <1>2
<1>4. ASSUME NEW i \in 1 .. Len(d) PROVE (c \o d)[Len(c) + i] = d[i]
  <2>1. Len(c) + i \in 1 .. (Len(c) + Len(d)) /\ ~(Len(c) + i <= Len(c)) /\ (Len(c) + i) - Len(c) = i
    BY <1>1
  <2> QED
    BY <1>2, <2>1
<1>5. ASSUME NEW i \in 1 .. ((Len(c) + Len(d)) - 1) PROVE Follows((c \o d)[i], (c \o d)[i + 1])
  <2>1. CASE i < Len(c)
    <3>1. i \in 1 .. Len(c) /\ i + 1 \in 1 .. Len(c) /\ i \in 1 .. (Len(c) - 1)
      BY <1>1, <2>1
    <3>2. Follows(c[i], c[i + 1])
      BY <3>1 DEF Chain
    <3> QED
      BY <1>3, <3>1, <3>2
  <2>2. CASE i = Len(c)
    <3>1. i \in 1 .. Len(c) /\ 1 \in 1 .. Len(d) /\ i + 1 = Len(c) + 1
      BY <1>1, <2>2
    <3>2. c # <<>> /\ d # <<>>
      BY <3>1
    <3>3. (c \o d)[i] = c[Len(c)] /\ (c \o d)[i + 1] = d[1]
      BY <1>3, <1>4, <2>2, <3>1
    <3> QED
      BY <3>2, <3>3
  <2>3. CASE i > Len(c)
    <3> DEFINE j == i - Len(c)
    <3>1. /\ j \in 1 .. Len(d) /\ j + 1 \in 1 .. Len(d) /\ j \in 1 .. (Len(d) - 1)
          /\ i = Len(c) + j /\ i + 1 = Len(c) + (j + 1)
      BY <1>1, <2>3
    <3> HIDE DEF j
    <3>2. Follows(d[j], d[j + 1])
      BY <3>1 DEF Chain
    <3> QED
      BY <1>4, <3>1, <3>2
  <2> QED
    BY <1>1, <2>1, <2>2, <2>3
<1>6. Chain(c \o d)
  BY <1>2, <1>5 DEF Chain
<1> QED
  BY <1>2, <1>3, <1>4, <1>6

\* Where a packet starts in a chain, its cells follow in order as far as the chain goes.
LEMMA ChainInside ==
  ASSUME NEW n \in Nat, NEW cells \in Seq(Sent(n)), Chain(cells),
         NEW i \in 1 .. Len(cells), cells[i].off = 0
  PROVE  \A k \in Nat : k < PktLen[cells[i].pkt] /\ i + k <= Len(cells) =>
           cells[i + k] = [pkt |-> cells[i].pkt, off |-> k]
<1> DEFINE p == cells[i].pkt
           L == PktLen[p]
           P == {k \in Nat : k < L /\ i + k <= Len(cells) => cells[i + k] = [pkt |-> p, off |-> k]}
<1>1. /\ Len(cells) \in Nat /\ DOMAIN cells = 1 .. Len(cells)
      /\ \A j \in 1 .. Len(cells) : cells[j] \in Sent(n)
  OBVIOUS
<1>2. p \in Pkts /\ p < n /\ p \notin Invalid /\ cells[i] = [pkt |-> p, off |-> 0]
  BY <1>1, SentFacts
<1>3. L \in Nat /\ L >= 1 /\ p \in Nat
  BY <1>2, PacketFacts
<1> HIDE DEF L, p
<1>4. 0 \in P
  BY <1>2
<1>5. ASSUME NEW k \in Nat, k \in P PROVE k + 1 \in P
  <2> SUFFICES ASSUME k + 1 < L, i + (k + 1) <= Len(cells)
               PROVE  cells[i + (k + 1)] = [pkt |-> p, off |-> k + 1]
    OBVIOUS
  <2>1. cells[i + k] = [pkt |-> p, off |-> k]
    BY <1>1, <1>3, <1>5
  <2>2. i + k \in 1 .. (Len(cells) - 1) /\ (i + k) + 1 = i + (k + 1) /\ i + (k + 1) \in 1 .. Len(cells)
    BY <1>1, <1>3
  <2>3. Follows(cells[i + k], cells[i + (k + 1)])
    BY <2>2 DEF Chain
  <2>4. ~IsEnd(cells[i + k])
    BY <1>3, <2>1 DEF IsEnd, L
  <2>5. cells[i + (k + 1)].pkt = p /\ cells[i + (k + 1)].off = k + 1
    BY <2>1, <2>3, <2>4 DEF Follows
  <2>6. cells[i + (k + 1)] \in Sent(n)
    BY <1>1, <2>2
  <2> QED
    BY <2>5, <2>6, SentFacts
<1> HIDE DEF P
<1>6. Nat \subseteq P
  BY <1>4, <1>5, SetInduction
<1> QED
  BY <1>6 DEF P, L, p

\* Where a packet starts in a chain that is long enough, the whole packet follows.
LEMMA ChainPacket ==
  ASSUME NEW n \in Nat, NEW cells \in Seq(Sent(n)), Chain(cells),
         NEW i \in 1 .. Len(cells), cells[i].off = 0,
         (i + PktLen[cells[i].pkt]) - 1 <= Len(cells)
  PROVE  /\ SubSeq(cells, i, (i + PktLen[cells[i].pkt]) - 1) \in Whole(n)
         /\ SubSeq(cells, i, (i + PktLen[cells[i].pkt]) - 1) = Cells(cells[i].pkt)
         /\ cells[(i + PktLen[cells[i].pkt]) - 1] = EndOf(cells[i].pkt)
<1> DEFINE p == cells[i].pkt
           L == PktLen[p]
<1>1. /\ Len(cells) \in Nat /\ DOMAIN cells = 1 .. Len(cells)
      /\ \A j \in 1 .. Len(cells) : cells[j] \in Sent(n)
  OBVIOUS
<1>2. p \in Pkts /\ p < n /\ p \notin Invalid
  BY <1>1, SentFacts
<1>3. L \in Nat /\ L >= 1 /\ p \in Nat
  BY <1>2, PacketFacts
<1>4. (i + L) - 1 <= Len(cells)
  OBVIOUS
<1>5. \A k \in Nat : k < L /\ i + k <= Len(cells) => cells[i + k] = [pkt |-> p, off |-> k]
  BY ChainInside
<1> HIDE DEF L, p
<1>6. /\ SubSeq(cells, i, (i + L) - 1) \in Seq(Sent(n)) /\ Len(SubSeq(cells, i, (i + L) - 1)) = L
      /\ \A j \in 1 .. L : SubSeq(cells, i, (i + L) - 1)[j] = cells[(i + j) - 1]
  <2>1. /\ i \in Nat /\ (i + L) - 1 \in Nat /\ i >= 1 /\ i <= ((i + L) - 1) + 1
        /\ (((i + L) - 1) - i) + 1 = L
    BY <1>1, <1>3
  <2> QED
    BY <1>1, <1>4, <2>1, ChainPart
<1>7. ASSUME NEW j \in 1 .. L PROVE cells[(i + j) - 1] = Cells(p)[j]
  <2>1. j - 1 \in Nat /\ j - 1 < L /\ i + (j - 1) = (i + j) - 1 /\ i + (j - 1) <= Len(cells)
    BY <1>1, <1>3, <1>4
  <2>2. cells[i + (j - 1)] = [pkt |-> p, off |-> j - 1]
    BY <1>5, <2>1
  <2> QED
    BY <1>2, <2>1, <2>2, CellsFacts DEF L
<1>8. Cells(p) \in Seq(Sent(n)) /\ Len(Cells(p)) = L /\ Cells(p) \in Whole(n)
  BY <1>2, CellsFacts DEF L
<1>9. SubSeq(cells, i, (i + L) - 1) = Cells(p)
  BY <1>6, <1>7, <1>8, SeqEqual
<1>10. cells[(i + L) - 1] = EndOf(p)
  <2>1. L - 1 \in Nat /\ L - 1 < L /\ i + (L - 1) = (i + L) - 1 /\ i + (L - 1) <= Len(cells)
    BY <1>1, <1>3, <1>4
  <2>2. cells[i + (L - 1)] = [pkt |-> p, off |-> L - 1]
    BY <1>5, <2>1
  <2> QED
    BY <2>1, <2>2 DEF EndOf, L
<1> QED
  BY <1>8, <1>9, <1>10 DEF L, p

\* Different packets have different cells.
LEMMA CellsDiffer ==
  ASSUME NEW p \in Pkts, NEW q \in Pkts, Cells(p) = Cells(q)
  PROVE  p = q
<1>1. PktLen[p] \in Nat /\ PktLen[p] >= 1 /\ PktLen[q] \in Nat /\ PktLen[q] >= 1
  BY PacketFacts
<1>2. Cells(p)[1] = [pkt |-> p, off |-> 0] /\ Cells(q)[1] = [pkt |-> q, off |-> 0]
  BY <1>1 DEF Cells
<1> QED
  BY <1>2

LEMMA BroughtEmpty == \A cells, lo, hi : Brought(<<>>, cells, lo, hi)
BY DEF Brought, Distinct

LEMMA BroughtOne ==
  ASSUME NEW cells, NEW lo, NEW hi, NEW p \in Pkts, NEW x \in 1 .. Len(cells), lo <= x, x <= hi,
         cells[x] = EndOf(p)
  PROVE  Brought(<<Cells(p)>>, cells, lo, hi)
<1> DEFINE c == Cells(p)
<1>1. Len(<<c>>) = 1 /\ <<c>>[1] = c
  OBVIOUS
<1>2. Distinct(<<c>>)
  BY <1>1 DEF Distinct
<1> QED
  BY <1>1, <1>2 DEF Brought

LEMMA BroughtWiden ==
  ASSUME NEW cells, Len(cells) \in Nat, NEW lo \in Int, NEW hi \in Int, NEW a \in Int, NEW b \in Int,
         a <= lo, hi <= b \/ b = Len(cells), NEW pkts, Brought(pkts, cells, lo, hi)
  PROVE  Brought(pkts, cells, a, b)
<1>1. \A x \in 1 .. Len(cells) : lo <= x /\ x <= hi => a <= x /\ x <= b
  OBVIOUS
<1> QED
  BY <1>1 DEF Brought

\* Packets that end in different parts of the cells are different.
LEMMA BroughtJoin ==
  ASSUME NEW S, NEW pkts, pkts \in Seq(S), NEW more, more \in Seq(S), NEW cells, Len(cells) \in Nat,
         NEW lo \in Int, NEW mid \in Int, NEW hi \in Int, lo <= mid + 1, mid <= hi,
         Brought(pkts, cells, lo, mid), Brought(more, cells, mid + 1, hi)
  PROVE  Brought(pkts \o more, cells, lo, hi)
<1> DEFINE all == pkts \o more
           N == Len(pkts)
           M == Len(more)
<1>1. /\ N \in Nat /\ M \in Nat /\ all \in Seq(S) /\ Len(all) = N + M
      /\ \A j \in 1 .. (N + M) : all[j] = IF j <= N THEN pkts[j] ELSE more[j - N]
  BY ConcatProperties
<1> HIDE DEF all, N, M
<1>2. ASSUME NEW j \in 1 .. Len(all), j <= N
      PROVE  j \in 1 .. N /\ all[j] = pkts[j]
  BY <1>1, <1>2
<1>3. ASSUME NEW j \in 1 .. Len(all), ~(j <= N)
      PROVE  j - N \in 1 .. M /\ all[j] = more[j - N]
  BY <1>1, <1>3
<1>4. ASSUME NEW j \in 1 .. N
      PROVE  \E p \in Pkts : \E x \in 1 .. Len(cells) :
               lo <= x /\ x <= mid /\ pkts[j] = Cells(p) /\ cells[x] = EndOf(p)
  BY DEF Brought, N
<1>5. ASSUME NEW j \in 1 .. M
      PROVE  \E p \in Pkts : \E x \in 1 .. Len(cells) :
               mid + 1 <= x /\ x <= hi /\ more[j] = Cells(p) /\ cells[x] = EndOf(p)
  BY DEF Brought, M
<1>6. ASSUME NEW j \in 1 .. Len(all)
      PROVE  \E p \in Pkts : \E x \in 1 .. Len(cells) :
               lo <= x /\ x <= hi /\ all[j] = Cells(p) /\ cells[x] = EndOf(p)
  <2>1. CASE j <= N
    <3>1. PICK p \in Pkts : \E x \in 1 .. Len(cells) :
                lo <= x /\ x <= mid /\ all[j] = Cells(p) /\ cells[x] = EndOf(p)
      BY <1>2, <1>4, <2>1
    <3>2. PICK x \in 1 .. Len(cells) : lo <= x /\ x <= mid /\ all[j] = Cells(p) /\ cells[x] = EndOf(p)
      BY <3>1
    <3>3. x <= hi
      BY <3>2
    <3> QED
      BY <3>2, <3>3
  <2>2. CASE ~(j <= N)
    <3>1. PICK p \in Pkts : \E x \in 1 .. Len(cells) :
                mid + 1 <= x /\ x <= hi /\ all[j] = Cells(p) /\ cells[x] = EndOf(p)
      BY <1>3, <1>5, <2>2
    <3>2. PICK x \in 1 .. Len(cells) : mid + 1 <= x /\ x <= hi /\ all[j] = Cells(p) /\ cells[x] = EndOf(p)
      BY <3>1
    <3>3. lo <= x
      BY <3>2
    <3> QED
      BY <3>2, <3>3
  <2> QED
    BY <2>1, <2>2
<1>7. ASSUME Distinct(cells), NEW i \in 1 .. N, NEW j \in 1 .. M PROVE pkts[i] # more[j]
  <2>1. PICK p \in Pkts : \E x \in 1 .. Len(cells) :
              lo <= x /\ x <= mid /\ pkts[i] = Cells(p) /\ cells[x] = EndOf(p)
    BY <1>4
  <2>2. PICK x \in 1 .. Len(cells) : lo <= x /\ x <= mid /\ pkts[i] = Cells(p) /\ cells[x] = EndOf(p)
    BY <2>1
  <2>3. PICK q \in Pkts : \E y \in 1 .. Len(cells) :
              mid + 1 <= y /\ y <= hi /\ more[j] = Cells(q) /\ cells[y] = EndOf(q)
    BY <1>5
  <2>4. PICK y \in 1 .. Len(cells) : mid + 1 <= y /\ y <= hi /\ more[j] = Cells(q) /\ cells[y] = EndOf(q)
    BY <2>3
  <2>5. SUFFICES ASSUME pkts[i] = more[j] PROVE FALSE
    OBVIOUS
  <2>6. p = q
    BY <2>2, <2>4, <2>5, CellsDiffer
  <2>7. x = y
    BY <1>7, <2>2, <2>4, <2>6 DEF Distinct
  <2> QED
    BY <2>2, <2>4, <2>7
<1>8. ASSUME Distinct(cells), NEW i \in 1 .. Len(all), NEW j \in 1 .. Len(all), all[i] = all[j] PROVE i = j
  <2>1. Distinct(pkts) /\ Distinct(more)
    BY <1>8 DEF Brought
  <2>2. CASE i <= N /\ j <= N
    BY <1>2, <1>8, <2>1, <2>2 DEF Distinct, N
  <2>3. CASE i <= N /\ ~(j <= N)
    BY <1>2, <1>3, <1>7, <1>8, <2>3
  <2>4. CASE ~(i <= N) /\ j <= N
    BY <1>2, <1>3, <1>7, <1>8, <2>4
  <2>5. CASE ~(i <= N) /\ ~(j <= N)
    <3>1. i - N \in 1 .. M /\ j - N \in 1 .. M /\ more[i - N] = more[j - N]
      BY <1>3, <1>8, <2>5
    <3>2. i - N = j - N
      BY <2>1, <3>1 DEF Distinct, M
    <3>3. i \in Nat /\ j \in Nat /\ N \in Nat
      BY <1>1
    <3> QED
      BY ONLY <3>2, <3>3
  <2> QED
    BY <2>2, <2>3, <2>4, <2>5
<1>9. Distinct(cells) => Distinct(all)
  BY <1>8 DEF Distinct
<1> QED
  BY <1>6, <1>9 DEF Brought, all

---------------------------------------------------------------------------
(* The encoder.                                                              *)

\* What remains of a packet that has been begun.
Remains(r, n) ==
  /\ r \in Seq(Sent(n)) /\ Chain(r)
  /\ r # <<>> => IsEnd(r[Len(r)])
  /\ \A i \in 1 .. Len(r) : r[i].off # 0

\* Behind the cells comes r, or a packet starts if that is empty.
Before(cells, r) == IF r = <<>> THEN IsEnd(cells[Len(cells)]) ELSE Follows(cells[Len(cells)], r[1])

\* The index of a frame points to the first start of a packet in it.
IndexOK(index, cells) ==
  \/ index = NoStart /\ \A i \in 1 .. Len(cells) : cells[i].off # 0
  \/ /\ index + 1 \in 1 .. Len(cells) /\ cells[index + 1].off = 0
     /\ \A i \in 1 .. index : cells[i].off # 0

FrameState(n) == [cells : Seq(Sent(n)), index : Nat, rest : Seq(Sent(n)), used : Nat]

\* A frame under construction, which began with what remained of the last packet.
Encoding(e, pkt, n) ==
  /\ e \in FrameState(n)
  /\ Chain(e.cells) /\ Len(e.cells) <= Mtu
  /\ Remains(e.rest, n)
  /\ e.cells # <<>> => Before(e.cells, e.rest)
  /\ e.cells = <<>> => e.rest = <<>>
  /\ IndexOK(e.index, e.cells)
  /\ pkt # <<>> => e.cells # <<>> /\ e.cells[1] = pkt[1]
  /\ pkt = <<>> /\ e.cells # <<>> => e.cells[1].off = 0

\* copyToFrame moves the front of a chain of cells that ends with a packet.
LEMMA CopyFacts ==
  ASSUME NEW n \in Nat, NEW e \in FrameState(n), Len(e.cells) < Mtu,
         NEW pkt \in Seq(Sent(n)), Chain(pkt), pkt # <<>>, IsEnd(pkt[Len(pkt)]),
         \A i \in 2 .. Len(pkt) : pkt[i].off # 0,
         Chain(e.cells), e.cells # <<>> => Follows(e.cells[Len(e.cells)], pkt[1])
  PROVE  LET r == copyToFrame(e, pkt)
         IN  /\ r \in FrameState(n) /\ r.index = e.index /\ r.used = e.used
             /\ Chain(r.cells) /\ Len(r.cells) <= Mtu /\ r.cells # <<>>
             /\ Remains(r.rest, n) /\ Before(r.cells, r.rest)
             /\ Len(e.cells) < Len(r.cells)
             /\ \A i \in 1 .. Len(e.cells) : r.cells[i] = e.cells[i]
             /\ r.cells[Len(e.cells) + 1] = pkt[1]
             /\ \A i \in (Len(e.cells) + 2) .. Len(r.cells) : r.cells[i].off # 0
<1> DEFINE r == copyToFrame(e, pkt)
           room == Mtu - Len(e.cells)
           k == IF Len(pkt) < room THEN Len(pkt) ELSE room
           front == SubSeq(pkt, 1, k)
           back == SubSeq(pkt, k + 1, Len(pkt))
<1>1. /\ e.cells \in Seq(Sent(n)) /\ e.index \in Nat /\ e.used \in Nat
      /\ Len(e.cells) \in Nat /\ Len(pkt) \in Nat /\ Len(pkt) >= 1 /\ Mtu \in Nat
  BY PacketFacts, EmptySeq DEF FrameState
<1>2. k \in Nat /\ k >= 1 /\ k <= Len(pkt) /\ k <= room
  <2>1. room \in Nat /\ room >= 1
    BY <1>1
  <2> HIDE DEF room
  <2> QED
    BY <1>1, <2>1
<1>3. r = [e EXCEPT !.cells = e.cells \o front, !.rest = back]
  BY DEF copyToFrame
<1> HIDE DEF r, k
<1>4. /\ front \in Seq(Sent(n)) /\ Len(front) = k /\ Chain(front)
      /\ \A i \in 1 .. k : front[i] = pkt[i]
  <2>1. /\ front \in Seq(Sent(n)) /\ Len(front) = (k - 1) + 1 /\ Chain(front)
        /\ \A i \in 1 .. ((k - 1) + 1) : front[i] = pkt[(1 + i) - 1]
    BY <1>1, <1>2, ChainPart
  <2>2. (k - 1) + 1 = k /\ \A i \in 1 .. k : (1 + i) - 1 = i
    BY <1>2
  <2> QED
    BY <2>1, <2>2
<1>5. /\ back \in Seq(Sent(n)) /\ Len(back) = Len(pkt) - k /\ Chain(back)
      /\ \A i \in 1 .. (Len(pkt) - k) : back[i] = pkt[k + i]
  <2>1. k + 1 \in Nat /\ k + 1 >= 1 /\ k + 1 <= Len(pkt) + 1 /\ Len(pkt) <= Len(pkt)
    BY <1>1, <1>2
  <2>2. /\ back \in Seq(Sent(n)) /\ Len(back) = (Len(pkt) - (k + 1)) + 1 /\ Chain(back)
        /\ \A i \in 1 .. ((Len(pkt) - (k + 1)) + 1) : back[i] = pkt[((k + 1) + i) - 1]
    BY <1>1, <2>1, ChainPart, SMTT(30)
  <2>3. /\ (Len(pkt) - (k + 1)) + 1 = Len(pkt) - k
        /\ \A i \in 1 .. (Len(pkt) - k) : ((k + 1) + i) - 1 = k + i
    BY <1>1, <1>2
  <2> QED
    BY <2>2, <2>3
<1> HIDE DEF front, back
<1>6. r \in FrameState(n) /\ r.index = e.index /\ r.used = e.used /\ r.cells = e.cells \o front /\ r.rest = back
  <2>1. e.cells \o front \in Seq(Sent(n))
    BY <1>1, <1>4
  <2> QED
    BY <1>3, <1>5, <2>1 DEF FrameState
<1>7. e.cells # <<>> => Follows(e.cells[Len(e.cells)], front[1])
  BY <1>2, <1>4
<1>8. /\ Len(r.cells) = Len(e.cells) + k /\ Chain(r.cells)
      /\ \A i \in 1 .. Len(e.cells) : r.cells[i] = e.cells[i]
      /\ \A i \in 1 .. k : r.cells[Len(e.cells) + i] = pkt[i]
  <2>1. /\ Len(e.cells \o front) = Len(e.cells) + Len(front) /\ Chain(e.cells \o front)
        /\ \A i \in 1 .. Len(e.cells) : (e.cells \o front)[i] = e.cells[i]
        /\ \A i \in 1 .. Len(front) : (e.cells \o front)[Len(e.cells) + i] = front[i]
    <3> DEFINE c == e.cells
    <3>1. c \in Seq(Sent(n)) /\ Chain(c) /\ (c # <<>> /\ front # <<>> => Follows(c[Len(c)], front[1]))
      BY <1>1, <1>7
    <3> HIDE DEF c
    <3>2. /\ Len(c \o front) = Len(c) + Len(front) /\ Chain(c \o front)
          /\ \A i \in 1 .. Len(c) : (c \o front)[i] = c[i]
          /\ \A i \in 1 .. Len(front) : (c \o front)[Len(c) + i] = front[i]
      BY ONLY <1>4, <3>1, ChainJoin, n \in Nat
    <3> QED
      BY <3>2 DEF c
  <2> QED
    BY <1>4, <1>6, <2>1
<1>9. Len(r.cells) <= Mtu /\ Len(e.cells) < Len(r.cells) /\ r.cells # <<>>
  <2>1. Len(r.cells) <= Mtu /\ Len(e.cells) < Len(r.cells)
    BY <1>1, <1>2, <1>8
  <2> QED
    BY <1>1, <2>1
<1>10. r.cells[Len(r.cells)] = pkt[k] /\ r.cells[Len(e.cells) + 1] = pkt[1]
  BY <1>1, <1>2, <1>8
<1>11. Remains(r.rest, n)
  <2>1. ASSUME NEW i \in 1 .. Len(back) PROVE back[i].off # 0
    <3>1. k + i \in 2 .. Len(pkt) /\ back[i] = pkt[k + i]
      BY <1>1, <1>2, <1>5
    <3> QED
      BY <3>1
  <2>2. back # <<>> => IsEnd(back[Len(back)])
    <3> SUFFICES ASSUME back # <<>> PROVE IsEnd(back[Len(back)])
      OBVIOUS
    <3>1. Len(back) >= 1 /\ Len(back) \in Nat
      BY <1>5, EmptySeq
    <3>2. Len(back) \in 1 .. (Len(pkt) - k) /\ k + Len(back) = Len(pkt)
      BY <1>1, <1>2, <1>5, <3>1
    <3> QED
      BY <1>5, <3>2
  <2> QED
    BY <1>5, <1>6, <2>1, <2>2 DEF Remains
<1>12. Before(r.cells, r.rest)
  <2>1. CASE k = Len(pkt)
    <3>1. Len(back) = 0
      BY <1>1, <1>5, <2>1
    <3>2. back = <<>>
      BY <1>5, <3>1, EmptySeq
    <3> QED
      BY <1>6, <1>10, <2>1, <3>2 DEF Before
  <2>2. CASE k # Len(pkt)
    <3>1. k \in 1 .. (Len(pkt) - 1) /\ 1 \in 1 .. (Len(pkt) - k) /\ Len(back) # 0
      BY <1>1, <1>2, <1>5, <2>2
    <3>2. back[1] = pkt[k + 1] /\ back # <<>>
      BY <1>5, <3>1
    <3>3. Follows(pkt[k], pkt[k + 1])
      BY <3>1 DEF Chain
    <3> QED
      BY <1>6, <1>10, <3>2, <3>3 DEF Before
  <2> QED
    BY <2>1, <2>2
<1>13. ASSUME NEW i \in (Len(e.cells) + 2) .. Len(r.cells) PROVE r.cells[i].off # 0
  <2> DEFINE j == i - Len(e.cells)
  <2>1. j \in 2 .. Len(pkt) /\ j \in 1 .. k /\ i = Len(e.cells) + j
    <3>1. Len(r.cells) = Len(e.cells) + k /\ i \in Int /\ Len(e.cells) + 2 <= i /\ i <= Len(e.cells) + k
      BY <1>1, <1>2, <1>8
    <3> QED
      BY ONLY <1>1, <1>2, <3>1
  <2> HIDE DEF j
  <2> QED
    BY <1>8, <2>1
<1> QED
  BY <1>6, <1>8, <1>9, <1>10, <1>11, <1>12, <1>13 DEF r

\* A frame begins with what remains of the last packet.
LEMMA EncodingStart ==
  ASSUME NEW n \in Nat, NEW pkt, Remains(pkt, n)
  PROVE  Encoding(copyToFrame(Empty, pkt), pkt, n)
<1> DEFINE r == copyToFrame(Empty, pkt)
<1>1. /\ Empty \in FrameState(n) /\ Empty.cells = <<>> /\ Len(Empty.cells) = 0 /\ Chain(Empty.cells)
      /\ Empty.index = NoStart /\ Len(Empty.cells) < Mtu /\ Mtu \in Nat
  BY PacketFacts DEF Empty, FrameState, Chain
<1>2. pkt \in Seq(Sent(n)) /\ Chain(pkt) /\ Len(pkt) \in Nat
  BY DEF Remains
<1>3. CASE pkt = <<>>
  <2>1. r = [Empty EXCEPT !.cells = Empty.cells \o SubSeq(pkt, 1, 0), !.rest = SubSeq(pkt, 1, 0)]
    <3>1. Len(pkt) = 0 /\ Mtu - Len(Empty.cells) = Mtu /\ 0 < Mtu /\ 0 + 1 = 1
      BY <1>1, <1>3, PacketFacts
    <3> QED
      BY <3>1 DEF copyToFrame
  <2>2. SubSeq(pkt, 1, 0) = <<>>
    BY <1>3
  <2>3. r = Empty
    <3>1. Empty.cells \o SubSeq(pkt, 1, 0) = <<>>
      BY <1>1, <2>2
    <3> QED
      BY <2>1, <2>2, <3>1 DEF Empty
  <2>4. Encoding(Empty, pkt, n)
    BY <1>1, <1>3, PacketFacts DEF Encoding, Remains, IndexOK, Empty, Chain
  <2> QED
    BY <2>3, <2>4
<1>4. CASE pkt # <<>>
  <2>1. IsEnd(pkt[Len(pkt)]) /\ (\A i \in 1 .. Len(pkt) : pkt[i].off # 0) /\ Len(pkt) >= 1
    BY <1>2, <1>4, EmptySeq DEF Remains
  <2>2. \A i \in 2 .. Len(pkt) : pkt[i].off # 0
    BY <1>2, <2>1
  <2>3. /\ r \in FrameState(n) /\ r.index = Empty.index
        /\ Chain(r.cells) /\ Len(r.cells) <= Mtu /\ r.cells # <<>>
        /\ Remains(r.rest, n) /\ Before(r.cells, r.rest)
        /\ r.cells[Len(Empty.cells) + 1] = pkt[1]
        /\ \A i \in (Len(Empty.cells) + 2) .. Len(r.cells) : r.cells[i].off # 0
    BY <1>1, <1>2, <1>4, <2>1, <2>2, CopyFacts
  <2>4. r.cells[1] = pkt[1] /\ r.index = NoStart /\ \A i \in 2 .. Len(r.cells) : r.cells[i].off # 0
    BY <1>1, <2>3
  <2> HIDE DEF r
  <2>5. ASSUME NEW i \in 1 .. Len(r.cells) PROVE r.cells[i].off # 0
    <3>1. CASE i = 1
      BY <1>2, <2>1, <2>4, <3>1
    <3>2. CASE i # 1
      BY <2>4, <3>2
    <3> QED
      BY <3>1, <3>2
  <2>6. Encoding(r, pkt, n)
    BY <1>4, <2>3, <2>4, <2>5 DEF Encoding, IndexOK
  <2> QED
    BY <2>6 DEF r
<1> QED
  BY <1>3, <1>4

\* Another packet is added, or skipped if it is not valid.
LEMMA EncodingAdd ==
  ASSUME NEW n \in Nat, NEW pkt, NEW e, Encoding(e, pkt, n), fits(e), NEW p \in Pkts, p < n
  PROVE  Encoding(addPacket(e, p), pkt, n)
<1>1. /\ e \in FrameState(n) /\ e.cells \in Seq(Sent(n)) /\ Chain(e.cells) /\ Len(e.cells) \in Nat
      /\ e.index \in Nat /\ e.used \in Nat /\ e.rest = <<>> /\ IndexOK(e.index, e.cells)
      /\ Mtu \in Nat /\ NoStart \in Nat /\ Mtu < NoStart /\ Len(e.cells) <= Mtu
  BY PacketFacts DEF Encoding, FrameState, fits
<1>2. CASE p \in Invalid
  <2>1. addPacket(e, p) = [e EXCEPT !.used = e.used + 1]
    BY <1>2 DEF addPacket
  <2>2. /\ addPacket(e, p) \in FrameState(n) /\ addPacket(e, p).cells = e.cells
        /\ addPacket(e, p).index = e.index /\ addPacket(e, p).rest = e.rest
    BY <1>1, <2>1 DEF FrameState
  <2> QED
    BY <2>2 DEF Encoding
<1>3. CASE p \notin Invalid
  <2> DEFINE x == IF e.index = NoStart THEN Len(e.cells) ELSE e.index
             d == [e EXCEPT !.used = e.used + 1, !.index = x]
             r == copyToFrame(d, Cells(p))
  <2>1. addPacket(e, p) = r
    BY <1>3 DEF addPacket
  <2>2. d \in FrameState(n) /\ d.cells = e.cells /\ d.index = x /\ x \in Nat
    <3>1. x \in Nat
      BY <1>1
    <3> HIDE DEF x
    <3> DEFINE d1 == [e EXCEPT !.used = e.used + 1]
    <3>2. d1 \in FrameState(n) /\ d1.cells = e.cells
      BY <1>1 DEF FrameState
    <3>3. d = [d1 EXCEPT !.index = x]
      BY <1>1 DEF FrameState
    <3> HIDE DEF d1, d
    <3> QED
      BY <3>1, <3>2, <3>3 DEF FrameState
  <2> HIDE DEF d, x
  <2>3. Len(d.cells) < Mtu
    BY <1>1, <2>2 DEF fits
  <2>4. /\ Cells(p) \in Seq(Sent(n)) /\ Chain(Cells(p)) /\ Len(Cells(p)) = PktLen[p]
        /\ PktLen[p] \in Nat /\ PktLen[p] >= 1
        /\ \A i \in 1 .. PktLen[p] : Cells(p)[i] = [pkt |-> p, off |-> i - 1]
    BY <1>3, CellsFacts
  <2>5. Cells(p) # <<>> /\ IsEnd(Cells(p)[Len(Cells(p))]) /\ Cells(p)[1].off = 0
    <3>1. 1 \in 1 .. PktLen[p] /\ PktLen[p] \in 1 .. PktLen[p]
      BY <2>4
    <3>2. Cells(p)[1] = [pkt |-> p, off |-> 1 - 1] /\ Cells(p)[PktLen[p]] = [pkt |-> p, off |-> PktLen[p] - 1]
      BY <2>4, <3>1
    <3>3. Cells(p) # <<>>
      BY <2>4
    <3> QED
      BY <2>4, <3>2, <3>3 DEF IsEnd
  <2>6. ASSUME NEW i \in 2 .. Len(Cells(p)) PROVE Cells(p)[i].off # 0
    <3>1. i \in 1 .. PktLen[p] /\ i - 1 # 0
      BY <2>4
    <3>2. Cells(p)[i] = [pkt |-> p, off |-> i - 1]
      BY <2>4, <3>1
    <3> QED
      BY <3>1, <3>2
  <2>7. d.cells # <<>> => Follows(d.cells[Len(d.cells)], Cells(p)[1])
    BY <1>1, <2>2, <2>5 DEF Encoding, Before, Follows
  <2>8. /\ r \in FrameState(n) /\ r.index = d.index
        /\ Chain(r.cells) /\ Len(r.cells) <= Mtu /\ r.cells # <<>>
        /\ Remains(r.rest, n) /\ Before(r.cells, r.rest)
        /\ Len(d.cells) < Len(r.cells)
        /\ \A i \in 1 .. Len(d.cells) : r.cells[i] = d.cells[i]
        /\ r.cells[Len(d.cells) + 1] = Cells(p)[1]
    <3>1. Chain(d.cells)
      BY <1>1, <2>2
    <3> HIDE DEF r
    <3> QED
      BY <2>2, <2>3, <2>4, <2>5, <2>6, <2>7, <3>1, CopyFacts DEF r
  <2> HIDE DEF r
  <2>9. Len(r.cells) \in Nat
    BY <2>8 DEF FrameState
  <2>10. IndexOK(r.index, r.cells)
    <3>1. CASE e.index = NoStart
      <4>1. x = Len(e.cells) /\ \A i \in 1 .. Len(e.cells) : e.cells[i].off # 0
        BY <1>1, <3>1 DEF IndexOK, x
      <4>2. r.index = Len(e.cells) /\ Len(e.cells) + 1 \in 1 .. Len(r.cells)
        BY <1>1, <2>2, <2>8, <2>9, <4>1
      <4> QED
        BY <2>2, <2>5, <2>8, <4>1, <4>2 DEF IndexOK
    <3>2. CASE e.index # NoStart
      <4>1. /\ x = e.index /\ e.index + 1 \in 1 .. Len(e.cells) /\ e.cells[e.index + 1].off = 0
            /\ \A i \in 1 .. e.index : e.cells[i].off # 0
        BY <1>1, <3>2 DEF IndexOK, x
      <4>2. /\ \A i \in 1 .. e.index : i \in 1 .. Len(e.cells)
            /\ e.index + 1 \in 1 .. Len(r.cells)
        BY <1>1, <2>2, <2>8, <2>9, <4>1
      <4> QED
        <5>1. r.index = e.index
          BY <2>2, <2>8, <4>1
        <5>2. \A i \in 1 .. Len(e.cells) : r.cells[i] = e.cells[i]
          BY <2>2, <2>8
        <5>3. r.cells[e.index + 1].off = 0 /\ \A i \in 1 .. e.index : r.cells[i].off # 0
          BY <4>1, <4>2, <5>2
        <5> QED
          BY <4>2, <5>1, <5>3 DEF IndexOK
    <3> QED
      BY <3>1, <3>2
  <2>11. pkt # <<>> => r.cells[1] = pkt[1]
    <3> SUFFICES ASSUME pkt # <<>> PROVE r.cells[1] = pkt[1]
      OBVIOUS
    <3>1. e.cells # <<>> /\ e.cells[1] = pkt[1]
      BY DEF Encoding
    <3>2. 1 \in 1 .. Len(e.cells)
      BY <1>1, <3>1, EmptySeq
    <3> QED
      BY <2>2, <2>8, <3>1, <3>2
  <2>12. pkt = <<>> => r.cells[1].off = 0
    <3> SUFFICES ASSUME pkt = <<>> PROVE r.cells[1].off = 0
      OBVIOUS
    <3>1. CASE e.cells = <<>>
      <4>1. Len(d.cells) + 1 = 1
        BY <2>2, <3>1
      <4> QED
        BY <2>5, <2>8, <4>1
    <3>2. CASE e.cells # <<>>
      <4>1. 1 \in 1 .. Len(e.cells) /\ e.cells[1].off = 0
        BY <1>1, <3>2, EmptySeq DEF Encoding
      <4> QED
        BY <2>2, <2>8, <4>1
    <3> QED
      BY <3>1, <3>2
  <2>13. Encoding(r, pkt, n)
    BY <2>8, <2>10, <2>11, <2>12 DEF Encoding
  <2> QED
    BY <2>1, <2>13
<1> QED
  BY <1>2, <1>3

\* The frame before the first and after each of the packets of the ring.
LEMMA EncodeLoop ==
  ASSUME NEW n \in Nat, NEW sender, Remains(sender.pkt, n), sender.ring \in Seq({p \in Pkts : p < n})
  PROVE  \E g : /\ encode(sender) = g[Len(sender.ring)]
                /\ g[0] = copyToFrame(Empty, sender.pkt)
                /\ \A k \in 1 .. Len(sender.ring) :
                     g[k] = IF fits(g[k - 1]) THEN addPacket(g[k - 1], sender.ring[k]) ELSE g[k - 1]
                /\ \A k \in 0 .. Len(sender.ring) : Encoding(g[k], sender.pkt, n)
<1> DEFINE N == Len(sender.ring)
           pkt == sender.pkt
           S == {e \in FrameState(n) : Encoding(e, pkt, n)}
           base == copyToFrame(Empty, pkt)
           Step(k, e) == IF fits(e) THEN addPacket(e, sender.ring[k]) ELSE e
           F(f) == [k \in 0 .. N |-> IF k = 0 THEN copyToFrame(Empty, sender.pkt)
                                     ELSE IF fits(f[k - 1]) THEN addPacket(f[k - 1], sender.ring[k])
                                     ELSE f[k - 1]]
           g == CHOOSE f : f = F(f)
<1>1. encode(sender) = g[N]
  BY DEF encode
<1>2. N \in Nat /\ \A k \in 1 .. N : sender.ring[k] \in Pkts /\ sender.ring[k] < n
  OBVIOUS
<1> HIDE DEF N
<1>3. base \in S
  BY EncodingStart DEF Encoding
<1>4. ASSUME NEW k \in 1 .. N, NEW e \in S PROVE Step(k, e) \in S
  <2>1. CASE fits(e)
    <3>1. Encoding(addPacket(e, sender.ring[k]), pkt, n)
      BY <1>2, <2>1, EncodingAdd
    <3> QED
      BY <2>1, <3>1 DEF Encoding
  <2>2. CASE ~fits(e)
    BY <2>2
  <2> QED
    BY <2>1, <2>2
<1>5. \E f : f = F(f)
  <2> DEFINE step == [k \in 1 .. N |-> [e \in S |-> Step(k, e)]]
  <2> HIDE DEF S, base
  <2>1. step \in [1 .. N -> [S -> S]]
    BY <1>4
  <2>2. \A k \in 1 .. N : \A e \in S : step[k][e] = Step(k, e)
    OBVIOUS
  <2> HIDE DEF step, Step
  <2>6. PICK f : IsLoop(f, N, S, base, step)
    BY <1>2, <1>3, <2>1, LoopExists
  <2>3. f \in [0 .. N -> S] /\ f[0] = base /\ \A k \in 1 .. N : f[k] = step[k][f[k - 1]]
    BY <2>6 DEF IsLoop
  <2>4. ASSUME NEW k \in 1 .. N PROVE f[k] = Step(k, f[k - 1])
    <3>1. k - 1 \in 0 .. N
      BY <1>2
    <3>2. f[k - 1] \in S
      BY <2>3, <3>1
    <3> QED
      BY <2>2, <2>3, <3>2
  <2>5. f = F(f)
    <3>1. ASSUME NEW k \in 0 .. N
          PROVE  f[k] = IF k = 0 THEN copyToFrame(Empty, sender.pkt)
                        ELSE IF fits(f[k - 1]) THEN addPacket(f[k - 1], sender.ring[k])
                        ELSE f[k - 1]
      <4>1. CASE k = 0
        BY <2>3, <4>1 DEF base
      <4>2. CASE k # 0
        <5>1. k \in 1 .. N
          BY <1>2, <4>2
        <5>2. f[k] = Step(k, f[k - 1])
          BY <2>4, <5>1
        <5> QED
          BY <4>2, <5>2 DEF Step
      <4> QED
        BY <4>1, <4>2
    <3> QED
      BY <2>3, <3>1
  <2> QED
    BY <2>5
<1>6. g = F(g)
  BY <1>5
<1> HIDE DEF g
<1>7. g[0] = base /\ \A k \in 1 .. N : g[k] = Step(k, g[k - 1])
  <2>1. 0 \in 0 .. N /\ \A k \in 1 .. N : k \in 0 .. N /\ k # 0
    BY <1>2
  <2>2. g[0] = F(g)[0] /\ \A k \in 1 .. N : g[k] = F(g)[k]
    BY <1>6
  <2> QED
    BY <2>1, <2>2
<1> DEFINE P == {k \in 0 .. N : g[k] \in S}
<1> HIDE DEF S, Step, base
<1>8. 0 \in P
  BY <1>2, <1>3, <1>7
<1>9. ASSUME NEW k \in 1 .. N, k - 1 \in P PROVE k \in P
  BY <1>2, <1>4, <1>7, <1>9
<1> HIDE DEF P
<1>10. \A k \in 0 .. N : k \in P
  BY <1>2, <1>8, <1>9, LoopInduction
<1>11. \A k \in 0 .. N : Encoding(g[k], pkt, n)
  BY <1>10 DEF P, S
<1> QED
  BY <1>1, <1>7, <1>11 DEF Step, base, N

\* What encoder.Read makes of a sender's packets.
LEMMA EncodeFacts ==
  ASSUME NEW n \in Nat, NEW sender, Remains(sender.pkt, n), sender.ring \in Seq({p \in Pkts : p < n})
  PROVE  Encoding(encode(sender), sender.pkt, n)
<1>1. PICK g : encode(sender) = g[Len(sender.ring)] /\ \A k \in 0 .. Len(sender.ring) : Encoding(g[k], sender.pkt, n)
  BY EncodeLoop
<1>2. Len(sender.ring) \in Nat
  OBVIOUS
<1> QED
  BY <1>1, <1>2

---------------------------------------------------------------------------
(* Frame buffers.                                                            *)

\* The loop of ProcessCompletePkts writes whole packets.
LEMMA WriteCompleteFacts ==
  ASSUME NEW n \in Nat, NEW cells \in Seq(Sent(n)), Chain(cells), NEW start \in 1 .. Len(cells)
  PROVE  /\ writeComplete(cells, start).offset \in Nat /\ writeComplete(cells, start).offset >= 1
         /\ writeComplete(cells, start).pkts \in Seq(Whole(n))
         /\ hasHeader(cells, writeComplete(cells, start).offset) =>
              (Len(cells) - writeComplete(cells, start).offset) + 1
                < PktLen[cells[writeComplete(cells, start).offset].pkt]
         /\ Brought(writeComplete(cells, start).pkts, cells, start, Len(cells))
<1> DEFINE N == Len(cells)
           S == {r \in [offset : Nat, pkts : Seq(Whole(n))] :
                   /\ r.offset >= 1 /\ r.offset >= start
                   /\ Brought(r.pkts, cells, start, r.offset - 1)}
           base == [offset |-> start, pkts |-> <<>>]
           whole(i) == hasHeader(cells, i) /\ N - i + 1 >= PktLen[cells[i].pkt]
           Step(r) == LET i == r.offset
                          after == i + PktLen[cells[i].pkt]
                      IN  IF whole(i)
                            THEN [offset |-> after, pkts |-> Append(r.pkts, SubSeq(cells, i, after - 1))]
                            ELSE r
           F(f) == [k \in 0 .. N |-> IF k = 0 THEN base ELSE Step(f[k - 1])]
           g == CHOOSE f : f = F(f)
<1>1. writeComplete(cells, start) = g[N]
  BY DEF writeComplete
<1>2. N \in Nat /\ \A i \in 1 .. N : cells[i] \in Sent(n)
  OBVIOUS
<1>3. base \in S
  BY <1>2, BroughtEmpty
<1>4. ASSUME NEW r \in S PROVE Step(r) \in S
  <2> DEFINE i == r.offset
             L == PktLen[cells[i].pkt]
  <2>1. /\ i \in Nat /\ i >= 1 /\ r.pkts \in Seq(Whole(n)) /\ i >= start
        /\ Brought(r.pkts, cells, start, i - 1)
    OBVIOUS
  <2> HIDE DEF S
  <2>2. CASE whole(i)
    <3>1. i \in 1 .. N /\ cells[i].off = 0 /\ N - i + 1 >= L
      BY <1>2, <2>1, <2>2 DEF hasHeader
    <3>2. L \in Nat /\ L >= 1 /\ cells[i].pkt \in Pkts
      BY <1>2, <3>1, SentFacts, PacketFacts
    <3>3. /\ SubSeq(cells, i, (i + L) - 1) \in Whole(n)
          /\ SubSeq(cells, i, (i + L) - 1) = Cells(cells[i].pkt)
          /\ cells[(i + L) - 1] = EndOf(cells[i].pkt)
      <4>1. i \in 1 .. Len(cells) /\ (i + PktLen[cells[i].pkt]) - 1 <= Len(cells)
        BY <1>2, <3>1, <3>2
      <4>2. cells[i].off = 0
        BY <3>1
      <4> HIDE DEF i
      <4> QED
        BY <4>1, <4>2, ChainPacket
    <3>4. Step(r) = [offset |-> i + L, pkts |-> Append(r.pkts, SubSeq(cells, i, (i + L) - 1))]
      BY <2>2
    <3> HIDE DEF Step, L
    <3>5. Append(r.pkts, SubSeq(cells, i, (i + L) - 1)) \in Seq(Whole(n))
      BY <2>1, <3>3
    <3>6. Brought(Append(r.pkts, SubSeq(cells, i, (i + L) - 1)), cells, start, (i + L) - 1)
      <4> DEFINE p == cells[i].pkt
                 x == (i + L) - 1
                 c == SubSeq(cells, i, (i + L) - 1)
                 W == Whole(n)
      <4>1. x \in 1 .. Len(cells) /\ i <= x /\ x \in Int /\ i - 1 <= x /\ start <= (i - 1) + 1
        <5>1. i \in Nat /\ i >= 1 /\ i >= start /\ start \in Nat /\ L \in Nat /\ L >= 1 /\ N \in Nat
              /\ N - i + 1 >= L
          BY <1>2, <2>1, <3>1, <3>2
        <5>2. N = Len(cells)
          OBVIOUS
        <5> HIDE DEF i, N
        <5>3. x \in 1 .. N /\ i <= x /\ x \in Int /\ i - 1 <= x /\ start <= (i - 1) + 1
          BY ONLY <5>1
        <5> QED
          BY <5>2, <5>3
      <4>2. c = Cells(p) /\ cells[x] = EndOf(p) /\ p \in Pkts
        BY <3>2, <3>3
      <4>3. r.pkts \in Seq(W) /\ c \in W
        BY <2>1, <3>3
      <4> HIDE DEF p, x, c, W, i
      <4>4. Brought(<<c>>, cells, i, x)
        BY <4>1, <4>2, BroughtOne
      <4>5. (i - 1) + 1 = i /\ i - 1 \in Int /\ start \in Int /\ <<c>> \in Seq(W)
        BY <2>1, <4>3
      <4>6. Brought(r.pkts \o <<c>>, cells, start, x)
        BY <1>2, <2>1, <4>1, <4>3, <4>4, <4>5, BroughtJoin
      <4>7. Append(r.pkts, c) = r.pkts \o <<c>>
        BY <4>3, AppendIsConcat
      <4> QED
        BY <4>6, <4>7 DEF c, x, i
    <3>7. i + L >= start /\ i + L >= 1 /\ i + L \in Nat
      BY <2>1, <3>2
    <3> DEFINE more == Append(r.pkts, SubSeq(cells, i, (i + L) - 1))
               a == i + L
    <3> HIDE DEF more, a
    <3>8. Step(r) = [offset |-> a, pkts |-> more]
      BY <3>4 DEF more, a
    <3>9. a \in Nat /\ a >= start /\ a >= 1 /\ more \in Seq(Whole(n)) /\ Brought(more, cells, start, a - 1)
      BY <3>5, <3>6, <3>7 DEF more, a
    <3> QED
      BY <3>8, <3>9 DEF S
  <2>3. CASE ~whole(i)
    BY <2>3
  <2> QED
    BY <2>2, <2>3
<1>12. ASSUME NEW r \in S
       PROVE  /\ whole(r.offset) => Step(r).offset \in Nat /\ Step(r).offset >= r.offset + 1
              /\ ~whole(r.offset) => Step(r) = r
  <2> DEFINE i == r.offset
             L == PktLen[cells[i].pkt]
  <2>1. i \in Nat /\ i >= 1
    OBVIOUS
  <2> HIDE DEF S
  <2>2. CASE whole(i)
    <3>1. i \in 1 .. N
      BY <1>2, <2>1, <2>2 DEF hasHeader
    <3>2. L \in Nat /\ L >= 1
      BY <1>2, <3>1, SentFacts, PacketFacts
    <3>3. Step(r).offset = i + L
      BY <2>2
    <3> HIDE DEF Step, L
    <3>4. Step(r).offset \in Nat /\ Step(r).offset >= i + 1
      BY <2>1, <3>2, <3>3
    <3> HIDE DEF whole
    <3> QED
      BY <2>2, <3>4
  <2>3. CASE ~whole(i)
    BY <2>3
  <2> QED
    BY <2>2, <2>3
<1>13. \A i \in Nat : i > N => ~whole(i)
  BY <1>2 DEF hasHeader
<1>14. \A i \in Nat : i >= 1 /\ hasHeader(cells, i) /\ ~whole(i) => (N - i) + 1 < PktLen[cells[i].pkt]
  <2>1. ASSUME NEW i \in Nat, i >= 1, hasHeader(cells, i), ~whole(i)
        PROVE  (N - i) + 1 < PktLen[cells[i].pkt]
    <3>1. i \in 1 .. N
      BY <1>2, <2>1 DEF hasHeader
    <3>2. PktLen[cells[i].pkt] \in Nat
      BY <1>2, <3>1, SentFacts
    <3> QED
      BY <1>2, <2>1, <3>2
  <2> QED
    BY <2>1
<1>15. start \in Nat /\ start >= 1 /\ base.offset = start
  BY <1>2
<1> HIDE DEF N, S, base, Step, whole
<1>5. \E f : f = F(f)
  <2> DEFINE step == [k \in 1 .. N |-> [r \in S |-> Step(r)]]
  <2>1. step \in [1 .. N -> [S -> S]]
    BY <1>4
  <2>2. \A k \in 1 .. N : \A r \in S : step[k][r] = Step(r)
    OBVIOUS
  <2> HIDE DEF step
  <2>3. PICK f : IsLoop(f, N, S, base, step)
    BY <1>2, <1>3, <2>1, LoopExists
  <2>4. f \in [0 .. N -> S] /\ f[0] = base /\ \A k \in 1 .. N : f[k] = step[k][f[k - 1]]
    BY <2>3 DEF IsLoop
  <2>5. ASSUME NEW k \in 0 .. N PROVE f[k] = IF k = 0 THEN base ELSE Step(f[k - 1])
    <3>1. CASE k = 0
      BY <2>4, <3>1
    <3>2. CASE k # 0
      <4>1. k \in 1 .. N /\ k - 1 \in 0 .. N
        BY <1>2, <3>2
      <4>2. f[k] = step[k][f[k - 1]] /\ f[k - 1] \in S
        BY <2>4, <4>1
      <4> QED
        BY <2>2, <3>2, <4>1, <4>2
    <3> QED
      BY <3>1, <3>2
  <2>6. f = F(f)
    BY <2>4, <2>5
  <2> QED
    BY <2>6
<1>6. g = F(g)
  BY <1>5
<1> HIDE DEF g
<1>7. \A k \in 0 .. N : g[k] = IF k = 0 THEN base ELSE Step(g[k - 1])
  BY <1>6
<1> DEFINE P == {k \in 0 .. N : g[k] \in S /\ (g[k].offset >= start + k \/ ~whole(g[k].offset))}
<1>8. 0 \in P
  BY <1>2, <1>3, <1>7, <1>15
<1>9. ASSUME NEW k \in 1 .. N, k - 1 \in P PROVE k \in P
  <2> DEFINE r == g[k - 1]
  <2>1. /\ k \in 0 .. N /\ k # 0 /\ r \in S
        /\ r.offset >= start + (k - 1) \/ ~whole(r.offset)
    BY <1>2, <1>9
  <2>2. g[k] = Step(r)
    BY <1>7, <2>1
  <2> HIDE DEF r
  <2>3. g[k] \in S
    BY <1>4, <2>1, <2>2
  <2>4. g[k].offset >= start + k \/ ~whole(g[k].offset)
    <3>1. CASE whole(r.offset)
      <4>1. r.offset \in Nat /\ g[k].offset \in Nat /\ g[k].offset >= r.offset + 1
        BY <1>12, <2>1, <2>2, <3>1 DEF S
      <4> QED
        BY <1>2, <1>15, <2>1, <3>1, <4>1
    <3>2. CASE ~whole(r.offset)
      BY <1>12, <2>1, <2>2, <3>2
    <3> QED
      BY <3>1, <3>2
  <2> QED
    BY <2>1, <2>3, <2>4
<1> HIDE DEF P
<1>10. N \in P
  <2>1. \A k \in 0 .. N : k \in P
    BY <1>2, <1>8, <1>9, LoopInduction
  <2> QED
    BY <1>2, <2>1
<1>11. g[N] \in S /\ g[N].offset \in Nat /\ g[N].offset >= 1 /\ ~whole(g[N].offset)
  <2>1. g[N] \in S /\ (g[N].offset >= start + N \/ ~whole(g[N].offset))
    BY <1>10 DEF P
  <2>2. g[N].offset \in Nat /\ g[N].offset >= 1
    BY <2>1 DEF S
  <2>3. g[N].offset >= start + N => g[N].offset > N
    BY <1>2, <1>15, <2>2
  <2> QED
    BY <1>13, <2>1, <2>2, <2>3
<1>16. hasHeader(cells, g[N].offset) => (N - g[N].offset) + 1 < PktLen[cells[g[N].offset].pkt]
  BY <1>11, <1>14
<1>17. Brought(g[N].pkts, cells, start, N)
  <2>1. Brought(g[N].pkts, cells, start, g[N].offset - 1) /\ g[N].offset \in Nat
    BY <1>11 DEF S
  <2>2. N = Len(cells) /\ start <= start /\ start \in Int /\ g[N].offset - 1 \in Int
    BY <1>15, <2>1 DEF N
  <2> QED
    BY <1>2, <2>1, <2>2, BroughtWiden
<1> QED
  BY <1>1, <1>11, <1>16, <1>17 DEF S, N

\* Buffers of frames with cells of packets before n.
Buffer(n) == [seq : Nat, index : Nat, cells : Seq(Sent(n)), frag0 : Nat, pktLen : Nat,
              frag0Done : BOOLEAN, fragNDone : BOOLEAN, completeDone : BOOLEAN]

\* What buffer k of a list contributes to the packet that starts in the first.
Part(list, k) == IF k = 1 THEN SubSeq(list[1].cells, list[1].frag0, Len(list[1].cells))
                          ELSE list[k].cells

\* The definition of joined has a solution.
LEMMA JoinedIs ==
  ASSUME NEW n \in Nat, NEW list \in Seq(Buffer(n)),
         \A k \in 1 .. Len(list) : Part(list, k) \in Seq(Sent(n))
  PROVE  /\ joined(list)[0] = <<>>
         /\ \A k \in 1 .. Len(list) : joined(list)[k] = joined(list)[k - 1] \o Part(list, k)
         /\ \A k \in 0 .. Len(list) : joined(list)[k] \in Seq(Sent(n))
<1> DEFINE N == Len(list)
           S == Seq(Sent(n))
           F(f) == [k \in 0 .. N |-> IF k = 0 THEN <<>> ELSE f[k - 1] \o Part(list, k)]
           g == CHOOSE f : f = F(f)
<1>1. joined(list) = g
  BY DEF joined, Part
<1>2. N \in Nat /\ \A k \in 1 .. N : \A c \in S : c \o Part(list, k) \in S
  OBVIOUS
<1>3. <<>> \in S
  OBVIOUS
<1> HIDE DEF N, S
<1>4. \E f : f = F(f)
  <2> DEFINE step == [k \in 1 .. N |-> [c \in S |-> c \o Part(list, k)]]
  <2>1. step \in [1 .. N -> [S -> S]]
    BY <1>2
  <2>2. \A k \in 1 .. N : \A c \in S : step[k][c] = c \o Part(list, k)
    OBVIOUS
  <2> HIDE DEF step
  <2>3. PICK f : IsLoop(f, N, S, <<>>, step)
    BY <1>2, <1>3, <2>1, LoopExists
  <2>4. f \in [0 .. N -> S] /\ f[0] = <<>> /\ \A k \in 1 .. N : f[k] = step[k][f[k - 1]]
    BY <2>3 DEF IsLoop
  <2>5. ASSUME NEW k \in 0 .. N PROVE f[k] = IF k = 0 THEN <<>> ELSE f[k - 1] \o Part(list, k)
    <3>1. CASE k = 0
      BY <2>4, <3>1
    <3>2. CASE k # 0
      <4>1. k \in 1 .. N /\ k - 1 \in 0 .. N
        BY <1>2, <3>2
      <4>2. f[k] = step[k][f[k - 1]] /\ f[k - 1] \in S
        BY <2>4, <4>1
      <4> QED
        BY <2>2, <3>2, <4>1, <4>2
    <3> QED
      BY <3>1, <3>2
  <2>6. f = F(f)
    BY <2>4, <2>5
  <2> QED
    BY <2>6
<1>5. g = F(g)
  BY <1>4
<1> HIDE DEF g
<1>6. \A k \in 0 .. N : g[k] = IF k = 0 THEN <<>> ELSE g[k - 1] \o Part(list, k)
  BY <1>5
<1>7. g[0] = <<>> /\ \A k \in 1 .. N : g[k] = g[k - 1] \o Part(list, k)
  <2>1. 0 \in 0 .. N /\ \A k \in 1 .. N : k \in 0 .. N /\ k # 0
    BY <1>2
  <2> QED
    BY <1>6, <2>1
<1> DEFINE P == {k \in 0 .. N : g[k] \in S}
<1>8. 0 \in P
  BY <1>2, <1>3, <1>7
<1>9. ASSUME NEW k \in 1 .. N, k - 1 \in P PROVE k \in P
  <2>1. k \in 0 .. N /\ g[k - 1] \in S
    BY <1>2, <1>9
  <2> QED
    BY <1>2, <1>7, <2>1
<1> HIDE DEF P
<1>10. \A k \in 0 .. N : k \in P
  BY <1>2, <1>8, <1>9, LoopInduction
<1> QED
  BY <1>1, <1>7, <1>10 DEF N, S, P

\* The buffers of a list hold consecutive frames of a stream, the first with the start of
\* a packet.
Linked(list) ==
  /\ list[1].frag0 \in 1 .. Len(list[1].cells)
  /\ \A i \in 1 .. Len(list) : list[i].cells # <<>> /\ Chain(list[i].cells)
  /\ \A i \in 1 .. (Len(list) - 1) :
       Follows(list[i].cells[Len(list[i].cells)], list[i + 1].cells[1])

\* Each part is a chain that ends with the buffer.
LEMMA PartFacts ==
  ASSUME NEW n \in Nat, NEW list \in Seq(Buffer(n)), Linked(list), NEW k \in 1 .. Len(list)
  PROVE  /\ Part(list, k) \in Seq(Sent(n)) /\ Chain(Part(list, k)) /\ Part(list, k) # <<>>
         /\ Part(list, k)[1] = IF k = 1 THEN list[1].cells[list[1].frag0] ELSE list[k].cells[1]
         /\ Part(list, k)[Len(Part(list, k))] = list[k].cells[Len(list[k].cells)]
<1> DEFINE c == list[k].cells
<1>1. list[k] \in Buffer(n) /\ c \in Seq(Sent(n)) /\ Len(c) \in Nat /\ c # <<>> /\ Chain(c)
  <2>1. list[k] \in Buffer(n)
    OBVIOUS
  <2>2. c \in Seq(Sent(n))
    BY <2>1 DEF Buffer
  <2>3. c # <<>> /\ Chain(c)
    BY DEF Linked
  <2> QED
    BY <2>1, <2>2, <2>3
<1>2. CASE k = 1
  <2> DEFINE a == list[1].frag0
             q == SubSeq(c, a, Len(c))
  <2>1. a \in Nat /\ a >= 1 /\ a <= Len(c) /\ Len(c) <= Len(c) /\ a <= Len(c) + 1
    BY <1>1, <1>2 DEF Linked
  <2>2. Part(list, k) = q
    BY <1>2 DEF Part
  <2> HIDE DEF a, c
  <2>3. /\ q \in Seq(Sent(n)) /\ Len(q) = (Len(c) - a) + 1 /\ Chain(q)
        /\ \A i \in 1 .. ((Len(c) - a) + 1) : q[i] = c[(a + i) - 1]
    BY <1>1, <2>1, ChainPart
  <2> HIDE DEF q
  <2>4. 1 \in 1 .. ((Len(c) - a) + 1) /\ (a + 1) - 1 = a
    BY <1>1, <2>1
  <2>5. (Len(c) - a) + 1 \in 1 .. ((Len(c) - a) + 1) /\ (a + ((Len(c) - a) + 1)) - 1 = Len(c)
    BY <1>1, <2>1
  <2>6. q[1] = c[a] /\ q[Len(q)] = c[Len(c)]
    BY <2>3, <2>4, <2>5
  <2>7. q # <<>>
    BY <2>3, <2>4
  <2> QED
    BY <1>2, <2>2, <2>3, <2>6, <2>7 DEF a, c
<1>3. CASE k # 1
  BY <1>1, <1>3 DEF Part
<1> QED
  BY <1>2, <1>3

\* What is joined is a chain from the start of the packet on.
LEMMA JoinedChain ==
  ASSUME NEW n \in Nat, NEW list \in Seq(Buffer(n)), Len(list) >= 1, Linked(list)
  PROVE  \A k \in 1 .. Len(list) :
           LET c == joined(list)[k]
           IN  /\ c \in Seq(Sent(n)) /\ Chain(c) /\ c # <<>>
               /\ c[1] = list[1].cells[list[1].frag0]
               /\ c[Len(c)] = list[k].cells[Len(list[k].cells)]
<1> DEFINE N == Len(list)
           Good(k) == LET c == joined(list)[k]
                      IN  /\ c \in Seq(Sent(n)) /\ Chain(c) /\ c # <<>>
                          /\ c[1] = list[1].cells[list[1].frag0]
                          /\ c[Len(c)] = list[k].cells[Len(list[k].cells)]
           P == {k \in 0 .. N : k = 0 \/ Good(k)}
<1>1. N \in Nat
  OBVIOUS
<1>2. \A k \in 1 .. N : /\ Part(list, k) \in Seq(Sent(n)) /\ Chain(Part(list, k)) /\ Part(list, k) # <<>>
                        /\ Part(list, k)[1] = IF k = 1 THEN list[1].cells[list[1].frag0] ELSE list[k].cells[1]
                        /\ Part(list, k)[Len(Part(list, k))] = list[k].cells[Len(list[k].cells)]
  BY PartFacts
<1>3. /\ joined(list)[0] = <<>>
      /\ \A k \in 1 .. N : joined(list)[k] = joined(list)[k - 1] \o Part(list, k)
      /\ \A k \in 0 .. N : joined(list)[k] \in Seq(Sent(n))
  BY <1>2, JoinedIs
<1> HIDE DEF N
<1>4. 0 \in P
  BY <1>1
<1>5. ASSUME NEW k \in 1 .. N, k - 1 \in P PROVE k \in P
  <2> DEFINE c == joined(list)[k - 1]
             d == Part(list, k)
  <2>1. k \in 0 .. N /\ k - 1 \in 0 .. N
    BY <1>1
  <2>2. c \in Seq(Sent(n)) /\ d \in Seq(Sent(n)) /\ Chain(d) /\ d # <<>> /\ joined(list)[k] = c \o d
    BY <1>2, <1>3, <2>1
  <2>3. CASE k = 1
    <3>1. c = <<>> /\ k - 1 = 0
      BY <1>3, <2>3
    <3>2. c \o d = d
      BY <2>2, <3>1
    <3>3. Good(k)
      <4>1. joined(list)[k] = d
        BY <2>2, <3>2
      <4>2. d[1] = list[1].cells[list[1].frag0] /\ d[Len(d)] = list[k].cells[Len(list[k].cells)]
        BY <1>2, <2>3
      <4> HIDE DEF d
      <4> QED
        BY <2>2, <4>1, <4>2
    <3> QED
      BY <2>1, <3>3
  <2>4. CASE k # 1
    <3>1. Good(k - 1)
      BY <1>5, <2>4
    <3>2. k - 1 \in 1 .. (Len(list) - 1) /\ (k - 1) + 1 = k
      BY <1>1, <2>4 DEF N
    <3>3. /\ Chain(c) /\ c # <<>> /\ c[1] = list[1].cells[list[1].frag0]
          /\ c[Len(c)] = list[k - 1].cells[Len(list[k - 1].cells)]
      BY <3>1
    <3>4. Follows(list[k - 1].cells[Len(list[k - 1].cells)], list[k].cells[1])
      BY <3>2 DEF Linked
    <3>5. d[1] = list[k].cells[1] /\ d[Len(d)] = list[k].cells[Len(list[k].cells)]
      BY <1>2, <2>4
    <3> HIDE DEF c, d
    <3>6. c # <<>> /\ d # <<>> => Follows(c[Len(c)], d[1])
      BY <3>3, <3>4, <3>5
    <3>7. /\ c \o d \in Seq(Sent(n)) /\ Len(c \o d) = Len(c) + Len(d) /\ Chain(c \o d)
          /\ \A i \in 1 .. Len(c) : (c \o d)[i] = c[i]
          /\ \A i \in 1 .. Len(d) : (c \o d)[Len(c) + i] = d[i]
      BY <2>2, <3>3, <3>6, ChainJoin
    <3>8. Len(c) \in Nat /\ Len(d) \in Nat /\ Len(c) >= 1 /\ Len(d) >= 1
      BY <2>2, <3>3, EmptySeq
    <3>9. (c \o d)[1] = c[1] /\ (c \o d)[Len(c \o d)] = d[Len(d)] /\ c \o d # <<>>
      <4>1. 1 \in 1 .. Len(c) /\ Len(d) \in 1 .. Len(d)
        BY <3>8
      <4>2. Len(c \o d) # 0
        BY <3>7, <3>8
      <4>3. (c \o d)[1] = c[1] /\ (c \o d)[Len(c) + Len(d)] = d[Len(d)]
        BY <3>7, <4>1
      <4> QED
        BY <3>7, <4>2, <4>3
    <3>10. Good(k)
      BY <2>2, <3>3, <3>5, <3>7, <3>9
    <3> QED
      BY <2>1, <3>10
  <2> QED
    BY <2>3, <2>4
<1> HIDE DEF P
<1>6. \A k \in 0 .. N : k \in P
  BY <1>1, <1>4, <1>5, LoopInduction
<1> HIDE DEF Good
<1>7. \A k \in 1 .. N : Good(k)
  BY <1>1, <1>6 DEF P
<1> QED
  BY <1>7 DEF Good, N

\* Another buffer at the end changes nothing for those before.
LEMMA JoinedPrefix ==
  ASSUME NEW n \in Nat, NEW list \in Seq(Buffer(n)), NEW b \in Buffer(n), Len(list) >= 1,
         Linked(list), Linked(Append(list, b))
  PROVE  \A k \in 1 .. Len(list) : joined(Append(list, b))[k] = joined(list)[k]
<1> DEFINE N == Len(list)
           more == Append(list, b)
           P == {k \in 0 .. N : joined(more)[k] = joined(list)[k]}
<1>1. /\ N \in Nat /\ N >= 1 /\ more \in Seq(Buffer(n)) /\ Len(more) = N + 1
      /\ \A k \in 1 .. N : more[k] = list[k] /\ k \in 1 .. (N + 1)
  OBVIOUS
<1>2. ASSUME NEW k \in 1 .. N PROVE Part(more, k) = Part(list, k)
  <2>1. more[k] = list[k] /\ more[1] = list[1]
    BY <1>1
  <2> HIDE DEF more
  <2> QED
    BY <2>1 DEF Part
<1>3. /\ joined(list)[0] = <<>>
      /\ \A k \in 1 .. N : joined(list)[k] = joined(list)[k - 1] \o Part(list, k)
  <2>1. \A k \in 1 .. Len(list) : Part(list, k) \in Seq(Sent(n))
    BY PartFacts
  <2> QED
    BY <2>1, JoinedIs
<1> HIDE DEF more
<1>4. /\ joined(more)[0] = <<>>
      /\ \A k \in 1 .. (N + 1) : joined(more)[k] = joined(more)[k - 1] \o Part(more, k)
  <2>1. Linked(more)
    BY DEF more
  <2>2. \A k \in 1 .. Len(more) : Part(more, k) \in Seq(Sent(n))
    BY <1>1, <2>1, PartFacts
  <2> QED
    BY <1>1, <2>2, JoinedIs
<1> HIDE DEF N
<1>5. 0 \in P
  BY <1>1, <1>3, <1>4
<1>6. ASSUME NEW k \in 1 .. N, k - 1 \in P PROVE k \in P
  <2>1. k \in 0 .. N /\ k \in 1 .. (N + 1)
    BY <1>1
  <2>2. joined(more)[k - 1] = joined(list)[k - 1]
    BY <1>6
  <2>3. joined(more)[k] = joined(list)[k]
    BY <1>2, <1>3, <1>4, <2>1, <2>2
  <2> QED
    BY <2>1, <2>3
<1> HIDE DEF P
<1>7. \A k \in 0 .. N : k \in P
  BY <1>1, <1>5, <1>6, LoopInduction
<1>8. \A k \in 1 .. N : joined(more)[k] = joined(list)[k]
  BY <1>1, <1>7 DEF P
<1> QED
  BY <1>8 DEF N, more

\* What removeProcessed leaves of a list of which all but the last are processed.
LEMMA RemoveFacts ==
  ASSUME NEW B, NEW list \in Seq(B), Len(list) >= 1,
         \A k \in 1 .. (Len(list) - 1) : Processed(list[k])
  PROVE  removeProcessed(list) = IF Processed(list[Len(list)]) THEN <<>> ELSE <<list[Len(list)]>>
<1> DEFINE N == Len(list)
           S == Seq(B)
           Step(k, s) == IF Processed(list[k]) THEN s ELSE Append(s, list[k])
           F(f) == [k \in 0 .. N |-> IF k = 0 THEN <<>> ELSE Step(k, f[k - 1])]
           g == CHOOSE f : f = F(f)
<1>1. removeProcessed(list) = g[N]
  BY DEF removeProcessed
<1>2. N \in Nat /\ N >= 1 /\ \A k \in 1 .. N : list[k] \in B
  OBVIOUS
<1>3. <<>> \in S
  OBVIOUS
<1>4. ASSUME NEW k \in 1 .. N, NEW s \in S PROVE Step(k, s) \in S
  BY <1>2
<1> HIDE DEF N, S, Step
<1>5. \E f : f = F(f)
  <2> DEFINE step == [k \in 1 .. N |-> [s \in S |-> Step(k, s)]]
  <2>1. step \in [1 .. N -> [S -> S]]
    BY <1>4
  <2>2. \A k \in 1 .. N : \A s \in S : step[k][s] = Step(k, s)
    OBVIOUS
  <2> HIDE DEF step
  <2>3. PICK f : IsLoop(f, N, S, <<>>, step)
    BY <1>2, <1>3, <2>1, LoopExists
  <2>4. f \in [0 .. N -> S] /\ f[0] = <<>> /\ \A k \in 1 .. N : f[k] = step[k][f[k - 1]]
    BY <2>3 DEF IsLoop
  <2>5. ASSUME NEW k \in 0 .. N PROVE f[k] = IF k = 0 THEN <<>> ELSE Step(k, f[k - 1])
    <3>1. CASE k = 0
      BY <2>4, <3>1
    <3>2. CASE k # 0
      <4>1. k \in 1 .. N /\ k - 1 \in 0 .. N
        BY <1>2, <3>2
      <4>2. f[k] = step[k][f[k - 1]] /\ f[k - 1] \in S
        BY <2>4, <4>1
      <4> QED
        BY <2>2, <3>2, <4>1, <4>2
    <3> QED
      BY <3>1, <3>2
  <2>6. f = F(f)
    BY <2>4, <2>5
  <2> QED
    BY <2>6
<1>6. g = F(g)
  BY <1>5
<1> HIDE DEF g
<1>7. \A k \in 0 .. N : g[k] = IF k = 0 THEN <<>> ELSE Step(k, g[k - 1])
  BY <1>6
<1>8. g[0] = <<>> /\ \A k \in 1 .. N : g[k] = Step(k, g[k - 1])
  <2>1. 0 \in 0 .. N /\ \A k \in 1 .. N : k \in 0 .. N /\ k # 0
    BY <1>2
  <2> QED
    BY <1>7, <2>1
<1> DEFINE P == {k \in 0 .. N : k < N => g[k] = <<>>}
<1>9. 0 \in P
  BY <1>2, <1>8
<1>10. ASSUME NEW k \in 1 .. N, k - 1 \in P PROVE k \in P
  <2> SUFFICES ASSUME k < N PROVE g[k] = <<>>
    BY <1>2
  <2>1. k - 1 < N /\ k \in 1 .. (N - 1)
    BY <1>2
  <2>2. g[k - 1] = <<>>
    BY <1>10, <2>1
  <2>3. Processed(list[k])
    BY <2>1 DEF N
  <2> QED
    BY <1>8, <2>2, <2>3 DEF Step
<1> HIDE DEF P
<1>11. \A k \in 0 .. N : k \in P
  BY <1>2, <1>9, <1>10, LoopInduction
<1>12. g[N - 1] = <<>> /\ g[N] = Step(N, g[N - 1])
  <2>1. N - 1 \in 0 .. N /\ N - 1 < N /\ N \in 1 .. N
    BY <1>2
  <2> QED
    BY <1>8, <1>11, <2>1 DEF P
<1>13. Append(<<>>, list[N]) = <<list[N]>>
  OBVIOUS
<1> QED
  BY <1>1, <1>12, <1>13 DEF Step, N

---------------------------------------------------------------------------
(* Reassembly lists.  frames are the frames of a stream in the order sent.   *)

\* The frames of a stream are chains, each from where the one before ends.
Flow(frames, n) ==
  /\ frames \in Seq(Seq(Sent(n)))
  /\ \A q \in 1 .. Len(frames) : frames[q] # <<>> /\ Chain(frames[q])
  /\ \A q \in 1 .. (Len(frames) - 1) : Follows(frames[q][Len(frames[q])], frames[q + 1][1])

\* A buffer holds the frame with its number, and frag0 and pktLen describe a packet in it
\* that does not end in it.
GoodBuf(b, frames, n) ==
  /\ b \in Buffer(n) /\ b.seq + 1 \in 1 .. Len(frames) /\ b.cells = frames[b.seq + 1]
  /\ IndexOK(b.index, b.cells)
  /\ b.index = NoStart => b.completeDone /\ b.frag0 = 0
  /\ b.frag0 # 0 => /\ b.frag0 \in 1 .. Len(b.cells) /\ b.cells[b.frag0].off = 0
                    /\ b.pktLen = PktLen[b.cells[b.frag0].pkt]
                    /\ (Len(b.cells) - b.frag0) + 1 < b.pktLen

\* Consecutive frames, from the start of a packet on.
Consecutive(list, frames, n) ==
  /\ list \in Seq(Buffer(n))
  /\ \A i \in 1 .. Len(list) : GoodBuf(list[i], frames, n)
  /\ \A i \in 1 .. (Len(list) - 1) : list[i + 1].seq = list[i].seq + 1
  /\ list # <<>> => list[1].frag0 # 0

\* The packet at the start of a list is not complete, and no other one starts.
GoodList(list, frames, n) ==
  /\ Consecutive(list, frames, n) /\ Len(list) <= ListCap
  /\ \A k \in 2 .. Len(list) : list[k].index = NoStart /\ Len(joined(list)[k]) < list[1].pktLen

\* What an operation leaves, writes and releases of a number of buffers.
GoodResult(r, count, frames, n) ==
  /\ GoodList(r.list, frames, n) /\ r.pkts \in Seq(Whole(n))
  /\ r.released \in Nat /\ r.released + Len(r.list) = count

\* ProcessCompletePkts writes whole packets and finds the start of the last one.
LEMMA ProcessFacts ==
  ASSUME NEW n \in Nat, NEW frames, Flow(frames, n), NEW b, GoodBuf(b, frames, n)
  PROVE  LET r == ProcessCompletePkts(b)
         IN  /\ GoodBuf(r.buf, frames, n) /\ r.pkts \in Seq(Whole(n))
             /\ r.buf.seq = b.seq /\ r.buf.fragNDone = b.fragNDone /\ r.buf.completeDone
             /\ Brought(r.pkts, b.cells, b.index + 1, Len(b.cells))
             /\ b.index = NoStart => r.pkts = <<>>
<1> DEFINE r == ProcessCompletePkts(b)
           done == [b EXCEPT !.completeDone = TRUE]
<1>1. /\ b \in Buffer(n) /\ b.cells \in Seq(Sent(n)) /\ Chain(b.cells) /\ b.cells # <<>>
      /\ b.seq \in Nat /\ b.index \in Nat /\ b.frag0 \in Nat /\ Len(b.cells) \in Nat
  <2>1. /\ b \in Buffer(n) /\ b.seq + 1 \in 1 .. Len(frames) /\ b.cells = frames[b.seq + 1]
    BY DEF GoodBuf
  <2>2. b.cells \in Seq(Sent(n)) /\ b.seq \in Nat /\ b.index \in Nat /\ b.frag0 \in Nat
    BY <2>1 DEF Buffer
  <2>3. Chain(b.cells) /\ b.cells # <<>>
    BY <2>1 DEF Flow
  <2> QED
    BY <2>1, <2>2, <2>3
<1>2. /\ done \in Buffer(n) /\ done.seq = b.seq /\ done.cells = b.cells /\ done.index = b.index
      /\ done.frag0 = b.frag0 /\ done.pktLen = b.pktLen /\ done.fragNDone = b.fragNDone /\ done.completeDone
  BY <1>1 DEF Buffer
<1> HIDE DEF done
<1>3. GoodBuf(done, frames, n)
  BY <1>2 DEF GoodBuf
<1>4. CASE b.completeDone \/ b.index = NoStart
  <2>1. r.buf = done /\ r.pkts = <<>>
    BY <1>4 DEF ProcessCompletePkts, done
  <2> QED
    BY <1>2, <1>3, <2>1, BroughtEmpty
<1>5. CASE ~(b.completeDone \/ b.index = NoStart)
  <2> DEFINE w == writeComplete(b.cells, b.index + 1)
             a == w.offset
  <2>1. b.index + 1 \in 1 .. Len(b.cells)
    BY <1>5 DEF GoodBuf, IndexOK
  <2>2. /\ a \in Nat /\ a >= 1 /\ w.pkts \in Seq(Whole(n))
        /\ hasHeader(b.cells, a) => (Len(b.cells) - a) + 1 < PktLen[b.cells[a].pkt]
        /\ Brought(w.pkts, b.cells, b.index + 1, Len(b.cells))
    BY <1>1, <2>1, WriteCompleteFacts
  <2>7. b.index # NoStart
    BY <1>5
  <2>3. /\ r.pkts = w.pkts
        /\ r.buf = IF a > Len(b.cells) THEN [done EXCEPT !.frag0Done = (b.frag0 = 0)]
                   ELSE IF hasHeader(b.cells, a)
                     THEN [done EXCEPT !.frag0 = a, !.pktLen = PktLen[b.cells[a].pkt], !.frag0Done = FALSE]
                   ELSE done
    BY <1>5 DEF ProcessCompletePkts, done
  <2> HIDE DEF w, r
  <2>4. CASE a > Len(b.cells)
    <3> DEFINE d == [done EXCEPT !.frag0Done = (b.frag0 = 0)]
    <3>1. (b.frag0 = 0) \in BOOLEAN
      OBVIOUS
    <3>2. /\ d \in Buffer(n) /\ d.seq = b.seq /\ d.cells = b.cells /\ d.index = b.index
          /\ d.frag0 = b.frag0 /\ d.pktLen = b.pktLen /\ d.fragNDone = b.fragNDone /\ d.completeDone
      BY <1>2, <3>1 DEF Buffer
    <3>3. r.buf = d
      BY <2>3, <2>4
    <3> HIDE DEF d
    <3>4. GoodBuf(d, frames, n)
      BY <3>2 DEF GoodBuf
    <3> QED
      BY <2>2, <2>3, <2>7, <3>2, <3>3, <3>4 DEF r
  <2>5. CASE ~(a > Len(b.cells)) /\ hasHeader(b.cells, a)
    <3> DEFINE l == PktLen[b.cells[a].pkt]
               d1 == [done EXCEPT !.frag0 = a]
               d2 == [d1 EXCEPT !.pktLen = l]
               d == [d2 EXCEPT !.frag0Done = FALSE]
    <3>1. a \in 1 .. Len(b.cells) /\ b.cells[a].off = 0
      BY <1>1, <2>2, <2>5 DEF hasHeader
    <3>2. l \in Nat
      <4>1. b.cells[a] \in Sent(n)
        BY <1>1, <3>1
      <4> QED
        BY <4>1, SentFacts
    <3>3. r.buf = [done EXCEPT !.frag0 = a, !.pktLen = l, !.frag0Done = FALSE]
      BY <2>3, <2>5
    <3> HIDE DEF l, a
    <3>4. r.buf = d
      BY <1>2, <3>3 DEF Buffer
    <3>5. /\ d1 \in Buffer(n) /\ d1.seq = b.seq /\ d1.cells = b.cells /\ d1.index = b.index
          /\ d1.frag0 = a /\ d1.fragNDone = b.fragNDone /\ d1.completeDone
      BY <1>2, <2>2 DEF Buffer
    <3> HIDE DEF d1
    <3>6. /\ d2 \in Buffer(n) /\ d2.seq = b.seq /\ d2.cells = b.cells /\ d2.index = b.index
          /\ d2.frag0 = a /\ d2.pktLen = l /\ d2.fragNDone = b.fragNDone /\ d2.completeDone
      BY <3>2, <3>5 DEF Buffer
    <3> HIDE DEF d2
    <3>7. /\ d \in Buffer(n) /\ d.seq = b.seq /\ d.cells = b.cells /\ d.index = b.index
          /\ d.frag0 = a /\ d.pktLen = l /\ d.fragNDone = b.fragNDone /\ d.completeDone
      BY <3>6 DEF Buffer
    <3> HIDE DEF d
    <3>8. GoodBuf(d, frames, n)
      <4>1. (Len(b.cells) - a) + 1 < l
        BY <2>2, <2>5 DEF l
      <4> QED
        BY <1>5, <3>1, <3>7, <4>1 DEF GoodBuf, l
    <3> QED
      BY <2>2, <2>3, <2>7, <3>4, <3>7, <3>8 DEF r
  <2>6. CASE ~(a > Len(b.cells)) /\ ~hasHeader(b.cells, a)
    <3>1. r.buf = done
      BY <2>3, <2>6
    <3> QED
      BY <1>2, <1>3, <2>2, <2>3, <2>7, <3>1 DEF r
  <2> QED
    BY <2>4, <2>5, <2>6
<1> QED
  BY <1>4, <1>5

\* The list of one buffer, and the empty list.
LEMMA SmallLists ==
  ASSUME NEW n \in Nat, NEW frames
  PROVE  /\ GoodList(<<>>, frames, n)
         /\ \A b : GoodBuf(b, frames, n) /\ b.frag0 # 0 => GoodList(<<b>>, frames, n)
<1>1. ListCap \in Nat /\ ListCap >= 2
  BY GatewayAssumption
<1>2. GoodList(<<>>, frames, n)
  BY <1>1 DEF GoodList, Consecutive
<1>3. ASSUME NEW b, GoodBuf(b, frames, n), b.frag0 # 0 PROVE GoodList(<<b>>, frames, n)
  <2>1. <<b>> \in Seq(Buffer(n)) /\ Len(<<b>>) = 1 /\ <<b>>[1] = b
    BY <1>3 DEF GoodBuf
  <2>2. Consecutive(<<b>>, frames, n)
    BY <1>3, <2>1 DEF Consecutive
  <2> QED
    BY <1>1, <2>1, <2>2 DEF GoodList
<1> QED
  BY <1>2, <1>3

\* Consecutive buffers are linked.
LEMMA ConsecutiveLinked ==
  ASSUME NEW n \in Nat, NEW frames, Flow(frames, n), NEW list, Consecutive(list, frames, n),
         Len(list) >= 1
  PROVE  Linked(list)
<1>1. /\ Len(frames) \in Nat /\ Len(list) \in Nat /\ 1 \in 1 .. Len(list) /\ list # <<>>
      /\ list \in Seq(Buffer(n))
  BY DEF Flow, Consecutive
<1>2. ASSUME NEW i \in 1 .. Len(list)
      PROVE  /\ list[i].seq \in Nat /\ list[i].seq + 1 \in 1 .. Len(frames)
             /\ list[i].cells = frames[list[i].seq + 1]
  <2>1. GoodBuf(list[i], frames, n)
    BY DEF Consecutive
  <2> QED
    BY <2>1 DEF GoodBuf, Buffer
<1>3. list[1].frag0 \in 1 .. Len(list[1].cells)
  BY <1>1 DEF Consecutive, GoodBuf
<1>4. ASSUME NEW i \in 1 .. Len(list) PROVE list[i].cells # <<>> /\ Chain(list[i].cells)
  BY <1>2 DEF Flow
<1>5. ASSUME NEW i \in 1 .. (Len(list) - 1)
      PROVE  Follows(list[i].cells[Len(list[i].cells)], list[i + 1].cells[1])
  <2> DEFINE q == list[i].seq + 1
  <2>1. i \in 1 .. Len(list) /\ i + 1 \in 1 .. Len(list)
    BY <1>1
  <2>2. list[i + 1].seq = list[i].seq + 1
    BY DEF Consecutive
  <2>3. q \in Nat /\ q >= 1 /\ q + 1 \in 1 .. Len(frames) /\ list[i].cells = frames[q] /\ list[i + 1].cells = frames[q + 1]
    <3>1. list[i].seq \in Nat /\ list[i].seq + 1 \in 1 .. Len(frames) /\ list[i].cells = frames[list[i].seq + 1]
      BY <1>2, <2>1
    <3>2. list[i + 1].seq + 1 \in 1 .. Len(frames) /\ list[i + 1].cells = frames[list[i + 1].seq + 1]
      BY <1>2, <2>1
    <3> QED
      BY <2>2, <3>1, <3>2
  <2> HIDE DEF q
  <2>4. q \in 1 .. (Len(frames) - 1)
    BY <1>1, <2>3
  <2> QED
    BY <2>3, <2>4 DEF Flow
<1> QED
  BY <1>3, <1>4, <1>5 DEF Linked

\* A frame inserted into an empty list.
LEMMA InsertFirstFacts ==
  ASSUME NEW n \in Nat, NEW frames, Flow(frames, n), NEW b, GoodBuf(b, frames, n)
  PROVE  /\ GoodResult(insertFirst(b), 1, frames, n)
         /\ insertFirst(b).released \in {0, 1}
         /\ DOMAIN insertFirst(b) = {"list", "pkts", "released"}
         /\ Brought(insertFirst(b).pkts, b.cells, 1, Len(b.cells))
<1> DEFINE r == ProcessCompletePkts(b)
<1>1. /\ GoodBuf(r.buf, frames, n) /\ r.pkts \in Seq(Whole(n))
      /\ Brought(r.pkts, b.cells, b.index + 1, Len(b.cells))
  BY ProcessFacts
<1>4. Brought(r.pkts, b.cells, 1, Len(b.cells))
  <2>1. b.index \in Nat /\ Len(b.cells) \in Nat
    BY DEF GoodBuf, Buffer
  <2>2. b.index + 1 \in Int /\ 1 <= b.index + 1
    BY <2>1
  <2> DEFINE c == b.cells
             lo == b.index + 1
             pkts == r.pkts
  <2>3. Brought(pkts, c, lo, Len(c)) /\ Len(c) \in Int /\ Len(c) \in Nat /\ lo \in Int /\ 1 <= lo /\ 1 \in Int
    BY <1>1, <2>1, <2>2
  <2> HIDE DEF r, c, lo, pkts
  <2>4. Brought(pkts, c, 1, Len(c))
    BY ONLY <2>3, BroughtWiden
  <2> QED
    BY <2>4 DEF c, pkts
<1>2. CASE r.buf.frag0 # 0
  <2>1. insertFirst(b) = [list |-> <<r.buf>>, pkts |-> r.pkts, released |-> 0]
    BY <1>2 DEF insertFirst
  <2>2. GoodList(<<r.buf>>, frames, n)
    BY <1>1, <1>2, SmallLists
  <2> HIDE DEF r
  <2> QED
    BY <1>1, <1>4, <2>1, <2>2 DEF GoodResult
<1>3. CASE r.buf.frag0 = 0
  <2>1. insertFirst(b) = [list |-> <<>>, pkts |-> r.pkts, released |-> 1]
    BY <1>3 DEF insertFirst
  <2>2. GoodList(<<>>, frames, n)
    BY SmallLists
  <2> HIDE DEF r
  <2> QED
    BY <1>1, <1>4, <2>1, <2>2 DEF GoodResult
<1> QED
  BY <1>2, <1>3

\* A packet is put together from a whole list.
LEMMA CollectFacts ==
  ASSUME NEW n \in Nat, NEW frames, Flow(frames, n), NEW list, Consecutive(list, frames, n),
         Len(list) >= 2, \A k \in 2 .. (Len(list) - 1) : list[k].index = NoStart,
         Len(joined(list)[Len(list)]) >= list[1].pktLen,
         Len(joined(list)[Len(list) - 1]) < list[1].pktLen
  PROVE  /\ GoodResult(collectAndWrite(list, Len(list)), Len(list), frames, n)
         /\ Brought(collectAndWrite(list, Len(list)).pkts, list[Len(list)].cells, 1,
                    Len(list[Len(list)].cells))
<1> DEFINE N == Len(list)
           used == [i \in DOMAIN list |->
                      IF i = 1 THEN SetProcessed(list[i])
                      ELSE IF i <= N THEN [list[i] EXCEPT !.fragNDone = TRUE] ELSE list[i]]
           last == ProcessCompletePkts(used[N])
           final == [used EXCEPT ![N] = last.buf]
           kept == removeProcessed(final)
           whole == SubSeq(joined(list)[N], 1, list[1].pktLen)
           r == collectAndWrite(list, N)
<1>1. r = [list |-> kept, pkts |-> <<whole>> \o last.pkts, released |-> N - Len(kept)]
  BY DEF collectAndWrite
<1>2. /\ N \in Nat /\ N >= 2 /\ DOMAIN list = 1 .. N /\ list \in Seq(Buffer(n)) /\ list # <<>>
      /\ \A i \in 1 .. N : list[i] \in Buffer(n) /\ GoodBuf(list[i], frames, n)
  BY DEF Consecutive
<1>3. Linked(list)
  BY <1>2, ConsecutiveLinked
<1>4. /\ whole \in Whole(n)
      /\ \E p \in Pkts : \E x \in 1 .. Len(list[N].cells) :
           /\ whole = Cells(p) /\ list[N].cells[x] = EndOf(p)
           /\ list[N].index # NoStart => x <= list[N].index
  <2> DEFINE c == joined(list)[N]
  <2>1. c \in Seq(Sent(n)) /\ Chain(c) /\ c # <<>> /\ c[1] = list[1].cells[list[1].frag0]
    BY <1>2, <1>3, JoinedChain
  <2>2. list[1].cells[list[1].frag0].off = 0 /\ list[1].pktLen = PktLen[list[1].cells[list[1].frag0].pkt]
    BY <1>2 DEF Consecutive, GoodBuf
  <2>3. c[1].off = 0 /\ list[1].pktLen = PktLen[c[1].pkt] /\ Len(c) >= list[1].pktLen
    BY <2>1, <2>2
  <2> HIDE DEF c
  <2>4. 1 \in 1 .. Len(c) /\ Len(c) \in Nat
    BY <2>1, EmptySeq
  <2>5. list[1].pktLen \in Nat
    BY <1>2 DEF Buffer
  <2>6. (1 + PktLen[c[1].pkt]) - 1 <= Len(c) /\ (1 + PktLen[c[1].pkt]) - 1 = list[1].pktLen
    BY <2>3, <2>4, <2>5
  <2> DEFINE p == c[1].pkt
             L == list[1].pktLen
  <2>7. SubSeq(c, 1, L) \in Whole(n) /\ SubSeq(c, 1, L) = Cells(p) /\ c[L] = EndOf(p)
    BY <2>1, <2>3, <2>4, <2>6, ChainPacket
  <2>8. p \in Pkts /\ L >= 1
    <3>1. c[1] \in Sent(n)
      BY <2>1, <2>4
    <3> QED
      BY <2>3, <3>1, SentFacts, PacketFacts
  <2> DEFINE b == list[N]
             d == joined(list)[N - 1]
             x == L - Len(d)
  <2>9. /\ c = d \o b.cells /\ d \in Seq(Sent(n)) /\ b.cells \in Seq(Sent(n)) /\ b.index \in Nat
        /\ d # <<>>
    <3>1. \A k \in 1 .. Len(list) : Part(list, k) \in Seq(Sent(n))
      BY <1>2, <1>3, PartFacts
    <3>3. N - 1 \in 1 .. Len(list) /\ N # 1 /\ N \in 1 .. N
      BY <1>2
    <3>6. \A k \in 1 .. Len(list) : joined(list)[k] = joined(list)[k - 1] \o Part(list, k)
      BY <1>2, <3>1, JoinedIs
    <3>2. c = d \o Part(list, N)
      BY ONLY <3>3, <3>6 DEF c
    <3>4. d \in Seq(Sent(n)) /\ d # <<>>
      BY <1>2, <1>3, <3>3, JoinedChain
    <3>5. b \in Buffer(n)
      BY <1>2, <3>3
    <3> QED
      BY <3>2, <3>3, <3>4, <3>5 DEF Part, Buffer
  <2>10. Len(d) < L /\ Len(c) >= L
    BY <2>3
  <2>11. list[1].pktLen = L
    OBVIOUS
  <2>12. \A k \in Nat : k < L /\ 1 + k <= Len(c) => c[1 + k] = [pkt |-> p, off |-> k]
    BY <2>1, <2>3, <2>4, ChainInside
  <2>13. b.index # NoStart => b.index + 1 \in 1 .. Len(b.cells) /\ b.cells[b.index + 1].off = 0
    <3>1. GoodBuf(b, frames, n)
      BY <1>2
    <3> QED
      BY <3>1 DEF GoodBuf, IndexOK
  <2> HIDE DEF b, d, L, p
  <2>14. /\ Len(d) \in Nat /\ Len(b.cells) \in Nat /\ Len(c) = Len(d) + Len(b.cells) /\ Len(d) >= 1
         /\ \A i \in 1 .. (Len(d) + Len(b.cells)) : c[i] = IF i <= Len(d) THEN d[i] ELSE b.cells[i - Len(d)]
    BY <2>9, ConcatProperties, EmptySeq
  <2>15. L \in Nat
    BY <2>5, <2>11
  <2>16. /\ x \in 1 .. Len(b.cells) /\ L \in 1 .. (Len(d) + Len(b.cells)) /\ ~(L <= Len(d))
         /\ L - Len(d) = x
    BY <2>8, <2>10, <2>14, <2>15
  <2>17. b.cells[x] = EndOf(p)
    BY <2>7, <2>14, <2>16
  <2>18. ASSUME b.index # NoStart, ~(x <= b.index) PROVE FALSE
    <3> DEFINE k == Len(d) + b.index
    <3>1. /\ k \in Nat /\ k < L /\ k # 0 /\ 1 + k <= Len(c) /\ 1 + k \in 1 .. (Len(d) + Len(b.cells))
          /\ ~(1 + k <= Len(d)) /\ (1 + k) - Len(d) = b.index + 1
      <4> DEFINE i == b.index
                 D == Len(d)
                 B == Len(b.cells)
      <4>1. /\ i \in Nat /\ D \in Nat /\ B \in Nat /\ Len(c) = D + B /\ D >= 1 /\ L \in Nat
            /\ i + 1 \in 1 .. B /\ L - D = x /\ ~(x <= i) /\ x \in 1 .. B
        BY <2>9, <2>13, <2>14, <2>15, <2>16, <2>18
      <4> HIDE DEF i, D, B, x
      <4>2. /\ D + i \in Nat /\ D + i < L /\ D + i # 0 /\ 1 + (D + i) <= Len(c)
            /\ 1 + (D + i) \in 1 .. (D + B) /\ ~(1 + (D + i) <= D) /\ (1 + (D + i)) - D = i + 1
        BY ONLY <4>1
      <4> QED
        BY <4>2 DEF i, D, B
    <3>2. c[1 + k] = [pkt |-> p, off |-> k] /\ c[1 + k] = b.cells[b.index + 1]
      BY <2>12, <2>14, <3>1
    <3>3. k # 0 /\ b.cells[b.index + 1].off = 0
      BY <2>13, <2>18, <3>1
    <3> HIDE DEF k
    <3>4. b.cells[b.index + 1].off = k
      BY ONLY <3>2
    <3> QED
      BY ONLY <3>3, <3>4
  <2>19. whole = SubSeq(c, 1, L)
    BY DEF c, L
  <2> HIDE DEF c, x
  <2>20. /\ p \in Pkts /\ x \in 1 .. Len(list[N].cells) /\ whole = Cells(p)
         /\ list[N].cells[x] = EndOf(p) /\ (list[N].index # NoStart => x <= list[N].index)
    BY <2>7, <2>8, <2>16, <2>17, <2>18, <2>19 DEF b
  <2> HIDE DEF whole
  <2> QED
    BY <2>7, <2>19, <2>20
<1>5. ASSUME NEW i \in 1 .. N
      PROVE  /\ used[i] \in Buffer(n)
             /\ i < N => Processed(used[i])
             /\ i = N => /\ used[i] = [list[i] EXCEPT !.fragNDone = TRUE] /\ used[i].fragNDone
                         /\ GoodBuf(used[i], frames, n)
  <2>1. list[i] \in Buffer(n) /\ GoodBuf(list[i], frames, n) /\ i \in DOMAIN list
    BY <1>2
  <2>2. CASE i = 1
    <3>1. used[i] = SetProcessed(list[i]) /\ i # N
      BY <1>2, <2>1, <2>2
    <3> DEFINE b == list[i]
               b1 == [b EXCEPT !.completeDone = TRUE]
               b2 == [b1 EXCEPT !.fragNDone = TRUE]
               b3 == [b2 EXCEPT !.frag0Done = TRUE]
    <3>2. SetProcessed(b) = b3
      BY <2>1 DEF SetProcessed, Buffer
    <3> HIDE DEF b
    <3>3. b \in Buffer(n)
      BY <2>1 DEF b
    <3>4. b1 \in Buffer(n) /\ b1.completeDone
      BY <3>3 DEF Buffer
    <3> HIDE DEF b1
    <3>5. b2 \in Buffer(n) /\ b2.completeDone /\ b2.fragNDone
      BY <3>4 DEF Buffer
    <3> HIDE DEF b2
    <3>6. b3 \in Buffer(n) /\ b3.completeDone /\ b3.fragNDone /\ b3.frag0Done
      BY <3>5 DEF Buffer
    <3> QED
      BY <3>1, <3>2, <3>6 DEF Processed, b
  <2>3. CASE i # 1
    <3> DEFINE b == list[i]
               b1 == [b EXCEPT !.fragNDone = TRUE]
    <3>1. used[i] = b1
      BY <1>2, <2>1, <2>3
    <3>2. /\ b1 \in Buffer(n) /\ b1.fragNDone /\ b1.seq = b.seq /\ b1.cells = b.cells
          /\ b1.index = b.index /\ b1.frag0 = b.frag0 /\ b1.pktLen = b.pktLen
          /\ b1.completeDone = b.completeDone
      BY <2>1 DEF Buffer
    <3>3. i < N => Processed(b1)
      <4> SUFFICES ASSUME i < N PROVE Processed(b1)
        OBVIOUS
      <4>1. i \in 2 .. (Len(list) - 1)
        BY <1>2, <2>3
      <4>2. b.index = NoStart
        BY <4>1
      <4>3. b.completeDone /\ b.frag0 = 0
        BY <2>1, <4>2 DEF GoodBuf
      <4> QED
        BY <3>2, <4>3 DEF Processed
    <3>4. GoodBuf(b1, frames, n)
      <4> HIDE DEF b1
      <4> QED
        BY <2>1, <3>2 DEF GoodBuf
    <3> QED
      BY <3>1, <3>2, <3>3, <3>4
  <2> QED
    BY <2>2, <2>3
<1>6. used \in Seq(Buffer(n)) /\ Len(used) = N /\ DOMAIN used = 1 .. N
  <2>1. DOMAIN used = 1 .. N
    BY <1>2
  <2> HIDE DEF used
  <2>2. used \in [1 .. N -> Buffer(n)]
    BY <1>2, <1>5, <2>1 DEF used
  <2> QED
    BY <1>2, <2>1, <2>2, LenProperties
<1>7. /\ used[N].fragNDone /\ GoodBuf(used[N], frames, n)
      /\ used[N].cells = list[N].cells /\ used[N].index = list[N].index
  <2>1. N \in 1 .. N /\ list[N] \in Buffer(n)
    BY <1>2
  <2>2. used[N] = [list[N] EXCEPT !.fragNDone = TRUE] /\ used[N].fragNDone /\ GoodBuf(used[N], frames, n)
    BY <1>5, <2>1
  <2> HIDE DEF used
  <2> QED
    BY <2>1, <2>2 DEF Buffer
<1> HIDE DEF used, r
<1>8. /\ GoodBuf(last.buf, frames, n) /\ last.pkts \in Seq(Whole(n))
      /\ last.buf.fragNDone /\ last.buf.completeDone
      /\ Brought(last.pkts, list[N].cells, list[N].index + 1, Len(list[N].cells))
      /\ list[N].index = NoStart => last.pkts = <<>>
  BY <1>7, ProcessFacts
<1> HIDE DEF last
<1>9. /\ final \in Seq(Buffer(n)) /\ Len(final) = N /\ final[N] = last.buf
      /\ \A k \in 1 .. (N - 1) : Processed(final[k])
  <2>1. last.buf \in Buffer(n)
    BY <1>8 DEF GoodBuf
  <2>2. final \in Seq(Buffer(n)) /\ Len(final) = N
    BY <1>2, <1>6, <2>1
  <2>3. final[N] = last.buf /\ \A k \in 1 .. (N - 1) : final[k] = used[k]
    <3>1. N \in Nat /\ N >= 2 /\ DOMAIN used = 1 .. N
      BY <1>2, <1>6
    <3> HIDE DEF N
    <3>2. N \in DOMAIN used /\ \A k \in 1 .. (N - 1) : k \in DOMAIN used /\ k # N
      BY ONLY <3>1
    <3> QED
      BY <3>2
  <2>4. \A k \in 1 .. (N - 1) : k \in 1 .. N /\ k < N
    BY <1>2
  <2> QED
    BY <1>5, <2>2, <2>3, <2>4
<1> HIDE DEF final
<1>10. kept = IF Processed(last.buf) THEN <<>> ELSE <<last.buf>>
  BY <1>2, <1>9, RemoveFacts
<1>11. GoodList(kept, frames, n) /\ Len(kept) \in 0 .. 1
  <2>1. CASE Processed(last.buf)
    BY <1>10, <2>1, SmallLists
  <2>2. CASE ~Processed(last.buf)
    <3>1. last.buf.frag0 # 0
      BY <1>8, <2>2 DEF Processed
    <3> QED
      <4>1. kept = <<last.buf>> /\ Len(<<last.buf>>) = 1
        BY <1>10, <2>2
      <4>2. GoodList(<<last.buf>>, frames, n)
        BY <1>8, <3>1, SmallLists
      <4> QED
        BY <4>1, <4>2
  <2> QED
    BY <2>1, <2>2
<1>12. <<whole>> \o last.pkts \in Seq(Whole(n))
  BY <1>4, <1>8
<1> HIDE DEF whole, kept
<1>13. N - Len(kept) \in Nat /\ (N - Len(kept)) + Len(kept) = N
  <2> DEFINE K == Len(kept)
  <2>1. N \in Nat /\ N >= 2 /\ K \in 0 .. 1
    BY <1>2, <1>11
  <2> HIDE DEF N, K
  <2>2. N - K \in Nat /\ (N - K) + K = N
    BY ONLY <2>1
  <2> QED
    BY <2>2 DEF K
<1>14. Brought(<<whole>> \o last.pkts, list[N].cells, 1, Len(list[N].cells))
  <2> DEFINE b == list[N]
  <2>1. PICK p \in Pkts : \E y \in 1 .. Len(b.cells) :
           /\ whole = Cells(p) /\ b.cells[y] = EndOf(p) /\ (b.index # NoStart => y <= b.index)
    BY <1>4
  <2>2. PICK x \in 1 .. Len(b.cells) :
           /\ whole = Cells(p) /\ b.cells[x] = EndOf(p) /\ (b.index # NoStart => x <= b.index)
    BY <2>1
  <2>3. Len(b.cells) \in Nat /\ b.index \in Nat
    <3>1. b \in Buffer(n)
      BY <1>2
    <3> QED
      BY <3>1 DEF Buffer
  <2>4. Brought(last.pkts, b.cells, x + 1, Len(b.cells))
    <3>1. CASE b.index = NoStart
      BY <1>8, <3>1, BroughtEmpty
    <3>2. CASE b.index # NoStart
      <4>1. Brought(last.pkts, b.cells, b.index + 1, Len(b.cells))
        BY <1>8
      <4>2. x + 1 <= b.index + 1 /\ x + 1 \in Int /\ b.index + 1 \in Int
        BY <2>2, <2>3, <3>2
      <4> DEFINE lo == b.index + 1
                 hi == Len(b.cells)
                 y == x + 1
                 pkts == last.pkts
                 cells == b.cells
      <4>3. hi \in Nat /\ hi = Len(cells) /\ Brought(pkts, cells, lo, hi) /\ y <= lo /\ y \in Int /\ lo \in Int
        BY <2>3, <4>1, <4>2
      <4> HIDE DEF lo, hi, y, pkts, cells
      <4>4. Brought(pkts, cells, y, hi)
        BY ONLY <4>3, BroughtWiden
      <4> QED
        BY <4>4 DEF hi, y, pkts, cells
    <3> QED
      BY <3>1, <3>2
  <2> HIDE DEF b
  <2>5. Brought(<<whole>>, b.cells, 1, x)
    <3>1. 1 <= x /\ x <= x
      BY <2>3
    <3> QED
      BY <2>2, <3>1, BroughtOne
  <2>6. <<whole>> \in Seq(Whole(n)) /\ last.pkts \in Seq(Whole(n))
    BY <1>4, <1>8
  <2>7. x \in Int /\ 1 <= x + 1 /\ x <= Len(b.cells) /\ Len(b.cells) \in Int
    BY <2>3
  <2>8. Brought(<<whole>> \o last.pkts, b.cells, 1, Len(b.cells))
    <3> DEFINE c == b.cells
               one == <<whole>>
               more == last.pkts
    <3>1. /\ one \in Seq(Whole(n)) /\ more \in Seq(Whole(n)) /\ Len(c) \in Nat /\ Len(c) \in Int
          /\ x \in Int /\ 1 \in Int /\ 1 <= x + 1 /\ x <= Len(c)
          /\ Brought(one, c, 1, x) /\ Brought(more, c, x + 1, Len(c))
      BY <2>3, <2>4, <2>5, <2>6, <2>7
    <3> HIDE DEF c, one, more
    <3>2. Brought(one \o more, c, 1, Len(c))
      BY ONLY <3>1, BroughtJoin
    <3> QED
      BY <3>2 DEF c, one, more
  <2> QED
    BY <2>8 DEF b
<1> QED
  BY <1>1, <1>11, <1>12, <1>13, <1>14 DEF GoodResult, N, r

\* No packet starts in the last frame before the first packet is complete: there
\* are no framing errors.
LEMMA NoFramingError ==
  ASSUME NEW n \in Nat, NEW frames, Flow(frames, n), NEW list, Consecutive(list, frames, n),
         Len(list) >= 2, list[Len(list)].index # NoStart
  PROVE  Len(joined(list)[Len(list)]) >= list[1].pktLen
<1> DEFINE N == Len(list)
           b == list[N]
           c == joined(list)[N]
           d == joined(list)[N - 1]
           pos == Len(d) + (b.index + 1)
<1>1. /\ N \in Nat /\ N >= 2 /\ list \in Seq(Buffer(n)) /\ list # <<>> /\ 1 \in 1 .. N /\ N \in 1 .. N
      /\ N - 1 \in 1 .. N /\ Linked(list) /\ N # 1
  BY ConsecutiveLinked DEF Consecutive
<1>2. /\ GoodBuf(list[1], frames, n) /\ GoodBuf(b, frames, n) /\ list[1].frag0 # 0
  BY <1>1 DEF Consecutive
<1>3. /\ list[1].cells[list[1].frag0].off = 0 /\ list[1].pktLen = PktLen[list[1].cells[list[1].frag0].pkt]
      /\ list[1].pktLen \in Nat
  BY <1>2 DEF GoodBuf, Buffer
<1>4. /\ b.cells \in Seq(Sent(n)) /\ b.index \in Nat /\ b.index + 1 \in 1 .. Len(b.cells)
      /\ b.cells[b.index + 1].off = 0
  BY <1>2 DEF GoodBuf, IndexOK, Buffer
<1>5. /\ c \in Seq(Sent(n)) /\ Chain(c) /\ c # <<>> /\ c[1] = list[1].cells[list[1].frag0]
      /\ d \in Seq(Sent(n)) /\ d # <<>>
  <2>1. \A k \in 1 .. Len(list) :
           /\ joined(list)[k] \in Seq(Sent(n)) /\ Chain(joined(list)[k]) /\ joined(list)[k] # <<>>
           /\ joined(list)[k][1] = list[1].cells[list[1].frag0]
    BY <1>1, JoinedChain
  <2> QED
    BY <1>1, <2>1
<1>6. c = d \o b.cells
  <2>1. \A k \in 1 .. Len(list) : Part(list, k) \in Seq(Sent(n))
    BY <1>1, PartFacts
  <2>2. c = d \o Part(list, N)
    BY <1>1, <2>1, JoinedIs
  <2> QED
    BY <1>1, <2>2 DEF Part
<1>7. c[1].off = 0 /\ list[1].pktLen = PktLen[c[1].pkt]
  BY <1>3, <1>5
<1> HIDE DEF c, d, b, N
<1>8. /\ Len(d) \in Nat /\ Len(d) >= 1 /\ Len(c) \in Nat /\ 1 \in 1 .. Len(c)
      /\ Len(c) = Len(d) + Len(b.cells) /\ Len(b.cells) \in Nat
  BY <1>4, <1>5, <1>6, EmptySeq
<1>9. pos \in Nat /\ pos >= 2 /\ pos <= Len(c) /\ c[pos] = b.cells[b.index + 1]
  <2>1. pos \in Nat /\ pos >= 2 /\ pos <= Len(c) /\ ~(pos <= Len(d)) /\ pos - Len(d) = b.index + 1
    BY <1>4, <1>8, SMTT(30)
  <2>2. pos \in 1 .. (Len(d) + Len(b.cells))
    BY <1>8, <2>1
  <2>3. \A i \in 1 .. (Len(d) + Len(b.cells)) :
           (d \o b.cells)[i] = IF i <= Len(d) THEN d[i] ELSE b.cells[i - Len(d)]
    BY <1>4, <1>5, ConcatProperties
  <2> HIDE DEF pos
  <2> QED
    BY <1>6, <2>1, <2>2, <2>3
<1> HIDE DEF pos
<1>10. SUFFICES ASSUME Len(c) < list[1].pktLen PROVE FALSE
  BY <1>3, <1>8 DEF c, N
<1>11. \A k \in Nat : k < PktLen[c[1].pkt] /\ 1 + k <= Len(c) => c[1 + k] = [pkt |-> c[1].pkt, off |-> k]
  BY <1>5, <1>7, <1>8, ChainInside
<1>12. pos - 1 \in Nat /\ pos - 1 < PktLen[c[1].pkt] /\ 1 + (pos - 1) = pos /\ pos - 1 # 0
  <2>1. Len(c) < PktLen[c[1].pkt] /\ PktLen[c[1].pkt] \in Nat
    BY <1>3, <1>7, <1>10
  <2> QED
    BY ONLY <1>8, <1>9, <2>1
<1>13. c[pos].off = pos - 1
  <2>1. 1 + (pos - 1) <= Len(c)
    BY ONLY <1>9, <1>12
  <2>2. c[1 + (pos - 1)] = [pkt |-> c[1].pkt, off |-> pos - 1]
    BY ONLY <1>11, <1>12, <2>1
  <2> QED
    BY <1>12, <2>2
<1> QED
  BY <1>4, <1>9, <1>12, <1>13

\* A frame that follows the last one of the list.
LEMMA TryFacts ==
  ASSUME NEW n \in Nat, NEW frames, Flow(frames, n), NEW old, GoodList(old, frames, n),
         Len(old) >= 1, Len(old) < ListCap, NEW b, GoodBuf(b, frames, n),
         b.seq = old[Len(old)].seq + 1
  PROVE  /\ GoodResult(tryReassemble(Append(old, b)), Len(old) + 1, frames, n)
         /\ Brought(tryReassemble(Append(old, b)).pkts, b.cells, 1, Len(b.cells))
<1> DEFINE list == Append(old, b)
           N == Len(old) + 1
           ready(k) == Len(joined(list)[k]) >= list[1].pktLen
           stops == {k \in 2 .. Len(list) : ready(k) \/ list[k].index # NoStart}
           r == tryReassemble(list)
<1>1. /\ Len(old) \in Nat /\ old \in Seq(Buffer(n)) /\ b \in Buffer(n) /\ old # <<>>
      /\ Consecutive(old, frames, n) /\ ListCap \in Nat
  BY GatewayAssumption DEF GoodList, Consecutive, GoodBuf
<1>2. /\ N \in Nat /\ N >= 2 /\ N <= ListCap /\ list \in Seq(Buffer(n)) /\ Len(list) = N
      /\ list # <<>> /\ list[N] = b /\ \A i \in 1 .. Len(old) : list[i] = old[i]
  BY <1>1
<1>3. r = IF N < 2 \/ (stops = {} /\ list[1].frag0 # 0)
            THEN [list |-> list, pkts |-> <<>>, released |-> 0]
          ELSE IF list[1].frag0 = 0
            THEN [list |-> <<>>, pkts |-> <<>>, released |-> N]
          ELSE IF ready(Min(stops)) THEN collectAndWrite(list, Min(stops))
          ELSE [list |-> <<Last(list)>>, pkts |-> <<>>, released |-> N - 1]
  BY <1>2 DEF tryReassemble
<1> HIDE DEF list, r
<1>4. Consecutive(list, frames, n)
  <2>1. ASSUME NEW i \in 1 .. Len(list) PROVE GoodBuf(list[i], frames, n)
    <3>1. CASE i = N
      BY <1>2, <3>1
    <3>2. CASE i # N
      <4>1. i \in 1 .. Len(old)
        BY <1>1, <1>2, <3>2
      <4> QED
        BY <1>1, <1>2, <4>1 DEF Consecutive
    <3> QED
      BY <3>1, <3>2
  <2>2. ASSUME NEW i \in 1 .. (Len(list) - 1) PROVE list[i + 1].seq = list[i].seq + 1
    <3>1. CASE i = Len(old)
      <4>1. i + 1 = N /\ i \in 1 .. Len(old)
        BY <1>1, <3>1
      <4> QED
        BY <1>2, <3>1, <4>1
    <3>2. CASE i # Len(old)
      <4>1. i \in 1 .. Len(old) /\ i + 1 \in 1 .. Len(old) /\ i \in 1 .. (Len(old) - 1)
        BY <1>1, <1>2, <3>2
      <4> QED
        BY <1>1, <1>2, <4>1 DEF Consecutive
    <3> QED
      BY <3>1, <3>2
  <2>3. list[1].frag0 # 0
    <3>1. 1 \in 1 .. Len(old)
      BY <1>1
    <3> QED
      BY <1>1, <1>2, <3>1 DEF Consecutive
  <2> QED
    BY <1>2, <2>1, <2>2, <2>3 DEF Consecutive
<1>5. Linked(list) /\ Linked(old)
  BY <1>1, <1>2, <1>4, ConsecutiveLinked
<1>6. /\ list[1].pktLen \in Nat /\ list[1].frag0 # 0
      /\ \A k \in 1 .. N : Len(joined(list)[k]) \in Nat
  <2>1. list[1] \in Buffer(n)
    BY <1>2
  <2>2. \A k \in 1 .. N : joined(list)[k] \in Seq(Sent(n))
    BY <1>2, <1>5, JoinedChain
  <2>3. list[1].pktLen \in Nat
    BY <2>1 DEF Buffer
  <2>4. list[1].frag0 # 0
    BY <1>2, <1>4 DEF Consecutive
  <2>5. \A k \in 1 .. N : Len(joined(list)[k]) \in Nat
    BY <2>2
  <2> QED
    BY <2>3, <2>4, <2>5
<1>7. ASSUME NEW k \in 2 .. N, k # N PROVE list[k].index = NoStart /\ ~ready(k)
  <2>1. k \in 2 .. Len(old) /\ k \in 1 .. Len(old) /\ 1 \in 1 .. Len(old) /\ k \in 1 .. N
    BY <1>1, <1>7
  <2>2. old[k].index = NoStart /\ Len(joined(old)[k]) < old[1].pktLen
    BY <2>1 DEF GoodList
  <2>3. joined(list)[k] = joined(old)[k]
    BY <1>1, <1>5, <2>1, JoinedPrefix DEF list
  <2>4. Len(joined(list)[k]) < list[1].pktLen /\ list[k].index = NoStart
    BY <1>2, <2>1, <2>2, <2>3
  <2> QED
    BY <1>6, <2>1, <2>4
<1>8. CASE N \notin stops
  <2>1. list[N].index = NoStart /\ ~ready(N)
    BY <1>2, <1>8
  <2>2. ASSUME NEW k \in 2 .. N PROVE list[k].index = NoStart /\ ~ready(k)
    BY <1>7, <2>1
  <2>3. stops = {}
    BY <1>2, <2>2
  <2>4. r = [list |-> list, pkts |-> <<>>, released |-> 0]
    BY <1>3, <1>6, <2>3
  <2>5. ASSUME NEW k \in 2 .. Len(list)
        PROVE  list[k].index = NoStart /\ Len(joined(list)[k]) < list[1].pktLen
    <3>1. k \in 2 .. N /\ k \in 1 .. N
      BY <1>2
    <3> QED
      BY <1>6, <2>2, <3>1
  <2>6. GoodList(list, frames, n)
    BY <1>2, <1>4, <2>5 DEF GoodList
  <2>7. <<>> \in Seq(Whole(n))
    OBVIOUS
  <2> QED
    BY <1>2, <2>4, <2>6, <2>7, BroughtEmpty DEF GoodResult, r, list
<1>9. CASE N \in stops
  <2>1. stops = {N}
    BY <1>2, <1>7, <1>9
  <2>2. Min(stops) = N
    <3> HIDE DEF stops
    <3> QED
      BY <1>2, <2>1 DEF Min
  <2>3. ready(N)
    <3>1. CASE list[N].index # NoStart
      BY <1>2, <1>4, <3>1, NoFramingError
    <3>2. CASE list[N].index = NoStart
      BY <1>9, <3>2
    <3> QED
      BY <3>1, <3>2
  <2>4. stops # {}
    BY <2>1
  <2> HIDE DEF stops
  <2>5. r = collectAndWrite(list, N)
    BY <1>2, <1>3, <1>6, <2>2, <2>3, <2>4
  <2>6. \A k \in 2 .. (Len(list) - 1) : list[k].index = NoStart
    <3>1. \A k \in 2 .. (Len(list) - 1) : k \in 2 .. N /\ k # N
      BY <1>2
    <3> QED
      BY <1>7, <3>1
  <2>8. Len(joined(list)[Len(list) - 1]) < list[1].pktLen
    <3>1. CASE N = 2
      <4>0. Len(list) = 2
        BY <1>2, <3>1
      <4>1. 1 \in 1 .. Len(list) /\ Len(list) - 1 = 1 /\ Len(list) >= 1
        BY ONLY <4>0
      <4>2. \A k \in 1 .. Len(list) : Part(list, k) \in Seq(Sent(n))
        BY <1>2, <1>5, PartFacts
      <4>3. joined(list)[0] = <<>> /\ joined(list)[1] = joined(list)[0] \o Part(list, 1)
        <5>1. 1 - 1 = 0
          OBVIOUS
        <5> QED
          BY <1>2, <4>1, <4>2, <5>1, JoinedIs
      <4>4. joined(list)[1] = Part(list, 1)
        BY <4>1, <4>2, <4>3, ConcatEmptySeq
      <4>5. /\ list[1].frag0 \in 1 .. Len(list[1].cells) /\ list[1].cells \in Seq(Sent(n))
            /\ (Len(list[1].cells) - list[1].frag0) + 1 < list[1].pktLen
        BY <1>4, <1>6, <4>1 DEF Consecutive, GoodBuf, Buffer
      <4>6. Len(Part(list, 1)) = (Len(list[1].cells) - list[1].frag0) + 1
        <5> DEFINE c == list[1].cells
                   i == list[1].frag0
        <5>1. c \in Seq(Sent(n)) /\ i \in 1 .. Len(c) /\ Len(c) \in Nat
          BY <4>5
        <5> HIDE DEF c, i
        <5>2. Len(SubSeq(c, i, Len(c))) = (Len(c) - i) + 1
          BY <5>1
        <5> QED
          BY <5>2 DEF Part, c, i
      <4> QED
        BY <4>1, <4>4, <4>5, <4>6
    <3>2. CASE N # 2
      <4>1. N - 1 \in 2 .. N /\ N - 1 # N /\ N - 1 \in 1 .. N
        BY <1>2, <3>2
      <4>2. ~ready(N - 1)
        BY <1>7, <4>1
      <4> QED
        BY <1>2, <1>6, <4>1, <4>2
    <3> QED
      BY <3>1, <3>2
  <2>7. /\ GoodResult(collectAndWrite(list, Len(list)), Len(list), frames, n)
        /\ Brought(collectAndWrite(list, Len(list)).pkts, list[Len(list)].cells, 1,
                   Len(list[Len(list)].cells))
    BY <1>2, <1>4, <2>3, <2>6, <2>8, CollectFacts
  <2> QED
    BY <1>2, <2>5, <2>7 DEF r, list
<1> QED
  BY <1>8, <1>9

\* Insert keeps a list good, writes whole packets and accounts for every buffer.
LEMMA InsertFacts ==
  ASSUME NEW n \in Nat, NEW frames, Flow(frames, n), NEW list, GoodList(list, frames, n),
         NEW b, GoodBuf(b, frames, n)
  PROVE  /\ GoodResult(Insert(list, b), Len(list) + 1, frames, n)
         /\ Brought(Insert(list, b).pkts, b.cells, 1, Len(b.cells))
<1>1. /\ Len(list) \in Nat /\ list \in Seq(Buffer(n)) /\ ListCap \in Nat /\ Len(list) <= ListCap
      /\ b.seq \in Nat
  BY GatewayAssumption DEF GoodList, Consecutive, GoodBuf, Buffer
<1>2. CASE list = <<>>
  <2>1. Insert(list, b) = insertFirst(b) /\ Len(list) + 1 = 1
    BY <1>2 DEF Insert
  <2> QED
    BY <2>1, InsertFirstFacts
<1>3. CASE list # <<>>
  <2> DEFINE old == b.seq < Head(list).seq \/ b.seq <= Last(list).seq
             far == b.seq > Last(list).seq + 1 \/ Len(list) = ListCap
  <2>1. Len(list) >= 1 /\ Last(list) = list[Len(list)] /\ Last(list).seq \in Nat
    <3>1. Len(list) >= 1 /\ Last(list) = list[Len(list)]
      BY <1>1, <1>3, EmptySeq DEF Last
    <3>2. Last(list) \in Buffer(n)
      BY <1>1, <3>1
    <3> QED
      BY <3>1, <3>2 DEF Buffer
  <2>2. CASE old
    <3>1. Insert(list, b) = [list |-> list, pkts |-> <<>>, released |-> 1]
      BY <1>3, <2>2 DEF Insert
    <3>2. <<>> \in Seq(Whole(n))
      OBVIOUS
    <3> QED
      BY <1>1, <3>1, <3>2, BroughtEmpty DEF GoodResult
  <2>3. CASE ~old /\ far
    <3> DEFINE f == insertFirst(b)
    <3>1. Insert(list, b) = [f EXCEPT !.released = f.released + Len(list)]
      BY <1>3, <2>3 DEF Insert
    <3>2. /\ GoodResult(f, 1, frames, n) /\ f.released \in {0, 1}
          /\ DOMAIN f = {"list", "pkts", "released"}
          /\ Brought(f.pkts, b.cells, 1, Len(b.cells))
      BY InsertFirstFacts
    <3>3. f.released + Len(list) \in Nat
      BY <1>1, <3>2
    <3> HIDE DEF f
    <3> DEFINE r == [f EXCEPT !.released = f.released + Len(list)]
    <3>4. r.list = f.list /\ r.pkts = f.pkts /\ r.released = f.released + Len(list)
      BY <3>2
    <3> HIDE DEF r
    <3>5. f.released \in Nat /\ Len(f.list) \in Nat /\ f.released + Len(f.list) = 1
      BY <3>2 DEF GoodResult, GoodList, Consecutive
    <3>6. r.released \in Nat /\ r.released + Len(r.list) = Len(list) + 1
      BY <1>1, <3>3, <3>4, <3>5
    <3>7. GoodResult(r, Len(list) + 1, frames, n)
      BY <3>2, <3>4, <3>6 DEF GoodResult
    <3> QED
      BY <3>1, <3>2, <3>4, <3>7 DEF r
  <2>4. CASE ~old /\ ~far
    <3>1. Insert(list, b) = tryReassemble(Append(list, b))
      BY <1>3, <2>4 DEF Insert
    <3>2. b.seq = list[Len(list)].seq + 1 /\ Len(list) < ListCap
      BY <1>1, <2>1, <2>4
    <3> QED
      BY <2>1, <3>1, <3>2, TryFacts
  <2> QED
    BY <2>2, <2>3, <2>4
<1> QED
  BY <1>2, <1>3

---------------------------------------------------------------------------
(* The state of the gateways.                                                *)

SenderRec(n) == [path : Paths, closed : BOOLEAN, ring : Seq({p \in Pkts : p < n}),
                 pkt : Seq(Sent(n)), seq : Nat, ended : BOOLEAN]

FrameRec(n) == [stream : Streams, seq : Nat, index : Nat, cells : Seq(Sent(n))]

\* The lists of a worker, for some of the streams.
Lists(n) == UNION {[D -> Seq(Buffer(n))] : D \in SUBSET Streams}

WorkerRec(n) == [ring : Seq(FrameRec(n)), stop : BOOLEAN, ended : BOOLEAN, lists : Lists(n),
                 old : SUBSET Streams]

\* A sender that has sent frames, and goes on where they end.
GoodSender(x, frames, n) ==
  /\ x \in SenderRec(n) /\ Remains(x.pkt, n) /\ x.seq = Len(frames)
  /\ frames # <<>> => Before(frames[Len(frames)], x.pkt)

\* A frame is one of those sent.
GoodFrame(f, sent, n) ==
  /\ f \in FrameRec(n) /\ f.seq + 1 \in 1 .. Len(sent[f.stream])
  /\ f.cells = sent[f.stream][f.seq + 1]
  /\ IndexOK(f.index, f.cells) /\ Len(f.cells) \in 1 .. Mtu

GoodWorker(v, sent, n) ==
  /\ v \in WorkerRec(n) /\ Len(v.ring) <= WorkerRing
  /\ \A i \in 1 .. Len(v.ring) : GoodFrame(v.ring[i], sent, n)
  /\ \A s \in DOMAIN v.lists : GoodList(v.lists[s], sent[s], n)

\* What holds of the frames that each sender has sent so far.
History(sent, list, frames, ws, n) ==
  /\ sent \in [Streams -> Seq(Seq(Sent(n)))] /\ \A s \in Streams : Flow(sent[s], n)
  /\ \A s \in 1 .. Len(list) : GoodSender(list[s], sent[s], n)
  /\ \A s \in Streams : s > Len(list) => sent[s] = <<>>
  /\ \A f \in frames : GoodFrame(f, sent, n)
  /\ \A w \in 1 .. Len(ws) : GoodWorker(ws[w], sent, n)

Types(n) ==
  /\ n \in Nat
  /\ senders \in Seq(SenderRec(n)) /\ Len(senders) <= MaxSenders /\ current \subseteq DOMAIN senders
  /\ workers \in Seq(WorkerRec(n)) /\ worker \in 0 .. Len(workers)
  /\ free \in Nat /\ releasing \in Nat /\ noDevice \in Nat
  /\ delivered \in Seq(Whole(n))

\* The inductive invariant.  That a list can be put together follows from what was
\* sent, which no variable keeps.
GatewayInv ==
  /\ Types(next) /\ FramesAccounted
  /\ \E sent : History(sent, senders, net, workers, next)

\* Frames of a stream stay what they are when more are sent.
Extends(frames, more) == Len(frames) <= Len(more) /\ \A q \in 1 .. Len(frames) : more[q] = frames[q]

\* Buffers, lists and frames stay good when more packets come and more frames are sent.
LEMMA GoodMonotone ==
  ASSUME NEW n \in Nat, NEW m \in Nat, Sent(n) \subseteq Sent(m), NEW frames, NEW more,
         Len(frames) \in Nat, Len(more) \in Nat, Extends(frames, more)
  PROVE  /\ \A b : GoodBuf(b, frames, n) => GoodBuf(b, more, m)
         /\ \A list : GoodList(list, frames, n) => GoodList(list, more, m)
<1>1. Seq(Sent(n)) \subseteq Seq(Sent(m))
  OBVIOUS
<1>2. Buffer(n) \subseteq Buffer(m)
  BY <1>1 DEF Buffer
<1>3. Seq(Buffer(n)) \subseteq Seq(Buffer(m))
  BY <1>2
<1>4. ASSUME NEW b, GoodBuf(b, frames, n) PROVE GoodBuf(b, more, m)
  <2>1. b \in Buffer(m) /\ b.seq \in Nat
    BY <1>2, <1>4 DEF GoodBuf, Buffer
  <2>2. b.seq + 1 \in 1 .. Len(frames) /\ b.cells = frames[b.seq + 1]
    BY <1>4 DEF GoodBuf
  <2>3. b.seq + 1 \in 1 .. Len(more) /\ b.cells = more[b.seq + 1]
    BY <2>1, <2>2 DEF Extends
  <2> QED
    BY <1>4, <2>1, <2>3 DEF GoodBuf
<1>5. ASSUME NEW list, GoodList(list, frames, n) PROVE GoodList(list, more, m)
  <2>1. list \in Seq(Buffer(m))
    BY <1>3, <1>5 DEF GoodList, Consecutive
  <2>2. \A i \in 1 .. Len(list) : GoodBuf(list[i], more, m)
    BY <1>4, <1>5 DEF GoodList, Consecutive
  <2> QED
    BY <1>5, <2>1, <2>2 DEF GoodList, Consecutive
<1> QED
  BY <1>4, <1>5

\* The same for the state of a gateway.
LEMMA StateMonotone ==
  ASSUME NEW n \in Nat, NEW m \in Nat, Sent(n) \subseteq Sent(m), n <= m,
         NEW sent \in [Streams -> Seq(Seq(Sent(n)))], NEW more \in [Streams -> Seq(Seq(Sent(m)))],
         \A s \in Streams : Extends(sent[s], more[s])
  PROVE  /\ SenderRec(n) \subseteq SenderRec(m) /\ WorkerRec(n) \subseteq WorkerRec(m)
         /\ \A f : GoodFrame(f, sent, n) => GoodFrame(f, more, m)
         /\ \A v : GoodWorker(v, sent, n) => GoodWorker(v, more, m)
         /\ \A x, frames : GoodSender(x, frames, n) => GoodSender(x, frames, m)
         /\ \A frames : Flow(frames, n) => Flow(frames, m)
<1>1. Seq(Sent(n)) \subseteq Seq(Sent(m)) /\ Seq(Seq(Sent(n))) \subseteq Seq(Seq(Sent(m)))
  OBVIOUS
<1>2. SenderRec(n) \subseteq SenderRec(m)
  <2>1. {p \in Pkts : p < n} \subseteq {p \in Pkts : p < m}
    BY PacketFacts
  <2>2. Seq({p \in Pkts : p < n}) \subseteq Seq({p \in Pkts : p < m})
    BY <2>1
  <2> QED
    BY <1>1, <2>2 DEF SenderRec
<1>3. FrameRec(n) \subseteq FrameRec(m)
  BY <1>1 DEF FrameRec
<1>4. WorkerRec(n) \subseteq WorkerRec(m)
  <2>1. Seq(FrameRec(n)) \subseteq Seq(FrameRec(m))
    BY <1>3
  <2>2. Lists(n) \subseteq Lists(m)
    <3>1. Buffer(n) \subseteq Buffer(m)
      BY <1>1 DEF Buffer
    <3>2. Seq(Buffer(n)) \subseteq Seq(Buffer(m))
      BY <3>1
    <3>3. ASSUME NEW l \in Lists(n) PROVE l \in Lists(m)
      <4>1. PICK D \in SUBSET Streams : l \in [D -> Seq(Buffer(n))]
        BY <3>3 DEF Lists
      <4>2. l \in [D -> Seq(Buffer(m))]
        BY <3>2, <4>1
      <4> QED
        BY <4>2 DEF Lists
    <3> QED
      BY <3>3
  <2> QED
    BY <2>1, <2>2 DEF WorkerRec
<1>5. ASSUME NEW f, GoodFrame(f, sent, n) PROVE GoodFrame(f, more, m)
  <2>1. f \in FrameRec(m) /\ f.stream \in Streams /\ f.seq \in Nat
    BY <1>3, <1>5 DEF GoodFrame, FrameRec
  <2>2. Extends(sent[f.stream], more[f.stream])
    BY <2>1
  <2>3. /\ f.seq + 1 \in 1 .. Len(sent[f.stream]) /\ f.cells = sent[f.stream][f.seq + 1]
    BY <1>5 DEF GoodFrame
  <2>4. Len(sent[f.stream]) \in Nat /\ Len(more[f.stream]) \in Nat
    BY <2>1
  <2>5. /\ f.seq + 1 \in 1 .. Len(more[f.stream]) /\ f.cells = more[f.stream][f.seq + 1]
    BY <2>1, <2>2, <2>3, <2>4, SMTT(30) DEF Extends
  <2> QED
    BY <1>5, <2>1, <2>5 DEF GoodFrame
<1>6. ASSUME NEW v, GoodWorker(v, sent, n) PROVE GoodWorker(v, more, m)
  <2>1. v \in WorkerRec(m) /\ DOMAIN v.lists \subseteq Streams
    BY <1>4, <1>6 DEF GoodWorker, WorkerRec, Lists
  <2>2. ASSUME NEW s \in DOMAIN v.lists PROVE GoodList(v.lists[s], more[s], m)
    <3>1. s \in Streams /\ GoodList(v.lists[s], sent[s], n)
      BY <1>6, <2>1 DEF GoodWorker
    <3>2. Len(sent[s]) \in Nat /\ Len(more[s]) \in Nat /\ Extends(sent[s], more[s])
      BY <3>1
    <3>3. \A list : GoodList(list, sent[s], n) => GoodList(list, more[s], m)
      <4> DEFINE a == sent[s]
                 z == more[s]
      <4> HIDE DEF a, z
      <4>1. Len(a) \in Nat /\ Len(z) \in Nat /\ Extends(a, z)
        BY <3>2 DEF a, z
      <4>2. \A list : GoodList(list, a, n) => GoodList(list, z, m)
        BY <4>1, GoodMonotone
      <4> QED
        BY <4>2 DEF a, z
    <3> QED
      BY <3>1, <3>3
  <2> QED
    BY <1>5, <1>6, <2>1, <2>2 DEF GoodWorker
<1>7. ASSUME NEW x, NEW frames, GoodSender(x, frames, n) PROVE GoodSender(x, frames, m)
  <2>1. Remains(x.pkt, m)
    BY <1>1, <1>7 DEF GoodSender, Remains
  <2> QED
    BY <1>2, <1>7, <2>1 DEF GoodSender
<1>8. ASSUME NEW frames, Flow(frames, n) PROVE Flow(frames, m)
  BY <1>1, <1>8 DEF Flow
<1> QED
  BY <1>2, <1>4, <1>5, <1>6, <1>7, <1>8

---------------------------------------------------------------------------
(* Counting buffers.                                                         *)

\* The buffers of a worker, and of all workers.
Load(v) == Len(v.ring) + Held(v)
Total(ws) == SumFunction([w \in DOMAIN ws |-> Len(ws[w].ring) + Held(ws[w])])

\* The lists of a worker are finitely many finite ones.
LEMMA HeldType ==
  ASSUME NEW n \in Nat, NEW v \in WorkerRec(n)
  PROVE  /\ v.lists \in Lists(n) /\ DOMAIN v.lists \subseteq Streams /\ IsFiniteSet(DOMAIN v.lists)
         /\ \A s \in DOMAIN v.lists : v.lists[s] \in Seq(Buffer(n)) /\ Len(v.lists[s]) \in Nat
         /\ Held(v) \in Nat /\ Load(v) \in Nat /\ v.ring \in Seq(FrameRec(n))
<1> DEFINE l == v.lists
           D == DOMAIN l
           f == [s \in D |-> Len(l[s])]
<1>1. v.lists \in Lists(n) /\ v.ring \in Seq(FrameRec(n))
  BY DEF WorkerRec
<1>2. /\ D \subseteq Streams /\ \A s \in D : l[s] \in Seq(Buffer(n))
  BY <1>1 DEF Lists
<1>3. IsFiniteSet(D)
  <2>1. MaxSenders \in Nat
    BY GatewayAssumption
  <2>2. IsFiniteSet(Streams)
    BY <2>1, FS_Interval DEF Streams
  <2> QED
    BY <1>2, <2>2, FS_Subset
<1>4. \A s \in D : Len(l[s]) \in Nat
  BY <1>2
<1>5. \A s \in D : f[s] \in Nat
  BY <1>4
<1>6. Held(v) = SumFunctionOnSet(f, D)
  BY DEF Held, SumFunction
<1> HIDE DEF f, D
<1>7. Held(v) \in Nat
  BY <1>3, <1>5, <1>6, SumType
<1>8. Load(v) \in Nat
  BY <1>1, <1>7 DEF Load
<1> QED
  BY <1>1, <1>2, <1>3, <1>4, <1>7, <1>8 DEF D

\* A new list for a stream.
LEMMA HeldUpdate ==
  ASSUME NEW n \in Nat, NEW v \in WorkerRec(n), NEW u \in WorkerRec(n), NEW s \in Streams,
         NEW new, new \in Seq(Buffer(n)),
         u.lists = [x \in (DOMAIN v.lists) \cup {s} |-> IF x = s THEN new ELSE v.lists[x]]
  PROVE  Held(u) + Len(IF s \in DOMAIN v.lists THEN v.lists[s] ELSE <<>>) = Held(v) + Len(new)
<1> DEFINE l == v.lists
           D == DOMAIN l
           E == D \cup {s}
           f == [x \in D |-> Len(l[x])]
           g == [x \in E |-> Len(u.lists[x])]
<1>1. /\ IsFiniteSet(D) /\ (\A x \in D : f[x] \in Nat /\ f[x] = Len(l[x]))
      /\ Held(v) = SumFunctionOnSet(f, D) /\ Held(v) \in Nat
  BY HeldType DEF Held, SumFunction
<1>2. /\ DOMAIN u.lists = E /\ IsFiniteSet(E) /\ (\A x \in E : g[x] \in Nat)
      /\ Held(u) = SumFunctionOnSet(g, E) /\ Held(u) \in Nat
  <2>1. DOMAIN u.lists = E
    OBVIOUS
  <2> QED
    BY <2>1, HeldType DEF Held, SumFunction
<1>3. /\ s \in E /\ g[s] = Len(new) /\ \A x \in D : x # s => x \in E /\ g[x] = f[x]
  OBVIOUS
<1>4. Len(new) \in Nat
  OBVIOUS
<1> HIDE DEF f, g
<1>5. CASE s \in D
  <2>1. E = D
    BY <1>5
  <2>2. SumFunctionOnSet(g, D) = SumFunctionOnSet(f, D) + g[s] - f[s]
    <3>1. \A y \in D : f[y] \in Nat /\ g[y] \in Nat /\ (y # s => g[y] = f[y])
      BY <1>1, <1>2, <1>3, <2>1
    <3>2. IsFiniteSet(D)
      BY <1>1
    <3> HIDE DEF D
    <3> QED
      BY ONLY <1>5, <3>1, <3>2, SumUpdate
  <2>3. f[s] \in Nat /\ f[s] = Len(l[s])
    BY <1>1, <1>5
  <2>4. /\ Held(u) = SumFunctionOnSet(g, D) /\ Held(u) \in Nat
        /\ Held(v) = SumFunctionOnSet(f, D) /\ Held(v) \in Nat /\ g[s] = Len(new)
    BY <1>1, <1>2, <1>3, <2>1
  <2>5. Held(u) + Len(l[s]) = Held(v) + Len(new)
    BY ONLY <1>4, <2>2, <2>3, <2>4
  <2> QED
    BY <1>5, <2>5
<1>6. CASE s \notin D
  <2>1. E \ {s} = D /\ Len(<<>>) = 0
    BY <1>6
  <2>2. SumFunctionOnSet(g, E) = g[s] + SumFunctionOnSet(g, E \ {s})
    <3> HIDE DEF E
    <3> QED
      BY <1>2, <1>3, SumSplit, SMTT(30)
  <2>3. SumFunctionOnSet(g, D) = SumFunctionOnSet(f, D)
    <3>1. \A y \in D : f[y] \in Nat /\ f[y] = g[y]
      BY <1>1, <1>3, <1>6
    <3> HIDE DEF D
    <3> QED
      BY <1>1, <3>1, SumSame
  <2>4. Held(u) = g[s] + Held(v) /\ g[s] = Len(new) /\ Held(v) \in Nat /\ Len(<<>>) = 0
    BY <1>1, <1>2, <1>3, <2>1, <2>2, <2>3
  <2>5. Held(u) + Len(<<>>) = Held(v) + Len(new)
    BY ONLY <1>4, <2>4
  <2> QED
    BY <1>6, <2>5
<1> QED
  BY <1>5, <1>6

\* worker.cleanup takes lists away and leaves the others as they are.
LEMMA CleanedFacts ==
  ASSUME NEW n \in Nat, NEW v \in WorkerRec(n)
  PROVE  /\ Cleaned(v) \in WorkerRec(n) /\ Cleaned(v).ring = v.ring
         /\ DOMAIN Cleaned(v).lists \subseteq DOMAIN v.lists
         /\ \A s \in DOMAIN Cleaned(v).lists : Cleaned(v).lists[s] = v.lists[s]
         /\ Held(Cleaned(v)) \in Nat /\ Held(Cleaned(v)) <= Held(v)
<1> DEFINE l == v.lists
           D == DOMAIN l
           E == D \ v.old
           k == [s \in E |-> l[s]]
           f == [s \in D |-> Len(l[s])]
           g == [s \in E |-> Len(k[s])]
           u == Cleaned(v)
<1>1. /\ IsFiniteSet(D) /\ D \subseteq Streams
      /\ (\A x \in D : l[x] \in Seq(Buffer(n)) /\ f[x] \in Nat /\ f[x] = Len(l[x]))
      /\ Held(v) = SumFunctionOnSet(f, D) /\ Held(v) \in Nat
  BY HeldType DEF Held, SumFunction
<1>2. E \subseteq D /\ E \subseteq Streams /\ \A s \in E : k[s] = l[s] /\ g[s] = f[s]
  BY <1>1
<1>3. k \in Lists(n)
  <2>1. k \in [E -> Seq(Buffer(n))]
    BY <1>1, <1>2
  <2> HIDE DEF k, E
  <2> QED
    BY <1>2, <2>1 DEF Lists
<1> HIDE DEF k
<1>4. u = [v EXCEPT !.lists = k, !.old = E]
  BY DEF Cleaned, k
<1>5. u = [[v EXCEPT !.lists = k] EXCEPT !.old = E]
  BY <1>4 DEF WorkerRec
<1>6. u \in WorkerRec(n) /\ u.ring = v.ring /\ u.lists = k
  <2>1. [v EXCEPT !.lists = k] \in WorkerRec(n)
    BY <1>3 DEF WorkerRec
  <2>2. E \in SUBSET Streams
    BY <1>2
  <2> HIDE DEF E
  <2>3. u \in WorkerRec(n)
    BY <1>5, <2>1, <2>2 DEF WorkerRec
  <2>4. u.ring = v.ring /\ u.lists = k
    BY <1>4 DEF WorkerRec
  <2> QED
    BY <2>3, <2>4
<1>7. DOMAIN k = E
  BY DEF k
<1> HIDE DEF u
<1>8. Held(u) = SumFunctionOnSet(g, E) /\ Held(u) \in Nat
  <2>1. Held(u) = SumFunction([s \in DOMAIN u.lists |-> Len(u.lists[s])])
    BY DEF Held
  <2>2. Held(u) = SumFunction(g)
    BY <1>6, <1>7, <2>1, Zenon
  <2>3. DOMAIN g = E
    OBVIOUS
  <2>4. Held(u) = SumFunctionOnSet(g, E)
    BY <2>2, <2>3 DEF SumFunction
  <2> QED
    BY <1>6, <2>4, HeldType
<1> HIDE DEF f, g
<1>9. SumFunctionOnSet(g, E) = SumFunctionOnSet(f, E)
  <2>1. IsFiniteSet(E) /\ \A x \in E : g[x] \in Nat /\ g[x] = f[x]
    BY <1>1, <1>2, FS_Subset
  <2> HIDE DEF E
  <2> QED
    BY <2>1, SumSame
<1>10. SumFunctionOnSet(f, E) <= SumFunctionOnSet(f, D)
  <2> HIDE DEF D
  <2> QED
    BY <1>1, SumSubset
<1> QED
  BY <1>1, <1>2, <1>6, <1>7, <1>8, <1>9, <1>10 DEF u

\* One worker changes, or one is added.
LEMMA TotalFacts ==
  ASSUME NEW n \in Nat, NEW ws, ws \in Seq(WorkerRec(n)), NEW v \in WorkerRec(n)
  PROVE  /\ Total(ws) \in Nat /\ \A w \in 1 .. Len(ws) : Load(ws[w]) \in Nat
         /\ \A w \in 1 .. Len(ws) : Total([ws EXCEPT ![w] = v]) + Load(ws[w]) = Total(ws) + Load(v)
         /\ Total(Append(ws, v)) = Total(ws) + Load(v)
<1> DEFINE D == 1 .. Len(ws)
           F(x) == [w \in DOMAIN x |-> Len(x[w].ring) + Held(x[w])]
           f == F(ws)
<1>1. Len(ws) \in Nat /\ DOMAIN ws = D /\ IsFiniteSet(D)
  BY FS_Interval
<1>2. \A w \in D : ws[w] \in WorkerRec(n) /\ Load(ws[w]) \in Nat
  BY HeldType
<1>3. \A w \in D : f[w] = Load(ws[w])
  BY <1>1 DEF Load
<1>4. Total(ws) = SumFunctionOnSet(f, D)
  BY <1>1 DEF Total, SumFunction
<1>5. \A w \in D : f[w] \in Nat
  BY <1>2, <1>3
<1> HIDE DEF f
<1>6. Total(ws) \in Nat
  <2> HIDE DEF D
  <2> QED
    BY <1>1, <1>4, <1>5, SumType
<1>7. Load(v) \in Nat
  BY HeldType
<1>8. ASSUME NEW w \in D PROVE Total([ws EXCEPT ![w] = v]) + Load(ws[w]) = Total(ws) + Load(v)
  <2> DEFINE x == [ws EXCEPT ![w] = v]
             g == F(x)
  <2>1. DOMAIN x = D /\ x[w] = v /\ \A y \in D : y # w => x[y] = ws[y]
    BY <1>1
  <2> HIDE DEF x
  <2>2. Total(x) = SumFunctionOnSet(g, D)
    BY <2>1 DEF Total, SumFunction
  <2>3. \A y \in D : g[y] = Load(x[y])
    BY <2>1 DEF Load
  <2> HIDE DEF g
  <2>4. g[w] = Load(v) /\ \A y \in D : g[y] \in Nat /\ f[y] \in Nat /\ (y # w => g[y] = f[y])
    BY <1>3, <1>5, <1>7, <2>1, <2>3
  <2>5. SumFunctionOnSet(g, D) = SumFunctionOnSet(f, D) + g[w] - f[w]
    <3>1. w \in D /\ IsFiniteSet(D)
      BY <1>1
    <3>2. \A y \in D : f[y] \in Nat /\ g[y] \in Nat /\ (y # w => g[y] = f[y])
      BY <2>4
    <3> HIDE DEF D
    <3> QED
      BY ONLY <3>1, <3>2, SumUpdate
  <2>6. Total(x) = Total(ws) + Load(v) - Load(ws[w])
    BY <1>3, <1>4, <2>2, <2>4, <2>5
  <2> HIDE DEF D
  <2>7. Total(x) + Load(ws[w]) = Total(ws) + Load(v)
    BY <1>2, <1>6, <1>7, <2>6
  <2> QED
    BY <2>7 DEF x
<1>9. Total(Append(ws, v)) = Total(ws) + Load(v)
  <2> DEFINE x == Append(ws, v)
             k == Len(ws) + 1
             E == 1 .. k
             g == F(x)
  <2>1. /\ DOMAIN x = E /\ x[k] = v /\ k \in E /\ E \ {k} = D /\ IsFiniteSet(E) /\ k \notin D
    <3>1. x \in Seq(WorkerRec(n)) /\ Len(x) = k /\ x[k] = v
      BY <1>1
    <3>2. DOMAIN x = E
      BY <3>1
    <3>3. k \in Nat /\ k \in E /\ E \ {k} = D /\ k \notin D
      BY <1>1
    <3>4. IsFiniteSet(E)
      BY <3>3, FS_Interval
    <3> QED
      BY <3>1, <3>2, <3>3, <3>4
  <2>2. \A y \in D : x[y] = ws[y] /\ y \in E
    BY <1>1
  <2> HIDE DEF x
  <2>3. Total(x) = SumFunctionOnSet(g, E)
    BY <2>1 DEF Total, SumFunction
  <2>4. \A y \in E : g[y] = Load(x[y])
    BY <2>1 DEF Load
  <2> HIDE DEF g
  <2>5. g[k] = Load(v) /\ \A y \in D : f[y] \in Nat /\ f[y] = g[y]
    BY <1>3, <1>5, <2>1, <2>2, <2>4
  <2>6. \A y \in E : g[y] \in Nat
    BY <1>5, <1>7, <2>1, <2>5
  <2>7. SumFunctionOnSet(g, E) = g[k] + SumFunctionOnSet(g, E \ {k})
    <3> HIDE DEF E
    <3> QED
      BY <2>1, <2>6, SumSplit
  <2>8. SumFunctionOnSet(f, D) = SumFunctionOnSet(g, D)
    <3> HIDE DEF D
    <3> QED
      BY <1>1, <2>5, SumSame
  <2>9. Total(x) = Load(v) + Total(ws)
    BY <1>4, <2>1, <2>3, <2>5, <2>7, <2>8
  <2>10. Total(x) = Total(ws) + Load(v)
    BY <1>6, <1>7, <2>9
  <2> QED
    BY <2>10 DEF x
<1> QED
  BY <1>2, <1>6, <1>8, <1>9

---------------------------------------------------------------------------
(* The steps of the session.                                                 *)

\* A finite set can be put into an order.
LEMMA OrderFacts ==
  ASSUME NEW S, IsFiniteSet(S)
  PROVE  Cardinality(S) \in Nat /\ SetToSeq(S) \in [1 .. Cardinality(S) -> S]
<1>1. Cardinality(S) \in Nat /\ ExistsBijection(1 .. Cardinality(S), S)
  BY FS_CardinalityType
<1>2. \E f \in [1 .. Cardinality(S) -> S] : IsInjective(f)
  BY <1>1 DEF ExistsBijection, Bijection, Injection
<1>3. SetToSeq(S) \in [1 .. Cardinality(S) -> S]
  BY <1>2 DEF SetToSeq
<1> QED
  BY <1>1, <1>3

\* Closing senders leaves what they have to send.
LEMMA CloseAllFacts ==
  ASSUME NEW n \in Nat, NEW list, list \in Seq(SenderRec(n)), NEW set
  PROVE  /\ CloseAll(set, list) \in Seq(SenderRec(n)) /\ Len(CloseAll(set, list)) = Len(list)
         /\ \A s \in 1 .. Len(list) : \A frames :
              GoodSender(list[s], frames, n) => GoodSender(CloseAll(set, list)[s], frames, n)
<1> DEFINE closed == CloseAll(set, list)
<1>1. Len(list) \in Nat /\ DOMAIN list = 1 .. Len(list)
  OBVIOUS
<1>2. ASSUME NEW s \in 1 .. Len(list)
      PROVE  /\ closed[s] \in SenderRec(n) /\ closed[s].pkt = list[s].pkt /\ closed[s].seq = list[s].seq
  <2>1. list[s] \in SenderRec(n)
    BY <1>1
  <2>2. closed[s] = IF s \in set THEN [list[s] EXCEPT !.closed = TRUE] ELSE list[s]
    BY <1>1 DEF CloseAll
  <2> QED
    BY <2>1, <2>2 DEF SenderRec
<1>3. closed = [s \in 1 .. Len(list) |-> closed[s]]
  BY <1>1 DEF CloseAll
<1> HIDE DEF closed
<1>4. closed \in [1 .. Len(list) -> SenderRec(n)]
  BY <1>2, <1>3
<1>5. closed \in Seq(SenderRec(n)) /\ Len(closed) = Len(list)
  <2>1. closed \in Seq(SenderRec(n))
    BY <1>1, <1>4
  <2>2. DOMAIN closed = 1 .. Len(list)
    BY <1>4
  <2> QED
    BY <1>1, <2>1, <2>2, LenProperties
<1>6. ASSUME NEW s \in 1 .. Len(list), NEW frames, GoodSender(list[s], frames, n)
      PROVE  GoodSender(closed[s], frames, n)
  BY <1>2, <1>6 DEF GoodSender
<1> QED
  BY <1>5, <1>6 DEF closed

\* A sender that has just been made.
LEMMA NewSenderFacts ==
  ASSUME NEW n \in Nat, NEW path \in Paths
  PROVE  /\ NewSender(path) \in SenderRec(n) /\ GoodSender(NewSender(path), <<>>, n)
         /\ NewSender(path).pkt = <<>> /\ NewSender(path).ring = <<>>
<1>1. NewSender(path) \in SenderRec(n)
  <2>1. <<>> \in Seq(Sent(n)) /\ <<>> \in Seq({p \in Pkts : p < n})
    OBVIOUS
  <2> QED
    BY <2>1 DEF NewSender, SenderRec
<1>2. NewSender(path).pkt = <<>> /\ NewSender(path).seq = 0 /\ NewSender(path).ring = <<>>
  BY DEF NewSender
<1>3. Remains(<<>>, n)
  BY DEF Remains, Chain
<1> QED
  BY <1>1, <1>2, <1>3 DEF GoodSender

\* The senders with new ones behind them.
LEMMA GrownFacts ==
  ASSUME NEW n \in Nat, NEW list, list \in Seq(SenderRec(n)), NEW made, made \subseteq Paths
  PROVE  LET order == SetToSeq(made)
             grown == list \o [i \in DOMAIN order |-> NewSender(order[i])]
         IN  /\ Cardinality(made) \in Nat
             /\ grown \in Seq(SenderRec(n)) /\ Len(grown) = Len(list) + Cardinality(made)
             /\ \A s \in 1 .. Len(list) : grown[s] = list[s]
             /\ \A s \in (Len(list) + 1) .. Len(grown) : GoodSender(grown[s], <<>>, n)
             /\ \A s \in (Len(list) + 1) .. Len(grown) : grown[s].pkt = <<>> /\ grown[s].ring = <<>>
<1> DEFINE order == SetToSeq(made)
           k == Cardinality(made)
           more == [i \in DOMAIN order |-> NewSender(order[i])]
           grown == list \o more
<1>1. IsFiniteSet(made)
  BY GatewayAssumption, FS_Subset
<1>2. k \in Nat /\ order \in [1 .. k -> made]
  BY <1>1, OrderFacts
<1> HIDE DEF k, order
<1>3. ASSUME NEW i \in 1 .. k
      PROVE  /\ more[i] \in SenderRec(n) /\ GoodSender(more[i], <<>>, n)
             /\ more[i].pkt = <<>> /\ more[i].ring = <<>>
  <2>1. i \in DOMAIN order /\ order[i] \in Paths
    BY <1>2
  <2>2. more[i] = NewSender(order[i])
    BY <2>1
  <2> QED
    BY <2>1, <2>2, NewSenderFacts
<1>4. more = [i \in 1 .. k |-> more[i]]
  BY <1>2
<1> HIDE DEF more
<1>5. more \in Seq(SenderRec(n)) /\ Len(more) = k
  <2>1. more \in [1 .. k -> SenderRec(n)]
    BY <1>3, <1>4
  <2>2. more \in Seq(SenderRec(n)) /\ DOMAIN more = 1 .. k
    BY <1>2, <2>1
  <2> QED
    BY <1>2, <2>2, LenProperties
<1>6. /\ grown \in Seq(SenderRec(n)) /\ Len(grown) = Len(list) + k /\ Len(list) \in Nat
      /\ \A s \in 1 .. (Len(list) + k) : grown[s] = IF s <= Len(list) THEN list[s] ELSE more[s - Len(list)]
  <2>1. Len(list) \in Nat
    OBVIOUS
  <2>2. /\ grown \in Seq(SenderRec(n)) /\ Len(grown) = Len(list) + Len(more)
        /\ \A s \in 1 .. (Len(list) + Len(more)) :
             grown[s] = IF s <= Len(list) THEN list[s] ELSE more[s - Len(list)]
    BY <1>5, ConcatProperties, Zenon
  <2> HIDE DEF grown
  <2> QED
    BY <1>5, <2>1, <2>2
<1> HIDE DEF grown
<1>7. \A s \in 1 .. Len(list) : grown[s] = list[s]
  <2>1. \A s \in 1 .. Len(list) : s \in 1 .. (Len(list) + k) /\ s <= Len(list)
    BY <1>2, <1>6
  <2> QED
    BY <1>6, <2>1
<1>8. ASSUME NEW s \in (Len(list) + 1) .. Len(grown)
      PROVE  GoodSender(grown[s], <<>>, n) /\ grown[s].pkt = <<>> /\ grown[s].ring = <<>>
  <2>1. s \in 1 .. (Len(list) + k) /\ ~(s <= Len(list)) /\ s - Len(list) \in 1 .. k
    BY <1>2, <1>6
  <2>2. grown[s] = more[s - Len(list)]
    BY <1>6, <2>1
  <2> QED
    BY <1>3, <2>1, <2>2
<1> QED
  BY <1>2, <1>6, <1>7, <1>8 DEF grown, more, order, k

\* The history stays true of senders that have the same to send, and of new ones.
LEMMA HistorySenders ==
  ASSUME NEW n, NEW sent, NEW list, NEW frames, NEW ws, History(sent, list, frames, ws, n),
         NEW after, Len(list) \in Nat, Len(after) \in Nat, Len(list) <= Len(after),
         Len(after) <= MaxSenders,
         \A s \in 1 .. Len(list) : \A f : GoodSender(list[s], f, n) => GoodSender(after[s], f, n),
         \A s \in (Len(list) + 1) .. Len(after) : GoodSender(after[s], <<>>, n)
  PROVE  History(sent, after, frames, ws, n)
<1>1. MaxSenders \in Nat
  BY GatewayAssumption
<1>2. ASSUME NEW s \in 1 .. Len(after) PROVE GoodSender(after[s], sent[s], n)
  <2>1. CASE s <= Len(list)
    <3>1. s \in 1 .. Len(list)
      BY <2>1
    <3>2. GoodSender(list[s], sent[s], n)
      BY <3>1 DEF History
    <3> QED
      BY <3>1, <3>2
  <2>2. CASE ~(s <= Len(list))
    <3>1. s \in (Len(list) + 1) .. Len(after) /\ s \in Streams /\ s > Len(list)
      BY <1>1, <2>2 DEF Streams
    <3>2. sent[s] = <<>>
      BY <3>1 DEF History
    <3> QED
      BY <3>1, <3>2
  <2> QED
    BY <2>1, <2>2
<1>3. \A s \in Streams : s > Len(after) => sent[s] = <<>>
  <2>1. \A s \in Streams : s > Len(after) => s > Len(list)
    BY DEF Streams
  <2> QED
    BY <2>1 DEF History
<1> QED
  BY <1>2, <1>3 DEF History

\* One element of a sequence is replaced.
LEMMA ReplaceFacts ==
  ASSUME NEW S, NEW list, list \in Seq(S), NEW s \in 1 .. Len(list), NEW y \in S
  PROVE  /\ [list EXCEPT ![s] = y] \in Seq(S) /\ Len([list EXCEPT ![s] = y]) = Len(list)
         /\ DOMAIN [list EXCEPT ![s] = y] = DOMAIN list
         /\ [list EXCEPT ![s] = y][s] = y
         /\ \A t \in 1 .. Len(list) : t # s => [list EXCEPT ![s] = y][t] = list[t]
<1>1. Len(list) \in Nat /\ DOMAIN list = 1 .. Len(list)
  OBVIOUS
<1> QED
  BY <1>1

\* Session.Write: the packet can be sent from now on.
LEMMA WriteStep ==
  ASSUME GatewayInv, SessionWrite, UNCHANGED <<ingress, net>>
  PROVE  GatewayInv'
<1> DEFINE n == next
           m == next + 1
<1>1. PICK sent : History(sent, senders, net, workers, n)
  BY DEF GatewayInv
<1>2. Types(n) /\ FramesAccounted
  BY DEF GatewayInv
<1>3. /\ n \in Nat /\ m \in Nat /\ n < m /\ n <= m /\ next' = m /\ n \in Pkts /\ current' = current
  BY <1>2 DEF Types, SessionWrite
<1>4. Sent(n) \subseteq Sent(m) /\ Whole(n) \subseteq Whole(m)
  BY <1>3, SentMonotone
<1>5. /\ free' = free /\ workers' = workers /\ worker' = worker /\ releasing' = releasing
      /\ noDevice' = noDevice /\ delivered' = delivered /\ net' = net
  BY DEF ingress
<1> HIDE DEF m
<1>6. /\ sent \in [Streams -> Seq(Seq(Sent(n)))] /\ sent \in [Streams -> Seq(Seq(Sent(m)))]
      /\ \A s \in Streams : Extends(sent[s], sent[s])
  <2>1. sent \in [Streams -> Seq(Seq(Sent(n)))]
    BY <1>1 DEF History
  <2>2. Seq(Seq(Sent(n))) \subseteq Seq(Seq(Sent(m)))
    <3>1. Seq(Sent(n)) \subseteq Seq(Sent(m))
      BY <1>4
    <3> QED
      BY <3>1
  <2>3. \A s \in Streams : Len(sent[s]) \in Nat
    BY <2>1
  <2> QED
    BY <2>1, <2>2, <2>3 DEF Extends
<1>7. /\ SenderRec(n) \subseteq SenderRec(m) /\ WorkerRec(n) \subseteq WorkerRec(m)
      /\ \A f : GoodFrame(f, sent, n) => GoodFrame(f, sent, m)
      /\ \A v : GoodWorker(v, sent, n) => GoodWorker(v, sent, m)
      /\ \A x, frames : GoodSender(x, frames, n) => GoodSender(x, frames, m)
      /\ \A frames : Flow(frames, n) => Flow(frames, m)
  BY <1>3, <1>4, <1>6, StateMonotone
<1>8. History(sent, senders, net, workers, m)
  BY <1>1, <1>6, <1>7 DEF History
<1>9. /\ senders \in Seq(SenderRec(m)) /\ Len(senders) \in Nat /\ Len(senders) <= MaxSenders
      /\ workers \in Seq(WorkerRec(m)) /\ delivered \in Seq(Whole(m))
      /\ current \subseteq 1 .. Len(senders) /\ DOMAIN senders = 1 .. Len(senders)
  <2>1. /\ senders \in Seq(SenderRec(n)) /\ workers \in Seq(WorkerRec(n)) /\ delivered \in Seq(Whole(n))
        /\ current \subseteq DOMAIN senders /\ Len(senders) <= MaxSenders
    BY <1>2 DEF Types
  <2>2. senders \in Seq(SenderRec(m))
    BY <1>7, <2>1
  <2>3. workers \in Seq(WorkerRec(m))
    BY <1>7, <2>1
  <2>4. delivered \in Seq(Whole(m))
    BY <1>4, <2>1
  <2>5. DOMAIN senders = 1 .. Len(senders) /\ Len(senders) \in Nat
    BY <2>1
  <2> QED
    BY <2>1, <2>2, <2>3, <2>4, <2>5
<1>10. /\ senders' \in Seq(SenderRec(m)) /\ Len(senders') = Len(senders)
       /\ DOMAIN senders' = DOMAIN senders /\ History(sent, senders', net, workers, m)
  <2>1. CASE UNCHANGED senders
    BY <1>8, <1>9, <2>1
  <2>2. CASE \E s \in current : senders' = [senders EXCEPT ![s].ring = Append(@, next)]
    <3>1. PICK s \in current : senders' = [senders EXCEPT ![s].ring = Append(@, next)]
      BY <2>2
    <3> DEFINE x == senders[s]
               y == [x EXCEPT !.ring = Append(x.ring, n)]
    <3>2. s \in 1 .. Len(senders) /\ senders' = [senders EXCEPT ![s] = y]
      BY <1>9, <3>1
    <3>3. x \in SenderRec(m)
      BY <1>9, <3>2
    <3> HIDE DEF x
    <3>4. y \in SenderRec(m) /\ y.pkt = x.pkt /\ y.seq = x.seq
      <4>1. Append(x.ring, n) \in Seq({p \in Pkts : p < m})
        <5>1. x.ring \in Seq({p \in Pkts : p < m})
          BY <3>3 DEF SenderRec
        <5>2. n \in {p \in Pkts : p < m}
          BY <1>3
        <5> QED
          BY <5>1, <5>2
      <4> QED
        BY <3>3, <4>1 DEF SenderRec
    <3> HIDE DEF y
    <3>5. /\ senders' \in Seq(SenderRec(m)) /\ Len(senders') = Len(senders)
          /\ DOMAIN senders' = DOMAIN senders
          /\ senders'[s] = y /\ \A t \in 1 .. Len(senders) : t # s => senders'[t] = senders[t]
      BY <1>9, <3>2, <3>4, ReplaceFacts
    <3>6. ASSUME NEW t \in 1 .. Len(senders), NEW f, GoodSender(senders[t], f, m)
          PROVE  GoodSender(senders'[t], f, m)
      <4>1. CASE t = s
        BY <3>4, <3>5, <3>6, <4>1 DEF GoodSender, x
      <4>2. CASE t # s
        BY <3>5, <3>6, <4>2
      <4> QED
        BY <4>1, <4>2
    <3>7. \A t \in (Len(senders) + 1) .. Len(senders') : GoodSender(senders'[t], <<>>, m)
      BY <1>9, <3>5
    <3>8. History(sent, senders', net, workers, m)
      BY <1>8, <1>9, <3>5, <3>6, <3>7, HistorySenders
    <3> QED
      BY <3>5, <3>8
  <2> QED
    BY <2>1, <2>2 DEF SessionWrite
<1>11. Types(next)'
  BY <1>2, <1>3, <1>5, <1>9, <1>10 DEF Types
<1>12. FramesAccounted'
  BY <1>2, <1>5 DEF FramesAccounted
<1>13. History(sent, senders', net', workers', next')
  BY <1>3, <1>5, <1>10
<1> QED
  BY <1>11, <1>12, <1>13 DEF GatewayInv

\* A step that leaves to the senders what they have to send, and may make new ones.
LEMMA SendersStep ==
  ASSUME GatewayInv, UNCHANGED <<ingress, net, next>>,
         senders' \in Seq(SenderRec(next)), Len(senders) <= Len(senders'), Len(senders') <= MaxSenders,
         current' \subseteq DOMAIN senders',
         \A s \in 1 .. Len(senders) : \A f :
            GoodSender(senders[s], f, next) => GoodSender(senders'[s], f, next),
         \A s \in (Len(senders) + 1) .. Len(senders') : GoodSender(senders'[s], <<>>, next)
  PROVE  GatewayInv'
<1>1. PICK sent : History(sent, senders, net, workers, next)
  BY DEF GatewayInv
<1>2. Types(next) /\ FramesAccounted /\ next \in Nat
  BY DEF GatewayInv, Types
<1>3. /\ free' = free /\ workers' = workers /\ worker' = worker /\ releasing' = releasing
      /\ noDevice' = noDevice /\ delivered' = delivered /\ net' = net /\ next' = next
  BY DEF ingress
<1>4. Len(senders) \in Nat /\ Len(senders') \in Nat
  BY <1>2 DEF Types
<1>5. History(sent, senders', net, workers, next)
  BY <1>1, <1>2, <1>4, HistorySenders
<1>6. Types(next)'
  BY <1>2, <1>3 DEF Types
<1>7. FramesAccounted'
  BY <1>2, <1>3 DEF FramesAccounted
<1>8. History(sent, senders', net', workers', next')
  BY <1>3, <1>5
<1> QED
  BY <1>6, <1>7, <1>8 DEF GatewayInv

\* Session.Close
LEMMA CloseStep ==
  ASSUME GatewayInv, SessionClose, UNCHANGED <<ingress, net>>
  PROVE  GatewayInv'
<1>1. /\ next \in Nat /\ senders \in Seq(SenderRec(next)) /\ Len(senders) <= MaxSenders
      /\ current \subseteq DOMAIN senders
  BY DEF GatewayInv, Types
<1>2. senders' = CloseAll(current, senders) /\ current' = current /\ next' = next
  BY DEF SessionClose
<1>3. /\ senders' \in Seq(SenderRec(next)) /\ Len(senders') = Len(senders)
      /\ \A s \in 1 .. Len(senders) : \A f :
            GoodSender(senders[s], f, next) => GoodSender(senders'[s], f, next)
  BY <1>1, <1>2, CloseAllFacts
<1>4. DOMAIN senders' = DOMAIN senders /\ Len(senders) \in Nat
  BY <1>1, <1>3
<1>5. \A s \in (Len(senders) + 1) .. Len(senders') : GoodSender(senders'[s], <<>>, next)
  BY <1>3, <1>4
<1> QED
  BY <1>1, <1>2, <1>3, <1>4, <1>5, SendersStep

\* Session.SetPaths
LEMMA PathsStep ==
  ASSUME GatewayInv, SetPaths, UNCHANGED <<ingress, net>>
  PROVE  GatewayInv'
<1>1. /\ next \in Nat /\ senders \in Seq(SenderRec(next)) /\ Len(senders) <= MaxSenders
      /\ current \subseteq DOMAIN senders /\ MaxSenders \in Nat /\ Len(senders) \in Nat
      /\ DOMAIN senders = 1 .. Len(senders)
  <2>1. /\ next \in Nat /\ senders \in Seq(SenderRec(next)) /\ Len(senders) <= MaxSenders
        /\ current \subseteq DOMAIN senders
    BY DEF GatewayInv, Types
  <2> QED
    BY <2>1, GatewayAssumption
<1> DEFINE Kept(paths) == {s \in current : senders[s].path \in paths}
           Missing(paths) == paths \ {senders[s].path : s \in Kept(paths)}
           Ok(paths) == Missing(paths) \cap Narrow = {}
           Grown(made) == senders \o [i \in DOMAIN SetToSeq(made) |-> NewSender(SetToSeq(made)[i])]
           New(made) == (DOMAIN Grown(made)) \ DOMAIN senders
<1>2. PICK paths \in SUBSET Paths :
        /\ Len(senders) + Cardinality(Missing(paths) \ Narrow) <= MaxSenders
        /\ next' = next
        /\ \E made \in (IF Ok(paths) THEN {Missing(paths)} ELSE SUBSET (Missing(paths) \ Narrow)) :
             \/ /\ Ok(paths) /\ senders' = CloseAll(current \ Kept(paths), Grown(made))
                /\ current' = Kept(paths) \cup New(made)
             \/ ~Ok(paths) /\ senders' = CloseAll(New(made), Grown(made)) /\ current' = current
  BY DEF SetPaths
<1> DEFINE room == Missing(paths) \ Narrow
<1>3. PICK made \in (IF Ok(paths) THEN {Missing(paths)} ELSE SUBSET room) :
             \/ /\ Ok(paths) /\ senders' = CloseAll(current \ Kept(paths), Grown(made))
                /\ current' = Kept(paths) \cup New(made)
             \/ ~Ok(paths) /\ senders' = CloseAll(New(made), Grown(made)) /\ current' = current
  BY <1>2
<1>4. made \subseteq room /\ room \subseteq Paths
  <2>1. CASE Ok(paths)
    BY <1>3, <2>1
  <2>2. CASE ~Ok(paths)
    BY <1>3, <2>2
  <2> QED
    BY <2>1, <2>2
<1>5. Kept(paths) \subseteq current
  OBVIOUS
<1>6. PICK set : /\ senders' = CloseAll(set, Grown(made))
                 /\ current' \subseteq current \cup New(made)
  BY <1>3, <1>5
<1>7. Len(senders) + Cardinality(room) <= MaxSenders
  BY <1>2
<1> DEFINE grown == Grown(made)
<1>8. /\ Cardinality(made) \in Nat
      /\ grown \in Seq(SenderRec(next)) /\ Len(grown) = Len(senders) + Cardinality(made)
      /\ \A s \in 1 .. Len(senders) : grown[s] = senders[s]
      /\ \A s \in (Len(senders) + 1) .. Len(grown) : GoodSender(grown[s], <<>>, next)
      /\ \A s \in (Len(senders) + 1) .. Len(grown) : grown[s].pkt = <<>> /\ grown[s].ring = <<>>
  <2>1. made \subseteq Paths
    BY <1>4
  <2> HIDE DEF room
  <2> QED
    <3>1. next \in Nat /\ senders \in Seq(SenderRec(next)) /\ made \subseteq Paths
      BY <1>1, <2>1
    <3> QED
      BY ONLY <3>1, GrownFacts, SMTT(60)
<1> HIDE DEF room, Kept
<1>9. Cardinality(made) <= Cardinality(room) /\ Cardinality(room) \in Nat
  <2>1. IsFiniteSet(room)
    BY <1>4, GatewayAssumption, FS_Subset
  <2> QED
    BY <1>4, <2>1, FS_Subset, FS_CardinalityType
<1>10. New(made) \subseteq DOMAIN grown
  OBVIOUS
<1> HIDE DEF New, grown
<1>11. senders' = CloseAll(set, grown)
  BY <1>6 DEF grown
<1>12. /\ senders' \in Seq(SenderRec(next)) /\ Len(senders') = Len(grown)
       /\ \A s \in 1 .. Len(grown) : \A f :
            GoodSender(grown[s], f, next) => GoodSender(senders'[s], f, next)
  BY <1>1, <1>8, <1>11, CloseAllFacts
<1>13. Len(grown) \in Nat /\ Len(senders) <= Len(grown) /\ Len(grown) <= MaxSenders
  BY <1>1, <1>7, <1>8, <1>9
<1>14. current' \subseteq DOMAIN senders'
  <2>1. DOMAIN grown = 1 .. Len(grown) /\ DOMAIN senders' = 1 .. Len(grown)
    BY <1>8, <1>12
  <2>2. 1 .. Len(senders) \subseteq 1 .. Len(grown)
    BY <1>1, <1>13
  <2> QED
    BY <1>1, <1>6, <1>10, <2>1, <2>2
<1>15. ASSUME NEW s \in 1 .. Len(senders), NEW f, GoodSender(senders[s], f, next)
       PROVE  GoodSender(senders'[s], f, next)
  <2>1. s \in 1 .. Len(grown) /\ grown[s] = senders[s]
    BY <1>1, <1>8, <1>13
  <2> QED
    BY <1>12, <1>15, <2>1
<1>16. ASSUME NEW s \in (Len(senders) + 1) .. Len(senders') PROVE GoodSender(senders'[s], <<>>, next)
  <2>1. s \in 1 .. Len(grown) /\ s \in (Len(senders) + 1) .. Len(grown)
    BY <1>1, <1>12, <1>13
  <2> QED
    BY <1>8, <1>12, <2>1
<1>17. Len(senders) <= Len(senders') /\ Len(senders') <= MaxSenders
  BY <1>12, <1>13
<1> QED
  BY <1>2, <1>12, <1>14, <1>15, <1>16, <1>17, SendersStep

\* encoder.Read finds nothing to send.
LEMMA SkipStep ==
  ASSUME GatewayInv, NEW s \in DOMAIN senders, Skip(s), UNCHANGED <<ingress, net>>
  PROVE  GatewayInv'
<1>1. /\ next \in Nat /\ senders \in Seq(SenderRec(next)) /\ Len(senders) <= MaxSenders
      /\ current \subseteq DOMAIN senders /\ Len(senders) \in Nat /\ s \in 1 .. Len(senders)
  BY DEF GatewayInv, Types
<1> DEFINE x == senders[s]
           y == [x EXCEPT !.ring = <<>>]
           z == [y EXCEPT !.ended = x.closed]
<1>2. x \in SenderRec(next)
  BY <1>1
<1>3. /\ senders' = [senders EXCEPT ![s].ring = <<>>, ![s].ended = senders[s].closed]
      /\ next' = next /\ current' = current
  BY DEF Skip
<1>4. senders' = [senders EXCEPT ![s] = z]
  BY <1>1, <1>3
<1> HIDE DEF x
<1>5. z \in SenderRec(next) /\ z.pkt = x.pkt /\ z.seq = x.seq
  <2>1. <<>> \in Seq({p \in Pkts : p < next}) /\ x.closed \in BOOLEAN
    BY <1>2 DEF SenderRec
  <2>2. y \in SenderRec(next) /\ y.pkt = x.pkt /\ y.seq = x.seq
    BY <1>2, <2>1 DEF SenderRec
  <2> HIDE DEF y
  <2> QED
    BY <2>1, <2>2 DEF SenderRec
<1> HIDE DEF z
<1>6. /\ senders' \in Seq(SenderRec(next)) /\ Len(senders') = Len(senders)
      /\ DOMAIN senders' = DOMAIN senders
      /\ senders'[s] = z /\ \A t \in 1 .. Len(senders) : t # s => senders'[t] = senders[t]
  BY <1>1, <1>4, <1>5, ReplaceFacts
<1>7. ASSUME NEW t \in 1 .. Len(senders), NEW f, GoodSender(senders[t], f, next)
      PROVE  GoodSender(senders'[t], f, next)
  <2>1. CASE t = s
    BY <1>5, <1>6, <1>7, <2>1 DEF GoodSender, x
  <2>2. CASE t # s
    BY <1>6, <1>7, <2>2
  <2> QED
    BY <2>1, <2>2
<1>8. \A t \in (Len(senders) + 1) .. Len(senders') : GoodSender(senders'[t], <<>>, next)
  BY <1>1, <1>6
<1> QED
  BY <1>1, <1>3, <1>6, <1>7, <1>8, SendersStep

\* One more frame of a stream.
LEMMA FlowGrows ==
  ASSUME NEW n \in Nat, NEW x, NEW frames, GoodSender(x, frames, n), Flow(frames, n),
         encode(x).cells # <<>>
  PROVE  LET e == encode(x)
             more == Append(frames, e.cells)
         IN  /\ Encoding(e, x.pkt, n) /\ e.cells \in Seq(Sent(n)) /\ e.rest \in Seq(Sent(n))
             /\ e.index \in Nat /\ e.used \in Nat /\ Len(e.cells) \in 1 .. Mtu
             /\ more \in Seq(Seq(Sent(n))) /\ Flow(more, n) /\ Extends(frames, more)
             /\ Len(more) = x.seq + 1 /\ more[x.seq + 1] = e.cells
             /\ Remains(e.rest, n) /\ Before(more[Len(more)], e.rest)
<1> DEFINE e == encode(x)
           more == Append(frames, e.cells)
           N == Len(frames)
<1>1. /\ x \in SenderRec(n) /\ Remains(x.pkt, n) /\ x.seq = N /\ frames \in Seq(Seq(Sent(n)))
      /\ frames # <<>> => Before(frames[N], x.pkt)
  BY DEF GoodSender, Flow
<1>2. x.ring \in Seq({p \in Pkts : p < n})
  BY <1>1 DEF SenderRec
<1>3. Encoding(e, x.pkt, n) /\ e.cells # <<>>
  BY <1>1, <1>2, EncodeFacts
<1> HIDE DEF e
<1>4. /\ e.cells \in Seq(Sent(n)) /\ e.rest \in Seq(Sent(n)) /\ e.index \in Nat /\ e.used \in Nat
      /\ Len(e.cells) \in 1 .. Mtu /\ Chain(e.cells) /\ Remains(e.rest, n) /\ Before(e.cells, e.rest)
  <2>1. /\ e.cells \in Seq(Sent(n)) /\ e.rest \in Seq(Sent(n)) /\ e.index \in Nat /\ e.used \in Nat
        /\ Len(e.cells) <= Mtu /\ Chain(e.cells) /\ Remains(e.rest, n) /\ Before(e.cells, e.rest)
    BY <1>3 DEF Encoding, FrameState
  <2>2. Len(e.cells) \in Nat /\ Len(e.cells) # 0
    BY <1>3, <2>1, EmptySeq
  <2> QED
    BY <2>1, <2>2, PacketFacts
<1>5. /\ N \in Nat /\ more \in Seq(Seq(Sent(n))) /\ Len(more) = N + 1 /\ more[N + 1] = e.cells
      /\ \A q \in 1 .. N : more[q] = frames[q]
  <2> DEFINE S == Seq(Sent(n))
             c == e.cells
  <2> HIDE DEF S, c
  <2>1. frames \in Seq(S) /\ c \in S
    BY <1>1, <1>4 DEF S, c
  <2>2. /\ Len(frames) \in Nat /\ Append(frames, c) \in Seq(S) /\ Len(Append(frames, c)) = Len(frames) + 1
        /\ Append(frames, c)[Len(frames) + 1] = c
        /\ \A q \in 1 .. Len(frames) : Append(frames, c)[q] = frames[q]
    BY <2>1
  <2> QED
    BY <2>2 DEF S, c
<1> HIDE DEF more, N
<1>6. Extends(frames, more)
  BY <1>5 DEF Extends, N
<1>7. ASSUME NEW q \in 1 .. Len(more) PROVE more[q] # <<>> /\ Chain(more[q])
  <2>1. CASE q = N + 1
    BY <1>3, <1>4, <1>5, <2>1
  <2>2. CASE q # N + 1
    <3>1. q \in 1 .. N
      BY <1>5, <2>2
    <3> QED
      BY <1>5, <3>1 DEF Flow, N
  <2> QED
    BY <2>1, <2>2
<1>8. ASSUME NEW q \in 1 .. (Len(more) - 1) PROVE Follows(more[q][Len(more[q])], more[q + 1][1])
  <2>1. CASE q = N
    <3>1. q \in 1 .. N /\ more[q] = frames[N] /\ more[q + 1] = e.cells /\ N # 0
      BY <1>5, <2>1
    <3>2. frames # <<>>
      BY <3>1, EmptySeq DEF N
    <3>3. Before(frames[N], x.pkt)
      BY <1>1, <3>2
    <3>4. CASE x.pkt = <<>>
      <4>1. IsEnd(frames[N][Len(frames[N])]) /\ e.cells[1].off = 0
        BY <1>3, <3>3, <3>4 DEF Before, Encoding
      <4> QED
        BY <3>1, <4>1 DEF Follows
    <3>5. CASE x.pkt # <<>>
      <4>1. Follows(frames[N][Len(frames[N])], x.pkt[1]) /\ e.cells[1] = x.pkt[1]
        BY <1>3, <3>3, <3>5 DEF Before, Encoding
      <4> QED
        BY <3>1, <4>1
    <3> QED
      BY <3>4, <3>5
  <2>2. CASE q # N
    <3>1. q \in 1 .. (N - 1) /\ q \in 1 .. N /\ q + 1 \in 1 .. N
      BY <1>5, <2>2
    <3>2. Follows(frames[q][Len(frames[q])], frames[q + 1][1])
      BY <3>1 DEF Flow, N
    <3> QED
      BY <1>5, <3>1, <3>2
  <2> QED
    BY <2>1, <2>2
<1>9. Flow(more, n)
  BY <1>5, <1>7, <1>8 DEF Flow
<1>10. Before(more[Len(more)], e.rest)
  BY <1>4, <1>5
<1> QED
  BY <1>1, <1>3, <1>4, <1>5, <1>6, <1>9, <1>10 DEF more, e

\* encoder.Read and the write of the frame.
LEMMA FrameStep ==
  ASSUME GatewayInv, NEW s \in DOMAIN senders, SendFrame(s), UNCHANGED ingress,
         net' = net \cup {FrameOf(s)}
  PROVE  GatewayInv'
<1> DEFINE n == next
           x == senders[s]
           e == encode(x)
           z == [[[x EXCEPT !.ring = SubSeq(x.ring, e.used + 1, Len(x.ring))]
                     EXCEPT !.pkt = e.rest] EXCEPT !.seq = x.seq + 1]
<1>1. /\ n \in Nat /\ senders \in Seq(SenderRec(n)) /\ Len(senders) <= MaxSenders
      /\ current \subseteq DOMAIN senders /\ Len(senders) \in Nat /\ s \in 1 .. Len(senders)
      /\ s \in Streams /\ DOMAIN senders = 1 .. Len(senders)
  <2>1. /\ n \in Nat /\ senders \in Seq(SenderRec(n)) /\ Len(senders) <= MaxSenders
        /\ current \subseteq DOMAIN senders /\ Len(senders) \in Nat /\ s \in 1 .. Len(senders)
    BY DEF GatewayInv, Types
  <2>2. MaxSenders \in Nat
    BY GatewayAssumption
  <2> QED
    BY <2>1, <2>2 DEF Streams
<1>2. PICK sent : History(sent, senders, net, workers, n)
  BY DEF GatewayInv
<1>3. Types(n) /\ FramesAccounted
  BY DEF GatewayInv
<1>4. /\ free' = free /\ workers' = workers /\ worker' = worker /\ releasing' = releasing
      /\ noDevice' = noDevice /\ delivered' = delivered
  BY DEF ingress
<1>5. /\ e.cells # <<>> /\ next' = next /\ current' = current
      /\ senders' = [senders EXCEPT ![s].ring = SubSeq(@, e.used + 1, Len(@)),
                                    ![s].pkt = e.rest, ![s].seq = @ + 1]
  BY DEF SendFrame
<1>6. x \in SenderRec(n)
  BY <1>1
<1>7. senders' = [senders EXCEPT ![s] = z]
  BY <1>1, <1>5
<1> DEFINE frames == sent[s]
           more == Append(frames, e.cells)
           after == [sent EXCEPT ![s] = more]
           f == FrameOf(s)
<1>8. f = [stream |-> s, seq |-> x.seq, index |-> e.index, cells |-> e.cells]
  BY DEF FrameOf
<1>9. GoodSender(x, frames, n) /\ Flow(frames, n) /\ sent \in [Streams -> Seq(Seq(Sent(n)))]
  BY <1>1, <1>2 DEF History
<1> HIDE DEF x, frames, f
<1>10. /\ Encoding(e, x.pkt, n) /\ e.cells \in Seq(Sent(n)) /\ e.rest \in Seq(Sent(n))
       /\ e.index \in Nat /\ e.used \in Nat /\ Len(e.cells) \in 1 .. Mtu
       /\ more \in Seq(Seq(Sent(n))) /\ Flow(more, n) /\ Extends(frames, more)
       /\ Len(more) = x.seq + 1 /\ more[x.seq + 1] = e.cells
       /\ Remains(e.rest, n) /\ Before(more[Len(more)], e.rest)
  BY <1>1, <1>5, <1>9, FlowGrows
<1> HIDE DEF e, more
<1>11. z \in SenderRec(n) /\ z.pkt = e.rest /\ z.seq = x.seq + 1
  <2> DEFINE ring == SubSeq(x.ring, e.used + 1, Len(x.ring))
             u == [x EXCEPT !.ring = ring]
             v == [u EXCEPT !.pkt = e.rest]
  <2>1. x.ring \in Seq({p \in Pkts : p < n}) /\ x.seq \in Nat /\ Len(x.ring) \in Nat
    BY <1>6 DEF SenderRec
  <2>2. ring \in Seq({p \in Pkts : p < n})
    <3> DEFINE P == {p \in Pkts : p < n}
               r == x.ring
    <3>1. r \in Seq(P) /\ e.used + 1 \in Nat /\ e.used + 1 >= 1
      BY <1>10, <2>1
    <3> HIDE DEF P, r
    <3>2. SubSeq(r, e.used + 1, Len(r)) \in Seq(P)
      BY <3>1
    <3> QED
      BY <3>2 DEF P, r
  <2> HIDE DEF ring
  <2>3. u \in SenderRec(n) /\ u.seq = x.seq
    BY <1>6, <2>2 DEF SenderRec
  <2> HIDE DEF u
  <2>4. v \in SenderRec(n) /\ v.pkt = e.rest /\ v.seq = x.seq
    BY <1>10, <2>3 DEF SenderRec
  <2> HIDE DEF v
  <2>5. z = [v EXCEPT !.seq = x.seq + 1]
    BY DEF ring, u, v
  <2> HIDE DEF z
  <2>6. x.seq + 1 \in Nat
    BY <2>1
  <2> QED
    BY <2>4, <2>5, <2>6 DEF SenderRec
<1> HIDE DEF z
<1>12. x.seq \in Nat /\ after[s] = more /\ after \in [Streams -> Seq(Seq(Sent(n)))]
       /\ \A t \in Streams : t # s => after[t] = sent[t]
  BY <1>1, <1>6, <1>9, <1>10 DEF SenderRec
<1> HIDE DEF after
<1>13. /\ senders' \in Seq(SenderRec(n)) /\ Len(senders') = Len(senders)
       /\ DOMAIN senders' = DOMAIN senders
       /\ senders'[s] = z /\ \A t \in 1 .. Len(senders) : t # s => senders'[t] = senders[t]
  BY <1>1, <1>7, <1>11, ReplaceFacts
<1>14. \A t \in Streams : Extends(sent[t], after[t])
  <2>1. \A t \in Streams : t # s => Extends(sent[t], after[t])
    <3>1. \A t \in Streams : Len(sent[t]) \in Nat
      BY <1>9
    <3> QED
      BY <1>12, <3>1 DEF Extends
  <2>2. Extends(sent[s], after[s])
    BY <1>10, <1>12 DEF frames
  <2> QED
    BY <2>1, <2>2
<1>15. /\ \A g : GoodFrame(g, sent, n) => GoodFrame(g, after, n)
       /\ \A v : GoodWorker(v, sent, n) => GoodWorker(v, after, n)
  <2>1. Sent(n) \subseteq Sent(n) /\ n <= n
    BY <1>1
  <2> QED
    BY <1>1, <1>9, <1>12, <1>14, <2>1, StateMonotone
<1>16. GoodSender(z, more, n)
  BY <1>10, <1>11 DEF GoodSender
<1>17. ASSUME NEW t \in 1 .. Len(senders') PROVE GoodSender(senders'[t], after[t], n)
  <2>1. t \in 1 .. Len(senders) /\ t \in Streams
    <3>1. MaxSenders \in Nat
      BY GatewayAssumption
    <3> QED
      BY <1>1, <1>13, <3>1 DEF Streams
  <2>2. CASE t = s
    BY <1>12, <1>13, <1>16, <2>2
  <2>3. CASE t # s
    BY <1>2, <1>12, <1>13, <2>1, <2>3 DEF History
  <2> QED
    BY <2>2, <2>3
<1>18. GoodFrame(f, after, n)
  <2>1. f \in FrameRec(n) /\ f.stream = s /\ f.seq = x.seq /\ f.index = e.index /\ f.cells = e.cells
    BY <1>1, <1>8, <1>10, <1>12 DEF FrameRec
  <2>2. IndexOK(e.index, e.cells)
    BY <1>10 DEF Encoding
  <2>3. x.seq + 1 \in 1 .. Len(more)
    BY <1>10, <1>12
  <2> QED
    BY <1>10, <1>12, <2>1, <2>2, <2>3 DEF GoodFrame
<1>19. ASSUME NEW g \in net' PROVE GoodFrame(g, after, n)
  <2>1. CASE g = f
    BY <1>18, <2>1
  <2>2. CASE g \in net
    BY <1>2, <1>15, <2>2 DEF History
  <2> QED
    BY <2>1, <2>2 DEF f
<1>20. ASSUME NEW w \in 1 .. Len(workers) PROVE GoodWorker(workers[w], after, n)
  BY <1>2, <1>15 DEF History
<1>21. ASSUME NEW t \in Streams PROVE Flow(after[t], n) /\ (t > Len(senders') => after[t] = <<>>)
  <2>1. CASE t = s
    <3>1. ~(t > Len(senders'))
      BY <1>1, <1>13, <2>1
    <3> QED
      BY <1>10, <1>12, <2>1, <3>1
  <2>2. CASE t # s
    BY <1>2, <1>12, <1>13, <2>2 DEF History
  <2> QED
    BY <2>1, <2>2
<1>22. History(after, senders', net', workers', next')
  BY <1>4, <1>5, <1>12, <1>17, <1>19, <1>20, <1>21 DEF History
<1>23. Types(next)'
  BY <1>1, <1>3, <1>4, <1>5, <1>13 DEF Types
<1>24. FramesAccounted'
  BY <1>3, <1>4 DEF FramesAccounted
<1> QED
  BY <1>22, <1>23, <1>24 DEF GatewayInv

---------------------------------------------------------------------------
(* The steps of the ingress server and its workers.                          *)

\* FramesAccounted, with the buffers of the workers counted by Total.
LEMMA AccountedIs ==
  FramesAccounted <=> NumFrames = free + releasing + noDevice + Total(workers)
BY DEF FramesAccounted, Total

\* Workers with the same lists hold the same number of buffers.
LEMMA SameHeld ==
  ASSUME NEW u, NEW v, u.lists = v.lists PROVE Held(u) = Held(v)
BY DEF Held

\* A step of the receiving gateway.
LEMMA IngressStep ==
  ASSUME GatewayInv, NEW sent, History(sent, senders, net, workers, next),
         UNCHANGED egress, net' \subseteq net,
         workers' \in Seq(WorkerRec(next)), worker' \in 0 .. Len(workers'),
         \A w \in 1 .. Len(workers') : GoodWorker(workers'[w], sent, next),
         free' \in Nat, releasing' \in Nat, noDevice' \in Nat, delivered' \in Seq(Whole(next)),
         NumFrames = free' + releasing' + noDevice' + Total(workers')
  PROVE  GatewayInv'
<1>1. senders' = senders /\ current' = current /\ next' = next
  BY DEF egress
<1>2. Types(next)'
  BY <1>1 DEF GatewayInv, Types
<1>3. FramesAccounted'
  BY DEF FramesAccounted, Total
<1>4. History(sent, senders', net', workers', next')
  BY <1>1 DEF History
<1> QED
  BY <1>2, <1>3, <1>4 DEF GatewayInv

\* A worker that has just been started.
LEMMA NewWorkerFacts ==
  ASSUME NEW n \in Nat, NEW sent, NEW f, GoodFrame(f, sent, n)
  PROVE  GoodWorker(NewWorker(f), sent, n) /\ NewWorker(f) \in WorkerRec(n) /\ Load(NewWorker(f)) = 1
<1> DEFINE v == NewWorker(f)
           l == [s \in {} |-> <<>>]
<1>1. f \in FrameRec(n) /\ WorkerRing \in Nat /\ WorkerRing >= 1
  BY GatewayAssumption DEF GoodFrame
<1>2. l \in Lists(n) /\ DOMAIN l = {}
  <2>1. l \in [{} -> Seq(Buffer(n))] /\ {} \in SUBSET Streams
    OBVIOUS
  <2> HIDE DEF l
  <2> QED
    BY <2>1 DEF Lists
<1>3. v = [ring |-> <<f>>, stop |-> FALSE, ended |-> FALSE, lists |-> l, old |-> {}]
  BY DEF NewWorker
<1>4. <<f>> \in Seq(FrameRec(n)) /\ Len(<<f>>) = 1 /\ <<f>>[1] = f
  BY <1>1
<1> HIDE DEF v, l
<1>5. v \in WorkerRec(n) /\ v.ring = <<f>> /\ v.lists = l
  BY <1>2, <1>3, <1>4 DEF WorkerRec
<1>6. Held(v) = 0
  <2> DEFINE g == [s \in DOMAIN v.lists |-> Len(v.lists[s])]
  <2>1. Held(v) = SumFunctionOnSet(g, {})
    BY <1>2, <1>5 DEF Held, SumFunction
  <2> HIDE DEF g
  <2> QED
    BY <2>1, SumEmpty
<1>7. Load(v) = 1
  BY <1>4, <1>5, <1>6 DEF Load
<1>8. GoodWorker(v, sent, n)
  BY <1>1, <1>2, <1>4, <1>5 DEF GoodWorker
<1> QED
  BY <1>5, <1>7, <1>8 DEF v

\* dispatch
LEMMA ReceiveStep ==
  ASSUME GatewayInv, NEW f \in net, Receive(f)
  PROVE  GatewayInv'
<1> DEFINE n == next
<1>1. PICK sent : History(sent, senders, net, workers, n)
  BY DEF GatewayInv
<1>2. /\ n \in Nat /\ workers \in Seq(WorkerRec(n)) /\ worker \in 0 .. Len(workers)
      /\ free \in Nat /\ releasing \in Nat /\ noDevice \in Nat /\ delivered \in Seq(Whole(n))
      /\ NumFrames = free + releasing + noDevice + Total(workers) /\ Len(workers) \in Nat
  BY AccountedIs DEF GatewayInv, Types
<1>3. /\ Dispatch(f) /\ UNCHANGED egress /\ net' \subseteq net
  BY DEF Receive
<1>4. /\ free > 0 /\ free' = free - 1 /\ releasing' = releasing /\ delivered' = delivered
  BY <1>3 DEF Dispatch
<1>5. free' \in Nat /\ free = free' + 1
  BY <1>2, <1>4
<1>6. GoodFrame(f, sent, n) /\ \A w \in 1 .. Len(workers) : GoodWorker(workers[w], sent, n)
  BY <1>1 DEF History
<1>7. Total(workers) \in Nat
  <2>1. NewWorker(f) \in WorkerRec(n)
    BY <1>2, <1>6, NewWorkerFacts
  <2> QED
    BY <1>2, <2>1, TotalFacts
<1>8. CASE /\ worker # 0 /\ Len(workers[worker].ring) < WorkerRing
           /\ workers' = [workers EXCEPT ![worker].ring = Append(@, f)]
           /\ worker' = worker /\ noDevice' = noDevice
  <2> DEFINE v == workers[worker]
             u == [v EXCEPT !.ring = Append(v.ring, f)]
  <2>1. worker \in 1 .. Len(workers)
    BY <1>2, <1>8
  <2>2. workers' = [workers EXCEPT ![worker] = u]
    BY <1>2, <1>8, <2>1
  <2>3. v \in WorkerRec(n) /\ GoodWorker(v, sent, n)
    BY <1>2, <1>6, <2>1
  <2>4. Len(v.ring) < WorkerRing
    BY <1>8
  <2> HIDE DEF v
  <2>5. v.ring \in Seq(FrameRec(n)) /\ f \in FrameRec(n) /\ WorkerRing \in Nat
    BY <1>6, <2>3, GatewayAssumption DEF WorkerRec, GoodFrame
  <2>6. /\ Append(v.ring, f) \in Seq(FrameRec(n)) /\ Len(Append(v.ring, f)) = Len(v.ring) + 1
        /\ Len(v.ring) \in Nat /\ Append(v.ring, f)[Len(v.ring) + 1] = f
        /\ \A i \in 1 .. Len(v.ring) : Append(v.ring, f)[i] = v.ring[i]
    <3> DEFINE r == v.ring
               S == FrameRec(n)
    <3> HIDE DEF r, S
    <3>1. r \in Seq(S) /\ f \in S
      BY <2>5 DEF r, S
    <3>2. /\ Append(r, f) \in Seq(S) /\ Len(Append(r, f)) = Len(r) + 1
          /\ Len(r) \in Nat /\ Append(r, f)[Len(r) + 1] = f
          /\ \A i \in 1 .. Len(r) : Append(r, f)[i] = r[i]
      BY <3>1
    <3> QED
      BY <3>2 DEF r, S
  <2>7. u \in WorkerRec(n) /\ u.ring = Append(v.ring, f) /\ u.lists = v.lists
    BY <2>3, <2>6 DEF WorkerRec
  <2> HIDE DEF u
  <2>8. GoodWorker(u, sent, n)
    <3>1. ASSUME NEW i \in 1 .. Len(u.ring) PROVE GoodFrame(u.ring[i], sent, n)
      <4>1. CASE i = Len(v.ring) + 1
        BY <1>6, <2>6, <2>7, <4>1
      <4>2. CASE i # Len(v.ring) + 1
        <5>1. i \in 1 .. Len(v.ring)
          BY <2>6, <2>7, <4>2
        <5> QED
          BY <2>3, <2>6, <2>7, <5>1 DEF GoodWorker
      <4> QED
        BY <4>1, <4>2
    <3>2. Len(u.ring) <= WorkerRing
      BY <2>4, <2>5, <2>6, <2>7
    <3> QED
      BY <2>3, <2>7, <3>1, <3>2 DEF GoodWorker
  <2>9. Load(u) = Load(v) + 1 /\ Load(v) \in Nat
    <3>1. Held(u) = Held(v) /\ Held(v) \in Nat /\ Load(v) \in Nat
      BY <1>2, <2>3, <2>7, SameHeld, HeldType
    <3> QED
      BY <2>6, <2>7, <3>1 DEF Load
  <2>10. /\ workers' \in Seq(WorkerRec(n)) /\ Len(workers') = Len(workers)
         /\ workers'[worker] = u /\ \A w \in 1 .. Len(workers) : w # worker => workers'[w] = workers[w]
    BY <1>2, <2>1, <2>2, <2>7, ReplaceFacts
  <2>11. \A w \in 1 .. Len(workers') : GoodWorker(workers'[w], sent, n)
    BY <1>6, <2>8, <2>10
  <2>12. Total([workers EXCEPT ![worker] = u]) + Load(workers[worker]) = Total(workers) + Load(u)
    BY <1>2, <2>1, <2>7, TotalFacts, SMTT(30)
  <2>13. Total(workers') + Load(v) = Total(workers) + Load(u) /\ Total(workers') \in Nat
    BY <1>2, <2>2, <2>7, <2>10, <2>12, TotalFacts DEF v
  <2>14. NumFrames = free' + releasing' + noDevice' + Total(workers')
    <3>1. Total(workers') = Total(workers) + 1
      BY ONLY <1>7, <2>9, <2>13
    <3>2. noDevice' = noDevice
      BY <1>8
    <3> QED
      BY ONLY <1>2, <1>4, <1>5, <1>7, <3>1, <3>2
  <2>15. worker' \in 0 .. Len(workers') /\ noDevice' \in Nat /\ releasing' \in Nat
    BY <1>2, <1>4, <1>8, <2>10
  <2> QED
    BY <1>1, <1>2, <1>3, <1>4, <1>5, <2>10, <2>11, <2>14, <2>15, IngressStep
<1>9. CASE /\ workers' = Append(workers, NewWorker(f)) /\ worker' = Len(Append(workers, NewWorker(f)))
           /\ noDevice' = noDevice
  <2> DEFINE u == NewWorker(f)
             k == Len(workers) + 1
  <2>1. GoodWorker(u, sent, n) /\ u \in WorkerRec(n) /\ Load(u) = 1
    BY <1>2, <1>6, NewWorkerFacts
  <2>2. workers' = Append(workers, u) /\ worker' = Len(workers')
    BY <1>9
  <2> HIDE DEF u
  <2>3. /\ workers' \in Seq(WorkerRec(n)) /\ Len(workers') = k /\ workers'[k] = u
        /\ \A w \in 1 .. Len(workers) : workers'[w] = workers[w]
    BY <1>2, <2>1, <2>2
  <2>4. ASSUME NEW w \in 1 .. Len(workers') PROVE GoodWorker(workers'[w], sent, n)
    <3>1. CASE w = k
      BY <2>1, <2>3, <3>1
    <3>2. CASE w # k
      <4>1. w \in 1 .. Len(workers)
        BY <1>2, <2>3, <3>2
      <4> QED
        BY <1>6, <2>3, <4>1
    <3> QED
      BY <3>1, <3>2
  <2>5. Total(workers') = Total(workers) + 1
    BY <1>2, <2>1, <2>2, TotalFacts
  <2>6. NumFrames = free' + releasing' + noDevice' + Total(workers')
    BY <1>2, <1>4, <1>5, <1>7, <1>9, <2>5
  <2>7. worker' \in 0 .. Len(workers') /\ noDevice' \in Nat /\ releasing' \in Nat
    BY <1>2, <1>4, <1>9, <2>2, <2>3
  <2> QED
    BY <1>1, <1>2, <1>3, <1>4, <1>5, <2>3, <2>4, <2>6, <2>7, IngressStep
<1>10. CASE noDevice' = noDevice + 1 /\ UNCHANGED <<workers, worker>>
  <2>1. /\ noDevice' \in Nat /\ releasing' \in Nat
        /\ NumFrames = free' + releasing' + noDevice' + Total(workers')
    BY <1>2, <1>4, <1>5, <1>7, <1>10
  <2> QED
    BY <1>1, <1>2, <1>3, <1>4, <1>5, <1>6, <1>10, <2>1, IngressStep
<1>11. \/ /\ worker # 0 /\ Len(workers[worker].ring) < WorkerRing
          /\ workers' = [workers EXCEPT ![worker].ring = Append(@, f)]
          /\ worker' = worker /\ noDevice' = noDevice
       \/ /\ workers' = Append(workers, NewWorker(f)) /\ worker' = Len(Append(workers, NewWorker(f)))
          /\ noDevice' = noDevice
       \/ noDevice' = noDevice + 1 /\ UNCHANGED <<workers, worker>>
  BY <1>3 DEF Dispatch, ServerCleanup
<1> QED
  BY <1>8, <1>9, <1>10, <1>11

\* processFrame: what is known of a frame before it is looked into.
LEMMA FrameBufFacts ==
  ASSUME NEW n \in Nat, NEW sent, NEW f, GoodFrame(f, sent, n)
  PROVE  GoodBuf(FrameBuf(f), sent[f.stream], n)
<1> DEFINE b == FrameBuf(f)
<1>1. b = [seq |-> f.seq, index |-> f.index, cells |-> f.cells, frag0 |-> 0, pktLen |-> 0,
           frag0Done |-> FALSE, fragNDone |-> f.index = 0, completeDone |-> f.index = NoStart]
  BY DEF FrameBuf
<1>2. f.seq \in Nat /\ f.index \in Nat /\ f.cells \in Seq(Sent(n))
  BY DEF GoodFrame, FrameRec
<1>3. b \in Buffer(n)
  BY <1>1, <1>2 DEF Buffer
<1>4. /\ b.seq = f.seq /\ b.index = f.index /\ b.cells = f.cells /\ b.frag0 = 0
      /\ b.index = NoStart => b.completeDone
  <2>1. /\ b.seq = f.seq /\ b.index = f.index /\ b.cells = f.cells /\ b.frag0 = 0
        /\ b.completeDone = (f.index = NoStart)
    BY <1>1
  <2> QED
    BY <2>1
<1> HIDE DEF b
<1>5. GoodBuf(b, sent[f.stream], n)
  BY <1>3, <1>4 DEF GoodBuf, GoodFrame
<1> QED
  BY <1>5 DEF b

\* What a worker is after a frame, and what it has released.
LEMMA DoneFacts ==
  ASSUME NEW n \in Nat, NEW sent, (\A s \in Streams : Flow(sent[s], n)),
         NEW v \in WorkerRec(n), GoodWorker(v, sent, n), v.ring # <<>>
  PROVE  LET f == Head(v.ring)
             r == Insert(IF f.stream \in DOMAIN v.lists THEN v.lists[f.stream] ELSE <<>>, FrameBuf(f))
             done == [v EXCEPT !.ring = Tail(@), !.old = @ \ {f.stream},
                               !.lists = [s \in (DOMAIN @) \cup {f.stream} |->
                                            IF s = f.stream THEN r.list ELSE @[s]]]
         IN  /\ done \in WorkerRec(n) /\ GoodWorker(done, sent, n)
             /\ r.pkts \in Seq(Whole(n)) /\ r.released \in Nat
             /\ Load(done) + r.released = Load(v)
             /\ done.ring = Tail(v.ring) /\ Brought(r.pkts, f.cells, 1, Len(f.cells))
<1> DEFINE f == Head(v.ring)
           q == f.stream
           l == IF q \in DOMAIN v.lists THEN v.lists[q] ELSE <<>>
           r == Insert(l, FrameBuf(f))
           lists == [s \in (DOMAIN v.lists) \cup {q} |-> IF s = q THEN r.list ELSE v.lists[s]]
           old == v.old \ {q}
           done == [v EXCEPT !.ring = Tail(v.ring), !.old = old, !.lists = lists]
<1>1. /\ v.ring \in Seq(FrameRec(n)) /\ v.lists \in Lists(n) /\ v.old \in SUBSET Streams
      /\ DOMAIN v.lists \subseteq Streams
      /\ \A s \in DOMAIN v.lists : v.lists[s] \in Seq(Buffer(n)) /\ Len(v.lists[s]) \in Nat
  BY HeldType DEF WorkerRec
<1>2. /\ Len(v.ring) \in Nat /\ Len(v.ring) >= 1 /\ f = v.ring[1] /\ 1 \in 1 .. Len(v.ring)
      /\ Tail(v.ring) \in Seq(FrameRec(n)) /\ Len(Tail(v.ring)) = Len(v.ring) - 1
      /\ \A i \in 1 .. (Len(v.ring) - 1) : Tail(v.ring)[i] = v.ring[i + 1]
  BY <1>1
<1>3. GoodFrame(f, sent, n)
  BY <1>2 DEF GoodWorker
<1>4. q \in Streams /\ Flow(sent[q], n)
  BY <1>3 DEF GoodFrame, FrameRec
<1>5. GoodBuf(FrameBuf(f), sent[q], n) /\ FrameBuf(f).cells = f.cells
  BY <1>3, FrameBufFacts DEF FrameBuf
<1>6. GoodList(l, sent[q], n) /\ Len(l) \in Nat
  <2>1. CASE q \in DOMAIN v.lists
    BY <1>1, <2>1 DEF GoodWorker
  <2>2. CASE q \notin DOMAIN v.lists
    <3>1. l = <<>> /\ Len(<<>>) = 0
      BY <2>2
    <3> QED
      BY <3>1, SmallLists
  <2> QED
    BY <2>1, <2>2
<1>7. r = Insert(l, FrameBuf(f))
  OBVIOUS
<1> HIDE DEF f, q, l, r
<1>8. GoodResult(r, Len(l) + 1, sent[q], n) /\ Brought(r.pkts, f.cells, 1, Len(f.cells))
  BY <1>4, <1>5, <1>6, <1>7, InsertFacts
<1>9. /\ GoodList(r.list, sent[q], n) /\ r.pkts \in Seq(Whole(n)) /\ r.released \in Nat
      /\ r.released + Len(r.list) = Len(l) + 1 /\ r.list \in Seq(Buffer(n)) /\ Len(r.list) \in Nat
  BY <1>8 DEF GoodResult, GoodList, Consecutive
<1>10. /\ DOMAIN lists = (DOMAIN v.lists) \cup {q} /\ lists[q] = r.list
       /\ \A s \in DOMAIN v.lists : s # q => lists[s] = v.lists[s]
  OBVIOUS
<1>11. lists \in Lists(n)
  <2> DEFINE D == (DOMAIN v.lists) \cup {q}
  <2>1. D \in SUBSET Streams
    BY <1>1, <1>4
  <2>2. lists \in [D -> Seq(Buffer(n))]
    BY <1>1, <1>9
  <2> HIDE DEF D, lists
  <2> QED
    BY <2>1, <2>2 DEF Lists
<1>12. old \in SUBSET Streams
  BY <1>1
<1>13. lists = [s \in (DOMAIN v.lists) \cup {q} |-> IF s = q THEN r.list ELSE v.lists[s]]
  OBVIOUS
<1> HIDE DEF lists, old
<1>14. done = [[[v EXCEPT !.ring = Tail(v.ring)] EXCEPT !.old = old] EXCEPT !.lists = lists]
  BY DEF WorkerRec
<1>15. done \in WorkerRec(n) /\ done.ring = Tail(v.ring) /\ done.lists = lists
  <2> DEFINE x == [v EXCEPT !.ring = Tail(v.ring)]
             y == [x EXCEPT !.old = old]
  <2>1. x \in WorkerRec(n) /\ x.ring = Tail(v.ring)
    BY <1>2 DEF WorkerRec
  <2>2. y = [x EXCEPT !.old = old] /\ done = [y EXCEPT !.lists = lists]
    BY <1>14
  <2> HIDE DEF x, y, done
  <2>3. y \in WorkerRec(n) /\ y.ring = Tail(v.ring)
    BY <1>12, <2>1, <2>2 DEF WorkerRec
  <2> QED
    BY <1>11, <2>2, <2>3 DEF WorkerRec
<1>16. Held(done) + Len(l) = Held(v) + Len(r.list)
  <2>1. done.lists = [s \in (DOMAIN v.lists) \cup {q} |-> IF s = q THEN r.list ELSE v.lists[s]]
    BY <1>13, <1>15
  <2> DEFINE new == r.list
  <2>3. new \in Seq(Buffer(n))
    BY <1>9
  <2>4. q \in Streams
    BY <1>4
  <2>5. done.lists = [s \in (DOMAIN v.lists) \cup {q} |-> IF s = q THEN new ELSE v.lists[s]]
    BY <2>1
  <2>6. done \in WorkerRec(n) /\ v \in WorkerRec(n) /\ n \in Nat
    BY <1>15
  <2> HIDE DEF done, new
  <2>2. Held(done) + Len(IF q \in DOMAIN v.lists THEN v.lists[q] ELSE <<>>) = Held(v) + Len(new)
    BY ONLY <2>3, <2>4, <2>5, <2>6, HeldUpdate
  <2> QED
    BY <2>2 DEF l, new
<1> HIDE DEF done
<1>17. Held(done) \in Nat /\ Held(v) \in Nat
  BY <1>15, HeldType
<1>18. Load(done) + r.released = Load(v)
  <2>1. Len(done.ring) = Len(v.ring) - 1
    BY <1>2, <1>15
  <2>2. Load(done) = Len(done.ring) + Held(done) /\ Load(v) = Len(v.ring) + Held(v)
    BY DEF Load
  <2>3. /\ Len(v.ring) \in Nat /\ Len(l) \in Nat /\ Len(r.list) \in Nat /\ r.released \in Nat
        /\ r.released + Len(r.list) = Len(l) + 1
    BY <1>2, <1>6, <1>9
  <2> DEFINE ring == Len(v.ring)
             held == Held(v)
             left == Held(done)
             before == Len(l)
             new == Len(r.list)
             gone == r.released
  <2>4. /\ ring \in Nat /\ held \in Nat /\ left \in Nat /\ before \in Nat /\ new \in Nat
        /\ gone \in Nat /\ left + before = held + new /\ gone + new = before + 1
    BY <1>16, <1>17, <2>3
  <2>5. Load(done) = (ring - 1) + left /\ Load(v) = ring + held
    BY <2>1, <2>2
  <2> HIDE DEF ring, held, left, before, new, gone
  <2>6. Load(done) + gone = Load(v)
    BY ONLY <2>4, <2>5
  <2> QED
    BY <2>6 DEF gone
<1>19. GoodWorker(done, sent, n)
  <2>1. Len(done.ring) <= WorkerRing
    <3>1. WorkerRing \in Nat /\ Len(v.ring) <= WorkerRing
      BY GatewayAssumption DEF GoodWorker
    <3> QED
      BY <1>2, <1>15, <3>1
  <2>2. ASSUME NEW i \in 1 .. Len(done.ring) PROVE GoodFrame(done.ring[i], sent, n)
    <3>1. i \in 1 .. (Len(v.ring) - 1) /\ i + 1 \in 1 .. Len(v.ring)
      BY <1>2, <1>15
    <3> QED
      BY <1>2, <1>15, <3>1 DEF GoodWorker
  <2>3. ASSUME NEW s \in DOMAIN done.lists PROVE GoodList(done.lists[s], sent[s], n)
    <3>1. CASE s = q
      BY <1>9, <1>10, <1>15, <3>1
    <3>2. CASE s # q
      BY <1>10, <1>15, <3>2 DEF GoodWorker
    <3> QED
      BY <3>1, <3>2
  <2> QED
    BY <1>15, <2>1, <2>2, <2>3 DEF GoodWorker
<1>20. /\ done \in WorkerRec(n) /\ GoodWorker(done, sent, n)
       /\ r.pkts \in Seq(Whole(n)) /\ r.released \in Nat
       /\ Load(done) + r.released = Load(v)
       /\ done.ring = Tail(v.ring) /\ Brought(r.pkts, f.cells, 1, Len(f.cells))
  BY <1>8, <1>9, <1>15, <1>18, <1>19
<1> QED
  BY <1>20, Zenon DEF done, lists, old, r, l, q, f

\* A worker is replaced; what it no longer has goes elsewhere.
LEMMA WorkerStep ==
  ASSUME GatewayInv, NEW sent, History(sent, senders, net, workers, next),
         UNCHANGED <<egress, net, noDevice>>,
         NEW w \in 1 .. Len(workers), NEW u, GoodWorker(u, sent, next),
         workers' = [workers EXCEPT ![w] = u], worker' \in 0 .. Len(workers),
         free' \in Nat, releasing' \in Nat, delivered' \in Seq(Whole(next)),
         free' + releasing' + Load(u) = free + releasing + Load(workers[w])
  PROVE  GatewayInv'
<1> DEFINE n == next
<1>1. /\ n \in Nat /\ workers \in Seq(WorkerRec(n))
      /\ free \in Nat /\ releasing \in Nat /\ noDevice \in Nat
      /\ NumFrames = free + releasing + noDevice + Total(workers)
  BY AccountedIs DEF GatewayInv, Types
<1>2. u \in WorkerRec(n)
  BY DEF GoodWorker
<1>3. \A x \in 1 .. Len(workers) : GoodWorker(workers[x], sent, n)
  BY DEF History
<1>4. /\ workers' \in Seq(WorkerRec(n)) /\ Len(workers') = Len(workers)
      /\ workers'[w] = u /\ \A x \in 1 .. Len(workers) : x # w => workers'[x] = workers[x]
  BY <1>1, <1>2, ReplaceFacts
<1>5. \A x \in 1 .. Len(workers') : GoodWorker(workers'[x], sent, n)
  BY <1>3, <1>4
<1>6. /\ Total(workers) \in Nat /\ Load(workers[w]) \in Nat /\ Load(u) \in Nat
      /\ Total(workers') + Load(workers[w]) = Total(workers) + Load(u)
  <2>1. /\ Total(workers) \in Nat /\ \A x \in 1 .. Len(workers) : Load(workers[x]) \in Nat
        /\ \A x \in 1 .. Len(workers) :
             Total([workers EXCEPT ![x] = u]) + Load(workers[x]) = Total(workers) + Load(u)
    BY <1>1, <1>2, TotalFacts, ZenonT(30)
  <2>2. Load(u) \in Nat
    BY <1>1, <1>2, HeldType
  <2> QED
    BY <2>1, <2>2
<1>7. Total(workers') \in Nat
  BY <1>1, <1>2, <1>4, TotalFacts
<1>8. NumFrames = free' + releasing' + noDevice' + Total(workers')
  <2>1. free' \in Nat /\ releasing' \in Nat /\ noDevice' = noDevice
    OBVIOUS
  <2>2. free' + releasing' + Load(u) = free + releasing + Load(workers[w])
    OBVIOUS
  <2> DEFINE f == free'
             r == releasing'
             t == Total(workers')
             old == Load(workers[w])
             new == Load(u)
             all == Total(workers)
  <2>3. /\ f \in Nat /\ r \in Nat /\ t \in Nat /\ old \in Nat /\ new \in Nat /\ all \in Nat
        /\ t + old = all + new /\ f + r + new = free + releasing + old
    BY <1>6, <1>7, <2>1, <2>2
  <2>4. /\ free \in Nat /\ releasing \in Nat /\ noDevice \in Nat
        /\ NumFrames = free + releasing + noDevice + all
    BY <1>1
  <2> HIDE DEF f, r, t, old, new, all
  <2>5. NumFrames = f + r + noDevice + t
    BY ONLY <2>3, <2>4
  <2> QED
    BY <2>1, <2>5 DEF f, r, t
<1>9. worker' \in 0 .. Len(workers') /\ noDevice' \in Nat /\ net' \subseteq net
  BY <1>1, <1>4
<1> QED
  BY <1>4, <1>5, <1>8, <1>9, IngressStep

\* worker.Run
LEMMA ProcessStep ==
  ASSUME GatewayInv, NEW w \in DOMAIN workers, processFrame(w), UNCHANGED <<egress, net>>
  PROVE  GatewayInv'
<1> DEFINE n == next
           v == workers[w]
           f == Head(v.ring)
           r == Insert(IF f.stream \in DOMAIN v.lists THEN v.lists[f.stream] ELSE <<>>, FrameBuf(f))
           done == [v EXCEPT !.ring = Tail(@), !.old = @ \ {f.stream},
                             !.lists = [s \in (DOMAIN @) \cup {f.stream} |->
                                          IF s = f.stream THEN r.list ELSE @[s]]]
<1>1. PICK sent : History(sent, senders, net, workers, n)
  BY DEF GatewayInv
<1>2. /\ n \in Nat /\ workers \in Seq(WorkerRec(n)) /\ worker \in 0 .. Len(workers)
      /\ free \in Nat /\ releasing \in Nat /\ delivered \in Seq(Whole(n))
      /\ w \in 1 .. Len(workers)
  BY DEF GatewayInv, Types
<1>3. v \in WorkerRec(n) /\ GoodWorker(v, sent, n) /\ \A s \in Streams : Flow(sent[s], n)
  BY <1>1, <1>2 DEF History
<1>4. /\ v.ring # <<>> /\ delivered' = delivered \o r.pkts /\ free' = free + r.released
      /\ worker' = worker /\ noDevice' = noDevice
      /\ \/ workers' = [workers EXCEPT ![w] = done] /\ releasing' = releasing
         \/ /\ workers' = [workers EXCEPT ![w] = Cleaned(done)]
            /\ releasing' = releasing + Held(done) - Held(Cleaned(done))
  BY DEF processFrame
<1> HIDE DEF v
<1>5. /\ done \in WorkerRec(n) /\ GoodWorker(done, sent, n)
      /\ r.pkts \in Seq(Whole(n)) /\ r.released \in Nat
      /\ Load(done) + r.released = Load(v)
  BY <1>2, <1>3, <1>4, DoneFacts, ZenonT(60)
<1> HIDE DEF done, r
<1>6. delivered' \in Seq(Whole(n)) /\ free' \in Nat /\ worker' \in 0 .. Len(workers)
  BY <1>2, <1>4, <1>5
<1>7. Load(done) \in Nat /\ Load(v) \in Nat
  BY <1>2, <1>3, <1>5, HeldType
<1>8. CASE workers' = [workers EXCEPT ![w] = done] /\ releasing' = releasing
  <2>1. free' + releasing' + Load(done) = free + releasing + Load(v) /\ releasing' \in Nat
    BY <1>2, <1>4, <1>5, <1>7, <1>8, SMTT(30)
  <2>2. free' + releasing' + Load(done) = free + releasing + Load(workers[w])
    BY <2>1 DEF v
  <2> QED
    BY <1>1, <1>2, <1>4, <1>5, <1>6, <1>8, <2>1, <2>2, WorkerStep
<1>9. CASE /\ workers' = [workers EXCEPT ![w] = Cleaned(done)]
           /\ releasing' = releasing + Held(done) - Held(Cleaned(done))
  <2> DEFINE c == Cleaned(done)
  <2>1. /\ c \in WorkerRec(n) /\ c.ring = done.ring
        /\ DOMAIN c.lists \subseteq DOMAIN done.lists
        /\ \A s \in DOMAIN c.lists : c.lists[s] = done.lists[s]
        /\ Held(c) \in Nat /\ Held(c) <= Held(done)
    BY <1>2, <1>5, CleanedFacts
  <2>2. workers' = [workers EXCEPT ![w] = c] /\ releasing' = releasing + Held(done) - Held(c)
    BY <1>9
  <2> HIDE DEF c
  <2>3. GoodWorker(c, sent, n)
    BY <1>5, <2>1 DEF GoodWorker
  <2>4. Held(done) \in Nat /\ Len(done.ring) \in Nat
    BY <1>2, <1>5, HeldType, SMTT(30)
  <2>5. Load(c) = Len(done.ring) + Held(c) /\ Load(done) = Len(done.ring) + Held(done)
    BY <2>1 DEF Load
  <2>6. releasing' \in Nat /\ releasing' + Held(c) = releasing + Held(done)
    BY <1>2, <2>1, <2>2, <2>4
  <2>7. free' = free + r.released /\ r.released \in Nat /\ Load(done) + r.released = Load(v)
    BY <1>4, <1>5
  <2>8. free \in Nat /\ releasing \in Nat /\ Held(c) \in Nat
    BY <1>2, <2>1
  <2>9. free' + releasing' + Load(c) = free + releasing + Load(v)
    <3> DEFINE ring == Len(done.ring)
               held == Held(done)
               left == Held(c)
               gone == r.released
               load == Load(v)
               rel == releasing'
    <3>1. /\ ring \in Nat /\ held \in Nat /\ left \in Nat /\ gone \in Nat /\ load \in Nat
          /\ rel \in Nat /\ rel + left = releasing + held
      BY <1>7, <2>1, <2>4, <2>6, <2>7
    <3>2. /\ Load(c) = ring + left /\ (ring + held) + gone = load /\ free' = free + gone
      BY <2>5, <2>7
    <3> HIDE DEF ring, held, left, gone, load, rel
    <3>3. free' + rel + Load(c) = free + releasing + load
      BY ONLY <2>8, <3>1, <3>2
    <3> QED
      BY <3>3 DEF load, rel
  <2>10. free' + releasing' + Load(c) = free + releasing + Load(workers[w])
    BY <2>9 DEF v
  <2> QED
    BY <1>1, <1>2, <1>4, <1>6, <2>2, <2>3, <2>6, <2>10, WorkerStep
<1> QED
  BY <1>4, <1>8, <1>9

\* Run returns.
LEMMA EndStep ==
  ASSUME GatewayInv, NEW w \in DOMAIN workers, WorkerEnd(w), UNCHANGED <<egress, net>>
  PROVE  GatewayInv'
<1> DEFINE n == next
           v == workers[w]
           u == [v EXCEPT !.ended = TRUE]
<1>1. PICK sent : History(sent, senders, net, workers, n)
  BY DEF GatewayInv
<1>2. /\ n \in Nat /\ workers \in Seq(WorkerRec(n)) /\ worker \in 0 .. Len(workers)
      /\ free \in Nat /\ releasing \in Nat /\ delivered \in Seq(Whole(n))
      /\ w \in 1 .. Len(workers)
  BY DEF GatewayInv, Types
<1>3. /\ free' = free /\ worker' = worker /\ releasing' = releasing /\ noDevice' = noDevice
      /\ delivered' = delivered /\ workers' = [workers EXCEPT ![w].ended = TRUE]
  BY DEF WorkerEnd
<1>4. workers' = [workers EXCEPT ![w] = u]
  BY <1>2, <1>3
<1>5. v \in WorkerRec(n) /\ GoodWorker(v, sent, n)
  BY <1>1, <1>2 DEF History
<1> HIDE DEF v
<1>6. u \in WorkerRec(n) /\ u.ring = v.ring /\ u.lists = v.lists
  BY <1>5 DEF WorkerRec
<1> HIDE DEF u
<1>7. GoodWorker(u, sent, n)
  BY <1>5, <1>6 DEF GoodWorker
<1>8. Load(u) = Load(v)
  BY <1>6, SameHeld DEF Load
<1>9. free' + releasing' + Load(u) = free + releasing + Load(workers[w])
  BY <1>3, <1>8 DEF v
<1> QED
  BY <1>1, <1>2, <1>3, <1>4, <1>7, <1>9, WorkerStep

\* The ingress server drops a worker that got no frame, or marks it.
LEMMA DiscardStep ==
  ASSUME GatewayInv, DiscardRead, UNCHANGED <<egress, net>>
  PROVE  GatewayInv'
<1> DEFINE n == next
           v == workers[worker]
           u == [v EXCEPT !.stop = TRUE]
<1>1. PICK sent : History(sent, senders, net, workers, n)
  BY DEF GatewayInv
<1>2. /\ n \in Nat /\ workers \in Seq(WorkerRec(n)) /\ worker \in 0 .. Len(workers)
      /\ free \in Nat /\ releasing \in Nat /\ noDevice \in Nat /\ delivered \in Seq(Whole(n))
      /\ NumFrames = free + releasing + noDevice + Total(workers) /\ Len(workers) \in Nat
  BY AccountedIs DEF GatewayInv, Types
<1>3. /\ free' = free /\ releasing' = releasing /\ noDevice' = noDevice /\ delivered' = delivered
      /\ \/ worker # 0 /\ workers' = [workers EXCEPT ![worker].stop = TRUE] /\ worker' = 0
         \/ workers' = workers /\ worker' = worker
  BY DEF DiscardRead, ServerCleanup
<1>4. CASE workers' = workers /\ worker' = worker
  <2>1. \A w \in 1 .. Len(workers) : GoodWorker(workers[w], sent, n)
    BY <1>1 DEF History
  <2> QED
    BY <1>1, <1>2, <1>3, <1>4, <2>1, IngressStep
<1>5. CASE worker # 0 /\ workers' = [workers EXCEPT ![worker].stop = TRUE] /\ worker' = 0
  <2>1. worker \in 1 .. Len(workers) /\ worker' \in 0 .. Len(workers)
    BY <1>2, <1>5
  <2>2. workers' = [workers EXCEPT ![worker] = u]
    BY <1>2, <1>5, <2>1
  <2>3. v \in WorkerRec(n) /\ GoodWorker(v, sent, n)
    BY <1>1, <1>2, <2>1 DEF History
  <2> HIDE DEF v
  <2>4. u \in WorkerRec(n) /\ u.ring = v.ring /\ u.lists = v.lists
    BY <2>3 DEF WorkerRec
  <2> HIDE DEF u
  <2>5. GoodWorker(u, sent, n)
    BY <2>3, <2>4 DEF GoodWorker
  <2>6. Load(u) = Load(v)
    BY <2>4, SameHeld DEF Load
  <2>7. free' + releasing' + Load(u) = free + releasing + Load(workers[worker])
    BY <1>3, <2>6 DEF v
  <2> QED
    BY <1>1, <1>2, <1>3, <2>1, <2>2, <2>5, <2>7, WorkerStep
<1> QED
  BY <1>3, <1>4, <1>5

\* A buffer of a list that was removed goes back to the pool.
LEMMA ReleaseStep ==
  ASSUME GatewayInv, ReleaseRemoved, UNCHANGED <<egress, net>>
  PROVE  GatewayInv'
<1> DEFINE n == next
<1>1. PICK sent : History(sent, senders, net, workers, n)
  BY DEF GatewayInv
<1>2. /\ n \in Nat /\ workers \in Seq(WorkerRec(n)) /\ worker \in 0 .. Len(workers)
      /\ free \in Nat /\ releasing \in Nat /\ noDevice \in Nat /\ delivered \in Seq(Whole(n))
      /\ NumFrames = free + releasing + noDevice + Total(workers)
  BY AccountedIs DEF GatewayInv, Types
<1>3. /\ free' = free + 1 /\ releasing' = releasing - 1 /\ releasing > 0 /\ noDevice' = noDevice
      /\ delivered' = delivered /\ workers' = workers /\ worker' = worker
  BY DEF ReleaseRemoved
<1>4. /\ free' \in Nat /\ releasing' \in Nat /\ free' + releasing' = free + releasing
  BY <1>2, <1>3
<1>5. NumFrames = free' + releasing' + noDevice' + Total(workers')
  BY <1>2, <1>3, <1>4
<1>6. \A w \in 1 .. Len(workers) : GoodWorker(workers[w], sent, n)
  BY <1>1 DEF History
<1> QED
  BY <1>1, <1>2, <1>3, <1>4, <1>5, <1>6, IngressStep

---------------------------------------------------------------------------
(* The theorems.                                                             *)

\* Nothing has been sent at first.
LEMMA GatewayInit == Init => GatewayInv
<1> SUFFICES ASSUME Init PROVE GatewayInv
  OBVIOUS
<1>1. /\ next = 1 /\ senders = <<>> /\ current = {} /\ net = {}
      /\ free = NumFrames /\ releasing = 0 /\ noDevice = 0 /\ workers = <<>> /\ worker = 0
      /\ delivered = <<>>
  BY DEF Init, EgressInit, IngressInit
<1>2. NumFrames \in Nat /\ MaxSenders \in Nat
  BY GatewayAssumption
<1>3. Types(next)
  BY <1>1, <1>2 DEF Types
<1>4. FramesAccounted
  <2>1. Total(workers) = 0
    <3> DEFINE f == [w \in DOMAIN workers |-> Len(workers[w].ring) + Held(workers[w])]
    <3>1. DOMAIN workers = {}
      BY <1>1
    <3>2. Total(workers) = SumFunctionOnSet(f, {})
      BY <3>1 DEF Total, SumFunction
    <3> HIDE DEF f
    <3> QED
      BY <3>2, SumEmpty
  <2> QED
    BY <1>1, <1>2, <2>1, AccountedIs
<1>5. \E sent : History(sent, senders, net, workers, next)
  <2> DEFINE sent == [s \in Streams |-> <<>>]
  <2>1. sent \in [Streams -> Seq(Seq(Sent(next)))]
    OBVIOUS
  <2>2. \A s \in Streams : sent[s] = <<>>
    OBVIOUS
  <2> HIDE DEF sent
  <2>3. Flow(<<>>, next)
    BY DEF Flow
  <2>4. History(sent, senders, net, workers, next)
    BY <1>1, <2>1, <2>2, <2>3 DEF History
  <2> QED
    BY <2>4
<1> QED
  BY <1>3, <1>4, <1>5 DEF GatewayInv

\* Every step keeps the invariant.
LEMMA GatewayNext == GatewayInv /\ [Next]_vars => GatewayInv'
<1> SUFFICES ASSUME GatewayInv, [Next]_vars PROVE GatewayInv'
  OBVIOUS
<1>1. CASE Hosts
  <2>1. UNCHANGED <<ingress, net>>
    BY <1>1 DEF Hosts, network
  <2> QED
    BY <1>1, <2>1, WriteStep, PathsStep, CloseStep DEF Hosts
<1>2. CASE \E s \in DOMAIN senders : SenderRun(s)
  <2>1. PICK s \in DOMAIN senders : SenderRun(s)
    BY <1>2
  <2>2. CASE Skip(s) /\ UNCHANGED <<ingress, network, smooth, heard>>
    <3>1. UNCHANGED <<ingress, net>>
      BY <2>2 DEF network
    <3> QED
      BY <2>2, <3>1, SkipStep
  <2>3. CASE /\ SendFrame(s) /\ net' = net \cup {FrameOf(s)}
             /\ UNCHANGED <<ingress, dups, smooth, heard>>
    <3>1. UNCHANGED ingress
      BY <2>3
    <3> QED
      BY <2>3, <3>1, FrameStep
  <2> QED
    BY <2>1, <2>2, <2>3 DEF SenderRun
<1>3. CASE \E f \in net : Receive(f)
  BY <1>3, ReceiveStep
<1>4. CASE IngressSteps
  <2>1. UNCHANGED <<egress, net>>
    BY <1>4 DEF IngressSteps, network
  <2> QED
    BY <1>4, <2>1, ProcessStep, EndStep, ReleaseStep, DiscardStep DEF IngressSteps
<1>5. CASE UNCHANGED vars
  <2>1. UNCHANGED <<egress, ingress, net>>
    BY <1>5 DEF vars, network
  <2>2. /\ next' = next /\ senders' = senders /\ current' = current /\ net' = net
        /\ free' = free /\ workers' = workers /\ worker' = worker /\ releasing' = releasing
        /\ noDevice' = noDevice /\ delivered' = delivered
    BY <2>1 DEF egress, ingress
  <2>3. Types(next)'
    BY <2>2 DEF GatewayInv, Types
  <2>4. FramesAccounted'
    BY <2>2 DEF GatewayInv, FramesAccounted
  <2>5. PICK sent : History(sent, senders, net, workers, next)
    BY DEF GatewayInv
  <2>6. History(sent, senders', net', workers', next')
    BY <2>2, <2>5
  <2> QED
    BY <2>3, <2>4, <2>6 DEF GatewayInv
<1> QED
  BY <1>1, <1>2, <1>3, <1>4, <1>5 DEF Next

\* The index of a frame that was sent.
LEMMA FrameIsOK ==
  ASSUME NEW n \in Nat, NEW sent, NEW f, GoodFrame(f, sent, n)
  PROVE  f.stream \in Streams /\ FrameOK(f)
<1> DEFINE c == f.cells
           starts == {i \in DOMAIN c : c[i].off = 0}
<1>1. /\ f.stream \in Streams /\ c \in Seq(Sent(n)) /\ f.index \in Nat /\ Len(c) \in 1 .. Mtu
      /\ IndexOK(f.index, c)
  BY DEF GoodFrame, FrameRec
<1>2. DOMAIN c = 1 .. Len(c) /\ Len(c) \in Nat
  BY <1>1
<1>3. CASE f.index = NoStart /\ \A i \in 1 .. Len(c) : c[i].off # 0
  <2>1. starts = {}
    BY <1>2, <1>3
  <2> QED
    BY <1>1, <1>3, <2>1 DEF FrameOK
<1>4. CASE /\ f.index + 1 \in 1 .. Len(c) /\ c[f.index + 1].off = 0
           /\ \A i \in 1 .. f.index : c[i].off # 0
  <2>1. f.index + 1 \in starts
    BY <1>2, <1>4
  <2>2. ASSUME NEW i \in starts PROVE f.index + 1 <= i
    <3>1. i \in 1 .. Len(c) /\ c[i].off = 0
      BY <1>2
    <3>2. i \notin 1 .. f.index
      BY <1>4, <3>1
    <3> QED
      BY <1>1, <1>2, <3>1, <3>2
  <2>3. starts \subseteq Nat
    BY <1>2
  <2> DEFINE m == Min(starts)
  <2>4. m = f.index + 1
    <3> HIDE DEF starts
    <3>1. m \in starts /\ \A i \in starts : m <= i
      BY <2>1, <2>2 DEF Min
    <3>2. m <= f.index + 1 /\ f.index + 1 <= m /\ m \in Nat
      BY <2>1, <2>2, <2>3, <3>1
    <3> HIDE DEF m
    <3> QED
      BY <1>1, <3>2
  <2>5. starts # {} /\ Min(starts) - 1 = f.index
    <3>1. (f.index + 1) - 1 = f.index
      BY <1>1
    <3> QED
      BY <2>1, <2>4, <3>1
  <2> QED
    BY <1>1, <2>5 DEF FrameOK
<1> QED
  BY <1>1, <1>3, <1>4 DEF IndexOK

\* The invariant implies the type invariant.
LEMMA InvType == GatewayInv => TypeOK
<1> SUFFICES ASSUME GatewayInv PROVE TypeOK
  OBVIOUS
<1>1. PICK sent : History(sent, senders, net, workers, next)
  BY DEF GatewayInv
<1>2. /\ next \in Nat /\ workers \in Seq(WorkerRec(next)) /\ worker \in 0 .. Len(workers)
      /\ free \in Nat /\ releasing \in Nat /\ noDevice \in Nat /\ current \subseteq DOMAIN senders
      /\ NumFrames = free + releasing + noDevice + Total(workers) /\ NumFrames \in Nat
      /\ DOMAIN workers = 1 .. Len(workers)
  BY AccountedIs, GatewayAssumption DEF GatewayInv, Types
<1>3. Total(workers) \in Nat
  <2>1. CASE workers = <<>>
    <3> DEFINE f == [w \in DOMAIN workers |-> Len(workers[w].ring) + Held(workers[w])]
    <3>1. Total(workers) = SumFunctionOnSet(f, {})
      BY <2>1 DEF Total, SumFunction
    <3> HIDE DEF f
    <3> QED
      BY <3>1, SumEmpty
  <2>2. CASE workers # <<>>
    <3>1. workers[1] \in WorkerRec(next)
      BY <1>2, <2>2
    <3> QED
      BY <1>2, <3>1, TotalFacts
  <2> QED
    BY <2>1, <2>2
<1>4. free \in 0 .. NumFrames /\ releasing \in 0 .. NumFrames
  BY <1>2, <1>3
<1>5. \A f \in net : f.stream \in Streams /\ FrameOK(f)
  BY <1>1, <1>2, FrameIsOK DEF History
<1>6. ASSUME NEW w \in DOMAIN workers
      PROVE  /\ Len(workers[w].ring) <= WorkerRing
             /\ \A s \in DOMAIN workers[w].lists : Len(workers[w].lists[s]) <= ListCap
  <2>1. GoodWorker(workers[w], sent, next)
    BY <1>1, <1>2 DEF History
  <2> QED
    BY <2>1 DEF GoodWorker, GoodList
<1> QED
  BY <1>2, <1>4, <1>5, <1>6 DEF TypeOK

\* ... and that packets are delivered whole.
LEMMA InvWhole == GatewayInv => WholePackets
<1> SUFFICES ASSUME GatewayInv, NEW i \in DOMAIN delivered
             PROVE  \E p \in 1 .. (next - 1) : p \notin Invalid /\ delivered[i] = Cells(p)
  BY DEF WholePackets
<1>1. next \in Nat /\ delivered[i] \in Whole(next)
  BY DEF GatewayInv, Types
<1>2. PICK p \in Pkts : p < next /\ p \notin Invalid /\ delivered[i] = Cells(p)
  BY <1>1 DEF Whole
<1>3. p \in 1 .. (next - 1)
  BY <1>1, <1>2, PacketFacts
<1> QED
  BY <1>2, <1>3

\* Frames carry an index that points to the first packet that starts in them, rings and
\* lists stay within their bounds, and so do the counters of the pool (encoder.Read,
\* ingressserver.go, rlist.go).
THEOREM GatewayTypeOK == Spec => []TypeOK
<1>1. Init => GatewayInv
  BY GatewayInit
<1>2. GatewayInv /\ [Next]_vars => GatewayInv'
  BY GatewayNext
<1>3. GatewayInv => TypeOK
  BY InvType
<1> QED
  BY <1>1, <1>2, <1>3, PTL DEF Spec

\* No frame buffer is lost, released twice or released while a list refers to it, except
\* those of frames without a device (dispatch, worker.cleanup, rlist.go).
THEOREM GatewayFramesAccounted == Spec => []FramesAccounted
<1>1. Init => GatewayInv
  BY GatewayInit
<1>2. GatewayInv /\ [Next]_vars => GatewayInv'
  BY GatewayNext
<1>3. GatewayInv => FramesAccounted
  BY DEF GatewayInv
<1> QED
  BY <1>1, <1>2, <1>3, PTL DEF Spec

\* Whatever the network does with frames, what is written to the tunnel device are whole
\* packets that hosts sent (tryReassemble, collectAndWrite, ProcessCompletePkts).
THEOREM GatewayWholePackets == Spec => []WholePackets
<1>1. Init => GatewayInv
  BY GatewayInit
<1>2. GatewayInv /\ [Next]_vars => GatewayInv'
  BY GatewayNext
<1>3. GatewayInv => WholePackets
  BY InvWhole
<1> QED
  BY <1>1, <1>2, <1>3, PTL DEF Spec

\* What a list holds is the beginning of one packet that is not complete.
LEMMA BeginningFacts ==
  ASSUME NEW n \in Nat, NEW frames, Flow(frames, n), NEW list, GoodList(list, frames, n),
         list # <<>>
  PROVE  /\ list[1].frag0 # 0
         /\ \E p \in Pkts : \E k \in 1 .. (PktLen[p] - 1) :
              joined(list)[Len(list)] = SubSeq(Cells(p), 1, k)
<1> DEFINE N == Len(list)
           c == joined(list)[N]
           b == list[1]
           p == c[1].pkt
           K == Len(c)
           d == SubSeq(Cells(p), 1, K)
<1>1. /\ Consecutive(list, frames, n) /\ list \in Seq(Buffer(n)) /\ N \in Nat /\ N >= 1
      /\ 1 \in 1 .. N /\ N \in 1 .. N
  <2>1. Consecutive(list, frames, n) /\ list \in Seq(Buffer(n))
    BY DEF GoodList, Consecutive
  <2>2. N \in Nat /\ N # 0
    BY <2>1, EmptySeq
  <2> HIDE DEF N
  <2> QED
    BY <2>1, <2>2
<1>2. Linked(list)
  BY <1>1, ConsecutiveLinked
<1>3. GoodBuf(b, frames, n) /\ b.frag0 # 0 /\ b \in Buffer(n)
  BY <1>1 DEF Consecutive, GoodBuf
<1>4. c \in Seq(Sent(n)) /\ Chain(c) /\ c # <<>> /\ c[1] = b.cells[b.frag0]
  BY <1>1, <1>2, JoinedChain
<1>5. /\ c[1].off = 0 /\ b.pktLen = PktLen[p] /\ b.frag0 \in 1 .. Len(b.cells)
      /\ (Len(b.cells) - b.frag0) + 1 < b.pktLen /\ b.cells \in Seq(Sent(n))
  BY <1>3, <1>4 DEF GoodBuf, Buffer
<1>6. K < PktLen[p]
  <2>1. CASE N = 1
    <3>1. \A k \in 1 .. Len(list) : Part(list, k) \in Seq(Sent(n))
      BY <1>1, <1>2, PartFacts
    <3>2. joined(list)[0] = <<>> /\ joined(list)[1] = joined(list)[1 - 1] \o Part(list, 1)
      BY <1>1, <3>1, JoinedIs
    <3>3. Part(list, 1) \in Seq(Sent(n)) /\ Part(list, 1) = SubSeq(b.cells, b.frag0, Len(b.cells))
      BY <1>1, <3>1 DEF Part
    <3>4. c = SubSeq(b.cells, b.frag0, Len(b.cells))
      <4>1. 1 - 1 = 0
        OBVIOUS
      <4>2. joined(list)[1] = <<>> \o Part(list, 1)
        BY <3>2, <4>1
      <4>3. <<>> \o Part(list, 1) = Part(list, 1)
        BY <3>3, ConcatEmptySeq
      <4>4. c = joined(list)[1]
        BY <2>1
      <4> HIDE DEF c
      <4> QED
        BY <3>3, <4>2, <4>3, <4>4
    <3>5. Len(b.cells) \in Nat /\ b.frag0 \in Nat /\ b.frag0 >= 1 /\ b.frag0 <= Len(b.cells)
      BY <1>5
    <3>6. K = (Len(b.cells) - b.frag0) + 1
      <4>1. Len(SubSeq(b.cells, b.frag0, Len(b.cells))) = (Len(b.cells) - b.frag0) + 1
        BY <1>5, <3>5, SubSeqProperties
      <4> QED
        BY <3>4, <4>1
    <3> QED
      BY ONLY <1>5, <3>6
  <2>2. CASE N # 1
    <3>1. N \in 2 .. N
      <4> HIDE DEF N
      <4> QED
        BY <1>1, <2>2
    <3> QED
      BY <1>5, <3>1 DEF GoodList
  <2> QED
    BY <2>1, <2>2
<1> HIDE DEF c, b, N
<1>7. 1 \in 1 .. K /\ K \in Nat /\ K >= 1
  BY <1>4, EmptySeq
<1>8. c[1] \in Sent(n) /\ p \in Pkts /\ p < n /\ p \notin Invalid /\ PktLen[p] \in Nat
  <2>1. c[1] \in Sent(n)
    BY <1>4, <1>7
  <2> QED
    BY <2>1, SentFacts
<1>9. \A i \in 1 .. K : c[i] = [pkt |-> p, off |-> i - 1]
  <2> SUFFICES ASSUME NEW i \in 1 .. K PROVE c[i] = [pkt |-> p, off |-> i - 1]
    OBVIOUS
  <2>1. \A k \in Nat : k < PktLen[p] /\ 1 + k <= K => c[1 + k] = [pkt |-> p, off |-> k]
    BY <1>4, <1>5, <1>7, ChainInside, ZenonT(30)
  <2>2. i - 1 \in Nat /\ i - 1 < PktLen[p] /\ 1 + (i - 1) <= K /\ 1 + (i - 1) = i
    BY <1>6, <1>7, <1>8
  <2>3. c[1 + (i - 1)] = [pkt |-> p, off |-> i - 1]
    BY <2>1, <2>2
  <2> QED
    BY <2>2, <2>3
<1>10. c = d
  <2>1. /\ Cells(p) \in Seq(Sent(n)) /\ Len(Cells(p)) = PktLen[p] /\ Chain(Cells(p))
        /\ \A i \in 1 .. PktLen[p] : Cells(p)[i] = [pkt |-> p, off |-> i - 1]
    BY <1>8, CellsFacts
  <2> HIDE DEF p
  <2>2. 1 \in Nat /\ 1 >= 1 /\ K <= Len(Cells(p)) /\ 1 <= K + 1 /\ (K - 1) + 1 = K
    BY <1>6, <1>7, <1>8, <2>1
  <2>3. /\ d \in Seq(Sent(n)) /\ Len(d) = (K - 1) + 1
        /\ \A i \in 1 .. ((K - 1) + 1) : d[i] = Cells(p)[(1 + i) - 1]
    BY <1>7, <2>1, <2>2, ChainPart
  <2>4. ASSUME NEW i \in 1 .. K PROVE c[i] = d[i]
    <3>1. (1 + i) - 1 = i /\ i \in 1 .. PktLen[p]
      BY <1>6, <1>7, <1>8
    <3>2. d[i] = Cells(p)[(1 + i) - 1]
      BY <2>2, <2>3
    <3> QED
      BY <1>9, <2>1, <3>1, <3>2
  <2> HIDE DEF d
  <2>5. Len(d) = K
    BY <2>2, <2>3
  <2> QED
    BY <1>4, <2>3, <2>4, <2>5, SeqEqual
<1>11. K \in 1 .. (PktLen[p] - 1)
  BY <1>6, <1>7, <1>8
<1> QED
  BY <1>3, <1>8, <1>10, <1>11 DEF N, c, b

\* ... and that lists hold beginnings of packets.
LEMMA InvBeginnings == GatewayInv => ListsHoldBeginnings
<1> SUFFICES ASSUME GatewayInv, NEW w \in DOMAIN workers, NEW s \in DOMAIN workers[w].lists,
                    workers[w].lists[s] # <<>>
             PROVE  LET list == workers[w].lists[s]
                    IN  /\ list[1].frag0 # 0
                        /\ \E p \in Pkts : \E k \in 1 .. (PktLen[p] - 1) :
                             joined(list)[Len(list)] = SubSeq(Cells(p), 1, k)
  BY DEF ListsHoldBeginnings
<1>1. PICK sent : History(sent, senders, net, workers, next)
  BY DEF GatewayInv
<1>2. next \in Nat /\ w \in 1 .. Len(workers)
  BY DEF GatewayInv, Types
<1>3. GoodWorker(workers[w], sent, next)
  BY <1>1, <1>2 DEF History
<1>4. GoodList(workers[w].lists[s], sent[s], next)
  BY <1>3 DEF GoodWorker
<1>5. s \in Streams
  BY <1>3 DEF GoodWorker, WorkerRec, Lists
<1>6. Flow(sent[s], next)
  BY <1>1, <1>5 DEF History
<1> QED
  BY <1>2, <1>4, <1>6, BeginningFacts

\* What a reassembly list holds between two frames is the beginning of one packet whose end
\* has not come (rlist.go: Insert, tryReassemble, removeProcessed).
THEOREM GatewayListsHoldBeginnings == Spec => []ListsHoldBeginnings
<1>1. Init => GatewayInv
  BY GatewayInit
<1>2. GatewayInv /\ [Next]_vars => GatewayInv'
  BY GatewayNext
<1>3. GatewayInv => ListsHoldBeginnings
  BY InvBeginnings
<1> QED
  BY <1>1, <1>2, <1>3, PTL DEF Spec

---------------------------------------------------------------------------
(* What senders have accepted.                                               *)

\* The cells of the packets in a ring, those that are not valid without any.
Loads(ring) == [i \in DOMAIN ring |-> IF ring[i] \in Invalid THEN <<>> ELSE Cells(ring[i])]

LEMMA PendingIs == \A x : Pending(x) = Cat(x.pkt, FlattenSeq(Loads(x.ring)))
BY DEF Pending, Loads, Cat

\* What a packet adds.
LEMMA LoadFacts ==
  ASSUME NEW n \in Nat, NEW p \in Pkts, p < n
  PROVE  (IF p \in Invalid THEN <<>> ELSE Cells(p)) \in Seq(Sent(n))
<1>1. CASE p \in Invalid
  BY <1>1, EmptySeq
<1>2. CASE p \notin Invalid
  BY <1>2, CellsFacts
<1> QED
  BY <1>1, <1>2

LEMMA LoadsFacts ==
  ASSUME NEW n \in Nat, NEW ring, ring \in Seq({p \in Pkts : p < n})
  PROVE  /\ Loads(ring) \in Seq(Seq(Sent(n))) /\ Len(Loads(ring)) = Len(ring) /\ Len(ring) \in Nat
         /\ \A i \in 1 .. Len(ring) :
              Loads(ring)[i] = IF ring[i] \in Invalid THEN <<>> ELSE Cells(ring[i])
<1> DEFINE T == Seq(Sent(n))
<1>1. Len(ring) \in Nat /\ DOMAIN ring = 1 .. Len(ring) /\ \A i \in 1 .. Len(ring) : ring[i] \in Pkts /\ ring[i] < n
  OBVIOUS
<1>2. \A i \in 1 .. Len(ring) : Loads(ring)[i] = IF ring[i] \in Invalid THEN <<>> ELSE Cells(ring[i])
  BY <1>1 DEF Loads
<1>3. \A i \in 1 .. Len(ring) : Loads(ring)[i] \in T
  BY <1>1, <1>2, LoadFacts
<1>4. Loads(ring) = [i \in 1 .. Len(ring) |-> Loads(ring)[i]]
  BY <1>1 DEF Loads
<1> HIDE DEF T
<1>5. Loads(ring) \in [1 .. Len(ring) -> T]
  BY <1>3, <1>4
<1>6. Loads(ring) \in Seq(T) /\ Len(Loads(ring)) = Len(ring)
  <2>1. Loads(ring) \in Seq(T) /\ DOMAIN Loads(ring) = 1 .. Len(ring)
    BY <1>1, <1>5
  <2> QED
    BY <1>1, <2>1, LenProperties
<1> QED
  BY <1>1, <1>2, <1>6 DEF T

\* One packet more in the ring.
LEMMA LoadsAppend ==
  ASSUME NEW n \in Nat, NEW ring, ring \in Seq({p \in Pkts : p < n}), NEW p \in Pkts, p < n
  PROVE  Loads(Append(ring, p)) = Append(Loads(ring), IF p \in Invalid THEN <<>> ELSE Cells(p))
<1> DEFINE P == {q \in Pkts : q < n}
           c == IF p \in Invalid THEN <<>> ELSE Cells(p)
           longer == Append(ring, p)
           N == Len(ring)
<1>1. p \in P /\ ring \in Seq(P)
  OBVIOUS
<1>2. c \in Seq(Sent(n))
  BY LoadFacts
<1>3. /\ Loads(ring) \in Seq(Seq(Sent(n))) /\ Len(Loads(ring)) = N /\ N \in Nat
      /\ \A i \in 1 .. N : Loads(ring)[i] = IF ring[i] \in Invalid THEN <<>> ELSE Cells(ring[i])
  BY LoadsFacts
<1>4. longer \in Seq(P) /\ Len(longer) = N + 1 /\ longer[N + 1] = p /\ \A i \in 1 .. N : longer[i] = ring[i]
  <2> HIDE DEF P
  <2> QED
    BY <1>1
<1> HIDE DEF longer
<1>5. /\ Loads(longer) \in Seq(Seq(Sent(n))) /\ Len(Loads(longer)) = N + 1
      /\ \A i \in 1 .. (N + 1) : Loads(longer)[i] = IF longer[i] \in Invalid THEN <<>> ELSE Cells(longer[i])
  BY <1>4, LoadsFacts
<1> DEFINE T == Seq(Sent(n))
           a == Loads(ring)
           b == Loads(longer)
           d == Append(a, c)
<1>6. a \in Seq(T) /\ b \in Seq(T) /\ c \in T /\ Len(a) = N /\ Len(b) = N + 1 /\ N \in Nat
  BY <1>2, <1>3, <1>5
<1>7. b[N + 1] = c /\ \A i \in 1 .. N : b[i] = a[i]
  <2>1. N + 1 \in 1 .. (N + 1) /\ \A i \in 1 .. N : i \in 1 .. (N + 1)
    BY <1>3
  <2> QED
    BY <1>3, <1>4, <1>5, <2>1
<1> HIDE DEF a, b, c, T, N
<1>8. d \in Seq(T) /\ Len(d) = N + 1 /\ d[N + 1] = c /\ \A i \in 1 .. N : d[i] = a[i]
  BY <1>6
<1> HIDE DEF d
<1>9. b = d
  <2>1. ASSUME NEW i \in 1 .. Len(b) PROVE b[i] = d[i]
    <3>1. i = N + 1 \/ i \in 1 .. N
      BY <1>6
    <3> QED
      BY <1>7, <1>8, <3>1
  <2> QED
    BY <1>6, <1>8, <2>1, SeqEqual
<1> QED
  BY <1>9 DEF a, b, c, d, longer

\* The ring without its first u packets.
LEMMA LoadsRest ==
  ASSUME NEW n \in Nat, NEW ring, ring \in Seq({p \in Pkts : p < n}), NEW u \in 0 .. Len(ring)
  PROVE  Loads(SubSeq(ring, u + 1, Len(ring))) = SubSeq(Loads(ring), u + 1, Len(ring))
<1> DEFINE P == {q \in Pkts : q < n}
           T == Seq(Sent(n))
           N == Len(ring)
           m == N - u
           rest == SubSeq(ring, u + 1, N)
           a == Loads(ring)
           b == Loads(rest)
           d == SubSeq(a, u + 1, N)
<1>1. /\ a \in Seq(T) /\ Len(a) = N /\ N \in Nat
      /\ \A i \in 1 .. N : a[i] = IF ring[i] \in Invalid THEN <<>> ELSE Cells(ring[i])
  BY LoadsFacts
<1>2. m \in Nat /\ u \in Nat /\ u + 1 \in Int /\ N \in Int /\ ring \in Seq(P) /\ \A i \in (u + 1) .. N : i \in 1 .. N
  BY <1>1
<1>3. \A i \in 1 .. N : ring[i] \in P /\ a[i] \in T
  BY <1>1, <1>2
<1> HIDE DEF P, T, a
<1>4. \A i \in (u + 1) .. N : ring[i] \in P /\ a[i] \in T
  BY <1>2, <1>3
<1>5. /\ (IF u + 1 <= N THEN N - (u + 1) + 1 ELSE 0) = m /\ N - (u + 1) + 1 = m
      /\ \A i \in 1 .. m : (u + 1) + i - 1 = u + i /\ u + i \in 1 .. N
  BY <1>1, <1>2
<1>6. rest \in Seq(P) /\ Len(rest) = m /\ \A i \in 1 .. m : rest[i] = ring[u + i]
  <2>1. /\ rest \in Seq(P) /\ Len(rest) = IF u + 1 <= N THEN N - (u + 1) + 1 ELSE 0
        /\ \A i \in 1 .. N - (u + 1) + 1 : rest[i] = ring[(u + 1) + i - 1]
    BY <1>2, <1>4, SubSeqProperties
  <2> HIDE DEF rest, N, m
  <2> QED
    BY <1>5, <2>1
<1>7. d \in Seq(T) /\ Len(d) = m /\ \A i \in 1 .. m : d[i] = a[u + i]
  <2>1. /\ d \in Seq(T) /\ Len(d) = IF u + 1 <= N THEN N - (u + 1) + 1 ELSE 0
        /\ \A i \in 1 .. N - (u + 1) + 1 : d[i] = a[(u + 1) + i - 1]
    BY <1>2, <1>4, SubSeqProperties
  <2> HIDE DEF d, N, m
  <2> QED
    BY <1>5, <2>1
<1> HIDE DEF rest, d, m, N
<1>8. /\ b \in Seq(T) /\ Len(b) = m
      /\ \A i \in 1 .. m : b[i] = IF rest[i] \in Invalid THEN <<>> ELSE Cells(rest[i])
  BY <1>6, LoadsFacts DEF P, T
<1> HIDE DEF b
<1>9. ASSUME NEW i \in 1 .. m PROVE b[i] = d[i]
  <2>1. u + i \in 1 .. N
    BY <1>5
  <2>2. rest[i] = ring[u + i] /\ d[i] = a[u + i]
    BY <1>6, <1>7
  <2>3. b[i] = IF rest[i] \in Invalid THEN <<>> ELSE Cells(rest[i])
    BY <1>8
  <2>4. a[u + i] = IF ring[u + i] \in Invalid THEN <<>> ELSE Cells(ring[u + i])
    BY <1>1, <2>1
  <2> QED
    BY ONLY <2>2, <2>3, <2>4
<1>10. b = d
  BY <1>7, <1>8, <1>9, SeqEqual
<1> QED
  BY <1>1, <1>10 DEF a, b, d, rest, N

\* copyToFrame keeps all cells, in order.
LEMMA CopyKeeps ==
  ASSUME NEW n \in Nat, NEW e \in FrameState(n), Len(e.cells) <= Mtu, NEW pkt, pkt \in Seq(Sent(n))
  PROVE  LET r == copyToFrame(e, pkt)
         IN  Cat(r.cells, r.rest) = Cat(e.cells, pkt) /\ r.used = e.used
<1> DEFINE r == copyToFrame(e, pkt)
           room == Mtu - Len(e.cells)
           k == IF Len(pkt) < room THEN Len(pkt) ELSE room
           front == SubSeq(pkt, 1, k)
           behind == SubSeq(pkt, k + 1, Len(pkt))
           S == Sent(n)
<1>1. e.cells \in Seq(S) /\ Len(e.cells) \in Nat /\ Len(pkt) \in Nat /\ Mtu \in Nat
  BY PacketFacts DEF FrameState
<1>2. k \in Nat /\ k <= Len(pkt)
  BY <1>1
<1>3. r = [e EXCEPT !.cells = e.cells \o front, !.rest = behind]
  BY DEF copyToFrame
<1>4. r.cells = Cat(e.cells, front) /\ r.rest = behind /\ r.used = e.used
  BY <1>3 DEF FrameState, Cat
<1> HIDE DEF k, r, S
<1>5. front \in Seq(S) /\ behind \in Seq(S) /\ Cat(front, behind) = pkt
  <2>1. pkt \in Seq(S) /\ \A i \in 1 .. Len(pkt) : pkt[i] \in S
    BY DEF S
  <2>2. front \in Seq(S) /\ behind \in Seq(S)
    <3>1. 1 \in Int /\ k \in Int /\ k + 1 \in Int /\ Len(pkt) \in Int
          /\ (\A i \in 1 .. k : pkt[i] \in S) /\ \A i \in (k + 1) .. Len(pkt) : pkt[i] \in S
      BY <1>1, <1>2, <2>1
    <3> QED
      BY <3>1, SubSeqProperties
  <2>3. SubSeq(pkt, 1, k) \o SubSeq(pkt, k + 1, Len(pkt)) = pkt
    <3>1. k \in 0 .. Len(pkt)
      BY <1>1, <1>2
    <3>2. SubSeq(pkt, 1, Len(pkt)) = pkt
      BY <2>1, SubSeqFull
    <3>3. SubSeq(pkt, 1, k) \o SubSeq(pkt, k + 1, Len(pkt)) = SubSeq(pkt, 1, Len(pkt))
      <4>1. 1 \in 1 .. Len(pkt) + 1 /\ k \in (1 - 1) .. Len(pkt) /\ Len(pkt) \in k .. Len(pkt)
        BY <1>1, <1>2
      <4> QED
        BY <1>1, <1>2, <2>1, <4>1, ConcatAdjacentSubSeq
    <3> QED
      BY <3>2, <3>3
  <2> QED
    BY <2>2, <2>3 DEF Cat
<1> HIDE DEF front, behind
<1>6. Cat(Cat(e.cells, front), behind) = Cat(e.cells, Cat(front, behind))
  <2> DEFINE c == e.cells
  <2> HIDE DEF c
  <2>1. c \in Seq(S)
    BY <1>1 DEF c
  <2>2. Cat(Cat(c, front), behind) = Cat(c, Cat(front, behind))
    BY <1>5, <2>1, CatFacts
  <2> QED
    BY <2>2 DEF c
<1>7. Cat(r.cells, r.rest) = Cat(e.cells, pkt) /\ r.used = e.used
  BY <1>4, <1>5, <1>6
<1> QED
  BY <1>7 DEF r

\* A frame is made of what remained of the last packet and of the packets used, the
\* last of them perhaps not whole; a frame with room took all there are.
LEMMA EncodeKeeps ==
  ASSUME NEW n \in Nat, NEW x \in SenderRec(n), Remains(x.pkt, n),
         NEW h, IsFlat(h, Loads(x.ring), Sent(n))
  PROVE  LET e == encode(x)
         IN  /\ e.used \in 0 .. Len(x.ring)
             /\ Cat(e.cells, e.rest) = Cat(x.pkt, h[e.used])
             /\ fits(e) => e.used = Len(x.ring)
<1> DEFINE S == Sent(n)
           N == Len(x.ring)
<1>1. x.ring \in Seq({p \in Pkts : p < n})
  BY DEF SenderRec
<1>2. PICK g : /\ encode(x) = g[N] /\ g[0] = copyToFrame(Empty, x.pkt)
               /\ \A k \in 1 .. N : g[k] = IF fits(g[k - 1]) THEN addPacket(g[k - 1], x.ring[k]) ELSE g[k - 1]
               /\ \A k \in 0 .. N : Encoding(g[k], x.pkt, n)
  BY <1>1, EncodeLoop
<1>3. /\ N \in Nat /\ Len(Loads(x.ring)) = N
      /\ \A i \in 1 .. N : Loads(x.ring)[i] = IF x.ring[i] \in Invalid THEN <<>> ELSE Cells(x.ring[i])
  BY <1>1, LoadsFacts
<1>4. /\ h \in [0 .. N -> Seq(S)] /\ h[0] = <<>>
      /\ \A k \in 1 .. N : h[k] = Cat(h[k - 1], Loads(x.ring)[k])
  BY <1>3 DEF IsFlat
<1>5. x.pkt \in Seq(S) /\ \A i \in 1 .. N : x.ring[i] \in Pkts /\ x.ring[i] < n
  BY <1>1 DEF SenderRec
<1> DEFINE Good(k) == /\ g[k].used \in 0 .. k /\ Cat(g[k].cells, g[k].rest) = Cat(x.pkt, h[g[k].used])
                      /\ fits(g[k]) => g[k].used = k
           P == {k \in 0 .. N : Good(k)}
<1> HIDE DEF N
<1>6. \A k \in 0 .. N : g[k] \in FrameState(n) /\ Len(g[k].cells) <= Mtu /\ Remains(g[k].rest, n)
  BY <1>2 DEF Encoding
<1> HIDE DEF S
<1>7. 0 \in P
  <2>1. Empty \in FrameState(n) /\ Empty.cells = <<>> /\ Empty.used = 0 /\ Len(Empty.cells) <= Mtu
    BY PacketFacts DEF Empty, FrameState
  <2>2. Cat(g[0].cells, g[0].rest) = Cat(Empty.cells, x.pkt) /\ g[0].used = Empty.used
    BY <1>2, <1>5, <2>1, CopyKeeps DEF S
  <2>3. Cat(<<>>, x.pkt) = x.pkt /\ Cat(x.pkt, <<>>) = x.pkt
    <3>1. \A s \in Seq(S) : Cat(<<>>, s) = s /\ Cat(s, <<>>) = s
      BY CatFacts
    <3> QED
      BY <1>5, <3>1
  <2> QED
    BY <1>3, <1>4, <2>1, <2>2, <2>3
<1>8. ASSUME NEW k \in 1 .. N, k - 1 \in P PROVE k \in P
  <2>1. k - 1 \in 0 .. N /\ k \in 0 .. N
    BY <1>3
  <2> DEFINE e == g[k - 1]
             p == x.ring[k]
  <2>2. e \in FrameState(n) /\ Len(e.cells) <= Mtu /\ Good(k - 1) /\ p \in Pkts /\ p < n
    BY <1>5, <1>6, <1>8, <2>1
  <2>3. CASE ~fits(e)
    <3>1. g[k] = e
      BY <1>2, <2>3
    <3>2. e.used \in 0 .. (k - 1) /\ e.used \in 0 .. k
      BY <2>1, <2>2
    <3> QED
      BY <2>1, <2>2, <2>3, <3>1, <3>2
  <2>4. CASE fits(e)
    <3>1. g[k] = addPacket(e, p) /\ e.used = k - 1 /\ e.rest = <<>> /\ e.used + 1 = k
      BY <1>2, <2>1, <2>2, <2>4 DEF fits
    <3>2. h[k] = Cat(h[k - 1], Loads(x.ring)[k]) /\ h[k - 1] \in Seq(S)
      BY <1>4, <2>1
    <3>3. e.cells \in Seq(S) /\ Cat(e.cells, <<>>) = Cat(x.pkt, h[k - 1])
      BY <2>2, <3>1 DEF FrameState, S
    <3>4. e.cells = Cat(x.pkt, h[k - 1])
      <4>1. \A s \in Seq(S) : Cat(s, <<>>) = s
        BY CatFacts
      <4> QED
        BY <3>3, <4>1
    <3>5. g[k].used = k /\ Cat(g[k].cells, g[k].rest) = Cat(e.cells, Loads(x.ring)[k])
      <4>1. CASE p \in Invalid
        <5>1. g[k] = [e EXCEPT !.used = e.used + 1]
          BY <3>1, <4>1 DEF addPacket
        <5>2. g[k].used = k /\ g[k].cells = e.cells /\ g[k].rest = <<>>
          BY <2>2, <3>1, <5>1 DEF FrameState
        <5> QED
          BY <1>3, <4>1, <5>2
      <4>2. CASE p \notin Invalid
        <5> DEFINE i == IF e.index = NoStart THEN Len(e.cells) ELSE e.index
                   d == [e EXCEPT !.used = e.used + 1, !.index = i]
        <5>1. g[k] = copyToFrame(d, Cells(p))
          BY <3>1, <4>2 DEF addPacket
        <5>2. i \in Nat
          BY <2>2 DEF FrameState
        <5> HIDE DEF i
        <5>3. d \in FrameState(n) /\ d.cells = e.cells /\ d.used = k
          <6> DEFINE d1 == [e EXCEPT !.used = e.used + 1]
          <6>1. d1 \in FrameState(n) /\ d1.cells = e.cells /\ d1.used = k
            <7>1. e.used \in Nat /\ e.used + 1 \in Nat /\ e.used + 1 = k /\ e \in FrameState(n)
              BY <2>1, <2>2, <3>1 DEF FrameState
            <7> HIDE DEF e
            <7> QED
              BY ONLY <7>1 DEF FrameState
          <6>2. d = [d1 EXCEPT !.index = i]
            BY <2>2 DEF FrameState
          <6> HIDE DEF d1, d, e
          <6> QED
            BY <5>2, <6>1, <6>2 DEF FrameState
        <5> HIDE DEF d
        <5>4. Cells(p) \in Seq(Sent(n))
          BY <2>2, <4>2, CellsFacts
        <5>5. Cat(g[k].cells, g[k].rest) = Cat(d.cells, Cells(p)) /\ g[k].used = d.used
          BY <2>2, <5>1, <5>3, <5>4, CopyKeeps
        <5> QED
          BY <1>3, <4>2, <5>3, <5>5
      <4> QED
        BY <4>1, <4>2
    <3>6. Cat(Cat(x.pkt, h[k - 1]), Loads(x.ring)[k]) = Cat(x.pkt, Cat(h[k - 1], Loads(x.ring)[k]))
      <4> DEFINE a == x.pkt
                 b == h[k - 1]
                 c == Loads(x.ring)[k]
      <4>1. a \in Seq(S) /\ b \in Seq(S) /\ c \in Seq(S)
        BY <1>3, <1>5, <2>2, <3>2, LoadFacts DEF S
      <4> HIDE DEF a, b, c
      <4>2. Cat(Cat(a, b), c) = Cat(a, Cat(b, c))
        BY <4>1, CatFacts
      <4> QED
        BY <4>2 DEF a, b, c
    <3>7. Cat(g[k].cells, g[k].rest) = Cat(x.pkt, h[k])
      BY <3>2, <3>4, <3>5, <3>6
    <3> QED
      BY <2>1, <3>5, <3>7
  <2> QED
    BY <2>3, <2>4
<1> HIDE DEF P
<1>9. \A k \in 0 .. N : k \in P
  BY <1>3, <1>7, <1>8, LoopInduction
<1>10. Good(N)
  BY <1>3, <1>9 DEF P
<1> QED
  BY <1>2, <1>10 DEF N

\* What s has sent in this step.
SentBy(s) == LET new == {f \in net' \ net : f.stream = s}
             IN  IF new = {} THEN <<>> ELSE (CHOOSE f \in new : TRUE).cells

\* What SendersKeepAll says of the step of one sender.
Keeps(before, sent, after) ==
  IsPrefix(before, sent \o after) /\ (sent # <<>> => sent \o after = before)

LEMMA PendingType ==
  ASSUME NEW n \in Nat, NEW x \in SenderRec(n)
  PROVE  Pending(x) \in Seq(Sent(n))
<1>1. x.ring \in Seq({p \in Pkts : p < n}) /\ x.pkt \in Seq(Sent(n))
  BY DEF SenderRec
<1>2. FlattenSeq(Loads(x.ring)) \in Seq(Sent(n))
  BY <1>1, LoadsFacts, FlatExists, FlattenIs
<1> DEFINE S == Sent(n)
           a == x.pkt
           b == FlattenSeq(Loads(x.ring))
<1> HIDE DEF S, a, b
<1>3. a \in Seq(S) /\ b \in Seq(S)
  BY <1>1, <1>2 DEF S, a, b
<1>4. Cat(a, b) \in Seq(S)
  BY <1>3, CatFacts
<1> QED
  BY <1>4, PendingIs DEF S, a, b

\* A sequence begins with itself, also when more is behind it.
LEMMA KeepsMore ==
  ASSUME NEW S, NEW before, before \in Seq(S), NEW more, more \in Seq(S)
  PROVE  Keeps(before, <<>>, before \o more)
<1> DEFINE all == before \o more
           N == Len(before)
<1>1. /\ all \in Seq(S) /\ Len(all) = N + Len(more) /\ N \in Nat /\ Len(more) \in Nat
      /\ \A i \in 1 .. N : all[i] = before[i]
  OBVIOUS
<1>2. <<>> \o all = all
  BY <1>1, ConcatEmptySeq
<1> HIDE DEF all
<1>3. SubSeq(before, 1, N) = SubSeq(all, 1, N)
  <2>1. /\ SubSeq(before, 1, N) \in Seq(S) /\ Len(SubSeq(before, 1, N)) = N
        /\ \A i \in 1 .. N : SubSeq(before, 1, N)[i] = before[i]
    BY <1>1
  <2>2. /\ SubSeq(all, 1, N) \in Seq(S) /\ Len(SubSeq(all, 1, N)) = N
        /\ \A i \in 1 .. N : SubSeq(all, 1, N)[i] = all[i]
    BY <1>1
  <2> QED
    BY <1>1, <2>1, <2>2, SeqEqual
<1> QED
  BY <1>1, <1>2, <1>3 DEF Keeps, IsPrefix, all

LEMMA KeepsSame ==
  ASSUME NEW S, NEW before, before \in Seq(S)
  PROVE  Keeps(before, <<>>, before)
<1>1. before \o <<>> = before /\ <<>> \in Seq(S)
  BY ConcatEmptySeq
<1> QED
  BY <1>1, KeepsMore

\* Closing senders and making new ones leaves what the others have.
LEMMA EmptyPending ==
  ASSUME NEW x, x.pkt = <<>>, x.ring = <<>>
  PROVE  Pending(x) = <<>>
<1>1. <<>> \in Seq({p \in Pkts : p < 0}) /\ Len(<<>>) = 0 /\ 0 \in Nat
  OBVIOUS
<1>2. Loads(<<>>) \in Seq(Seq(Sent(0))) /\ Len(Loads(<<>>)) = 0
  BY <1>1, LoadsFacts
<1>3. PICK h : IsFlat(h, Loads(<<>>), Sent(0))
  BY <1>2, FlatExists
<1>4. FlattenSeq(Loads(<<>>)) = h[Len(Loads(<<>>))]
  BY <1>2, <1>3, FlattenIs
<1>5. FlattenSeq(Loads(<<>>)) = <<>>
  BY <1>2, <1>3, <1>4 DEF IsFlat
<1>6. Cat(<<>>, <<>>) = <<>>
  BY DEF Cat
<1> QED
  BY <1>5, <1>6, PendingIs

LEMMA KeepClosed ==
  ASSUME NEW n \in Nat, NEW list, list \in Seq(SenderRec(n)), NEW set, NEW s \in 1 .. Len(list)
  PROVE  Pending(CloseAll(set, list)[s]) = Pending(list[s])
<1>1. list[s] \in SenderRec(n) /\ s \in DOMAIN list
  OBVIOUS
<1>2. CloseAll(set, list)[s] = IF s \in set THEN [list[s] EXCEPT !.closed = TRUE] ELSE list[s]
  BY <1>1 DEF CloseAll
<1>3. CloseAll(set, list)[s].pkt = list[s].pkt /\ CloseAll(set, list)[s].ring = list[s].ring
  BY <1>1, <1>2 DEF SenderRec
<1> QED
  BY <1>3 DEF Pending

\* Session.SetPaths: new senders have nothing to send.
LEMMA KeepPaths ==
  ASSUME GatewayInv, SetPaths
  PROVE  /\ Len(senders') \in Nat /\ Len(senders) <= Len(senders')
         /\ \A s \in 1 .. Len(senders') :
              Pending(senders'[s]) = IF s <= Len(senders) THEN Pending(senders[s]) ELSE <<>>
<1> DEFINE n == next
<1>1. n \in Nat /\ senders \in Seq(SenderRec(n)) /\ Len(senders) \in Nat
  BY DEF GatewayInv, Types
<1>2. PICK paths \in SUBSET Paths :
        LET kept == {t \in current : senders[t].path \in paths}
            missing == paths \ {senders[t].path : t \in kept}
            ok == missing \cap Narrow = {}
        IN  \E made \in (IF ok THEN {missing} ELSE SUBSET (missing \ Narrow)) :
              LET order == SetToSeq(made)
                  grown == senders \o [i \in DOMAIN order |-> NewSender(order[i])]
                  new == (DOMAIN grown) \ DOMAIN senders
              IN  \/ senders' = CloseAll(current \ kept, grown)
                  \/ senders' = CloseAll(new, grown)
  BY DEF SetPaths
<1> DEFINE kept == {t \in current : senders[t].path \in paths}
           missing == paths \ {senders[t].path : t \in kept}
           ok == missing \cap Narrow = {}
<1> HIDE DEF kept
<1>3. PICK made \in (IF ok THEN {missing} ELSE SUBSET (missing \ Narrow)) :
              LET order == SetToSeq(made)
                  grown == senders \o [i \in DOMAIN order |-> NewSender(order[i])]
                  new == (DOMAIN grown) \ DOMAIN senders
              IN  \/ senders' = CloseAll(current \ kept, grown)
                  \/ senders' = CloseAll(new, grown)
  BY <1>2 DEF kept
<1>4. made \subseteq Paths
  BY <1>3
<1> DEFINE order == SetToSeq(made)
           grown == senders \o [i \in DOMAIN order |-> NewSender(order[i])]
           new == (DOMAIN grown) \ DOMAIN senders
<1>5. \/ senders' = CloseAll(current \ kept, grown)
      \/ senders' = CloseAll(new, grown)
  BY <1>3
<1>6. /\ Cardinality(made) \in Nat /\ grown \in Seq(SenderRec(n)) /\ Len(grown) = Len(senders) + Cardinality(made)
      /\ \A t \in 1 .. Len(senders) : grown[t] = senders[t]
      /\ \A t \in (Len(senders) + 1) .. Len(grown) : grown[t].pkt = <<>> /\ grown[t].ring = <<>>
  BY <1>1, <1>4, GrownFacts
<1> HIDE DEF grown, order, new
<1>7. /\ Len(senders') = Len(grown)
      /\ \A s \in 1 .. Len(grown) : Pending(senders'[s]) = Pending(grown[s])
  <2>1. \A set : Len(CloseAll(set, grown)) = Len(grown)
    BY <1>1, <1>6, CloseAllFacts
  <2>2. \A set : \A s \in 1 .. Len(grown) : Pending(CloseAll(set, grown)[s]) = Pending(grown[s])
    BY <1>1, <1>6, KeepClosed
  <2> QED
    BY <1>5, <2>1, <2>2
<1>8. ASSUME NEW s \in 1 .. Len(grown)
      PROVE  Pending(grown[s]) = IF s <= Len(senders) THEN Pending(senders[s]) ELSE <<>>
  <2>1. CASE s <= Len(senders)
    BY <1>1, <1>6, <2>1
  <2>2. CASE ~(s <= Len(senders))
    <3>1. s \in (Len(senders) + 1) .. Len(grown)
      BY <1>1, <1>6, <2>2
    <3>2. grown[s].pkt = <<>> /\ grown[s].ring = <<>>
      BY <1>6, <3>1
    <3> QED
      BY <2>2, <3>2, EmptyPending
  <2> QED
    BY <2>1, <2>2
<1>9. Len(grown) \in Nat /\ Len(senders) <= Len(grown)
  BY <1>1, <1>6
<1> QED
  BY <1>7, <1>8, <1>9

\* Session.Write appends a packet to one ring.
LEMMA WriteKeeps ==
  ASSUME GatewayInv, next \in Pkts, NEW s \in current,
         senders' = [senders EXCEPT ![s].ring = Append(@, next)]
  PROVE  LET c == IF next \in Invalid THEN <<>> ELSE Cells(next)
         IN  c \in Seq(Sent(next + 1)) /\ Pending(senders'[s]) = Pending(senders[s]) \o c
<1> DEFINE n == next
           m == next + 1
           x == senders[s]
           c == IF n \in Invalid THEN <<>> ELSE Cells(n)
           S == Sent(m)
<1>1. n \in Nat /\ senders \in Seq(SenderRec(n)) /\ Len(senders) \in Nat /\ s \in 1 .. Len(senders)
      /\ DOMAIN senders = 1 .. Len(senders) /\ m \in Nat /\ n < m
  <2>1. n \in Nat /\ senders \in Seq(SenderRec(n)) /\ s \in DOMAIN senders
    BY DEF GatewayInv, Types
  <2> QED
    BY <2>1
<1>2. x \in SenderRec(n) /\ Pending(x) \in Seq(Sent(n))
  BY <1>1, PendingType
<1>3. senders'[s] = [x EXCEPT !.ring = Append(x.ring, n)]
  BY <1>1
<1>4. senders'[s].pkt = x.pkt /\ senders'[s].ring = Append(x.ring, n) /\ x.ring \in Seq({p \in Pkts : p < n})
  BY <1>2, <1>3 DEF SenderRec
<1>5. n \in Pkts
  OBVIOUS
<1>6. x.ring \in Seq({p \in Pkts : p < m})
  <2>1. {p \in Pkts : p < n} \subseteq {p \in Pkts : p < m}
    BY <1>1, PacketFacts
  <2> QED
    BY <1>4, <2>1
<1>7. Loads(Append(x.ring, n)) = Append(Loads(x.ring), c) /\ c \in Seq(S)
  BY <1>1, <1>5, <1>6, LoadsAppend, LoadFacts
<1>8. Loads(x.ring) \in Seq(Seq(S))
  BY <1>1, <1>6, LoadsFacts
<1> HIDE DEF c
<1>9. FlattenSeq(Append(Loads(x.ring), c)) = Cat(FlattenSeq(Loads(x.ring)), c)
  BY <1>7, <1>8, FlattenAppend DEF Cat
<1>10. FlattenSeq(Loads(x.ring)) \in Seq(S)
  BY <1>8, FlatExists, FlattenIs
<1>11. x.pkt \in Seq(S) /\ Pending(x) \in Seq(S)
  <2>1. Sent(n) \subseteq S
    BY <1>1, SentMonotone
  <2>2. Seq(Sent(n)) \subseteq Seq(S)
    BY <2>1
  <2> QED
    BY <1>2, <2>2 DEF SenderRec
<1> DEFINE a == x.pkt
           b == FlattenSeq(Loads(x.ring))
           before == Pending(x)
<1>12. a \in Seq(S) /\ b \in Seq(S) /\ before \in Seq(S)
  BY <1>10, <1>11
<1>13. before = Cat(a, b)
  BY PendingIs
<1>14. Pending(senders'[s]) = Cat(a, Cat(b, c))
  <2>1. Pending(senders'[s]) = Cat(senders'[s].pkt, FlattenSeq(Loads(senders'[s].ring)))
    BY PendingIs
  <2> QED
    BY <1>4, <1>7, <1>9, <2>1
<1> HIDE DEF a, b, before
<1>15. Cat(Cat(a, b), c) = Cat(a, Cat(b, c))
  <2> HIDE DEF S
  <2> QED
    BY <1>7, <1>12, CatFacts
<1>16. Pending(senders'[s]) = before \o c
  BY <1>13, <1>14, <1>15 DEF Cat
<1> QED
  BY <1>7, <1>16 DEF before, c

LEMMA KeepWrite ==
  ASSUME GatewayInv, SessionWrite, NEW s \in DOMAIN senders
  PROVE  Keeps(Pending(senders[s]), <<>>, Pending(senders'[s]))
<1> DEFINE n == next
           x == senders[s]
           before == Pending(x)
           c == IF next \in Invalid THEN <<>> ELSE Cells(next)
           S == Sent(next + 1)
<1>1. n \in Nat /\ senders \in Seq(SenderRec(n)) /\ Len(senders) \in Nat /\ s \in 1 .. Len(senders)
      /\ DOMAIN senders = 1 .. Len(senders) /\ n + 1 \in Nat /\ n < n + 1 /\ n \in Pkts
  BY DEF GatewayInv, Types, SessionWrite
<1>2. before \in Seq(Sent(n))
  BY <1>1, PendingType
<1>3. CASE senders'[s] = senders[s]
  BY <1>2, <1>3, KeepsSame
<1>4. CASE senders'[s] # senders[s]
  <2>1. PICK t \in current : senders' = [senders EXCEPT ![t].ring = Append(@, next)]
    BY <1>4 DEF SessionWrite
  <2>2. t = s
    BY <1>1, <1>4, <2>1
  <2>3. c \in Seq(S) /\ Pending(senders'[s]) = before \o c
    BY <1>1, <2>1, <2>2, WriteKeeps
  <2>4. before \in Seq(S)
    <3>1. Sent(n) \subseteq S
      BY <1>1, SentMonotone
    <3>2. Seq(Sent(n)) \subseteq Seq(S)
      BY <3>1
    <3> QED
      BY <1>2, <3>2
  <2> HIDE DEF before, c, S
  <2>5. Keeps(before, <<>>, before \o c)
    BY <2>3, <2>4, KeepsMore
  <2> QED
    BY <2>3, <2>5 DEF before
<1> QED
  BY <1>3, <1>4

\* encoder.Read found only packets that are not valid.
LEMMA SkipKeeps ==
  ASSUME GatewayInv, NEW s \in DOMAIN senders, Skip(s)
  PROVE  Pending(senders[s]) = <<>> /\ Pending(senders'[s]) = <<>>
<1> DEFINE n == next
           x == senders[s]
           e == encode(x)
<1>1. n \in Nat /\ senders \in Seq(SenderRec(n)) /\ Len(senders) \in Nat /\ s \in 1 .. Len(senders)
      /\ DOMAIN senders = 1 .. Len(senders)
  BY DEF GatewayInv, Types
<1>2. x \in SenderRec(n)
  BY <1>1
<1>3. PICK sent : History(sent, senders, net, workers, n)
  BY DEF GatewayInv
<1>4. Remains(x.pkt, n) /\ x.ring \in Seq({p \in Pkts : p < n}) /\ x.pkt \in Seq(Sent(n))
  <2>1. GoodSender(x, sent[s], n)
    BY <1>1, <1>3 DEF History
  <2> QED
    BY <1>2, <2>1 DEF GoodSender, SenderRec
<1>5. e.cells = <<>> /\ senders' = [senders EXCEPT ![s].ring = <<>>, ![s].ended = senders[s].closed]
  BY DEF Skip
<1>6. Encoding(e, x.pkt, n)
  BY <1>1, <1>4, EncodeFacts
<1>7. PICK h : IsFlat(h, Loads(x.ring), Sent(n))
  BY <1>1, <1>4, LoadsFacts, FlatExists
<1>8. e.used \in 0 .. Len(x.ring) /\ Cat(e.cells, e.rest) = Cat(x.pkt, h[e.used])
      /\ (fits(e) => e.used = Len(x.ring))
  BY <1>1, <1>2, <1>4, <1>7, EncodeKeeps
<1> HIDE DEF e
<1>9. e.rest = <<>> /\ fits(e)
  BY <1>5, <1>6, PacketFacts DEF Encoding, fits
<1>10. Cat(<<>>, <<>>) = <<>>
  BY DEF Cat
<1>11. Len(Loads(x.ring)) = Len(x.ring) /\ Loads(x.ring) \in Seq(Seq(Sent(n)))
  BY <1>1, <1>4, LoadsFacts
<1> DEFINE a == x.pkt
           b == FlattenSeq(Loads(x.ring))
           S == Sent(n)
<1>12. b = h[Len(x.ring)] /\ b \in Seq(S) /\ a \in Seq(S)
  <2>1. b = h[Len(Loads(x.ring))] /\ b \in Seq(S)
    BY <1>7, <1>11, FlattenIs
  <2> QED
    BY <1>4, <1>11, <2>1
<1>13. Cat(a, b) = <<>> /\ Pending(x) = Cat(a, b)
  BY <1>5, <1>8, <1>9, <1>10, <1>12, PendingIs
<1> HIDE DEF a, b, S
<1>14. a = <<>>
  <2>1. Len(a) \in Nat /\ Len(b) \in Nat /\ Len(Cat(a, b)) = Len(a) + Len(b) /\ Len(<<>>) = 0
    BY <1>12 DEF Cat
  <2>2. Len(a) = 0
    BY <1>13, <2>1
  <2> QED
    BY <1>12, <2>2, EmptySeq
<1>15. senders'[s].pkt = a /\ senders'[s].ring = <<>>
  <2>1. senders'[s] = [[x EXCEPT !.ring = <<>>] EXCEPT !.ended = x.closed]
    BY <1>1, <1>5
  <2> QED
    BY <1>2, <2>1 DEF SenderRec, a
<1>16. Pending(senders'[s]) = <<>>
  BY <1>14, <1>15, EmptyPending
<1> QED
  BY <1>13, <1>16

LEMMA KeepSkip ==
  ASSUME GatewayInv, NEW t \in DOMAIN senders, Skip(t), NEW s \in DOMAIN senders
  PROVE  Pending(senders'[s]) = Pending(senders[s])
<1>1. senders \in Seq(SenderRec(next)) /\ DOMAIN senders = 1 .. Len(senders)
  BY DEF GatewayInv, Types
<1>2. CASE t # s
  BY <1>1, <1>2 DEF Skip
<1>3. CASE t = s
  BY <1>3, SkipKeeps
<1> QED
  BY <1>2, <1>3

\* encoder.Read and the write of the frame: what is gone from the sender is in the frame.
LEMMA FrameKeeps ==
  ASSUME GatewayInv, NEW s \in DOMAIN senders, SendFrame(s), net' = net \cup {FrameOf(s)}
  PROVE  /\ FrameOf(s).cells \in Seq(Sent(next)) /\ FrameOf(s).cells # <<>>
         /\ Pending(senders'[s]) \in Seq(Sent(next)) /\ SentBy(s) = FrameOf(s).cells
         /\ FrameOf(s).cells \o Pending(senders'[s]) = Pending(senders[s])
<1> DEFINE n == next
           x == senders[s]
           e == encode(x)
           new == {g \in net' \ net : g.stream = s}
<1>1. n \in Nat /\ senders \in Seq(SenderRec(n)) /\ Len(senders) \in Nat /\ s \in 1 .. Len(senders)
      /\ DOMAIN senders = 1 .. Len(senders)
  BY DEF GatewayInv, Types
<1>2. x \in SenderRec(n) /\ Pending(x) \in Seq(Sent(n))
  BY <1>1, PendingType
<1>3. PICK sent : History(sent, senders, net, workers, n)
  BY DEF GatewayInv
<1>4. GoodSender(x, sent[s], n)
  BY <1>1, <1>3 DEF History
<1>5. Remains(x.pkt, n) /\ x.ring \in Seq({p \in Pkts : p < n}) /\ x.seq = Len(sent[s]) /\ x.seq \in Nat
  BY <1>2, <1>4 DEF GoodSender, SenderRec
<1> DEFINE f == FrameOf(s)
<1>6. f.stream = s /\ f.seq = x.seq /\ f.cells = e.cells
  BY DEF FrameOf
<1>7. f \notin net
  <2> SUFFICES ASSUME f \in net PROVE FALSE
    OBVIOUS
  <2>1. GoodFrame(f, sent, n)
    BY <1>3 DEF History
  <2>2. x.seq + 1 \in 1 .. Len(sent[s])
    BY <1>6, <2>1 DEF GoodFrame
  <2> QED
    BY <1>5, <2>2
<1>8. new = {f}
  BY <1>6, <1>7
<1>9. SentBy(s) = e.cells
  BY <1>6, <1>8 DEF SentBy
<1>10. /\ e.cells # <<>>
      /\ senders' = [senders EXCEPT ![s].ring = SubSeq(@, e.used + 1, Len(@)),
                                    ![s].pkt = e.rest, ![s].seq = @ + 1]
  BY DEF SendFrame
<1> DEFINE ring == SubSeq(x.ring, e.used + 1, Len(x.ring))
<1>11. senders'[s].pkt = e.rest /\ senders'[s].ring = ring
  <2>1. senders'[s] = [[[x EXCEPT !.ring = ring] EXCEPT !.pkt = e.rest] EXCEPT !.seq = x.seq + 1]
    BY <1>1, <1>10
  <2> QED
    BY <1>2, <2>1 DEF SenderRec
<1>12. Encoding(e, x.pkt, n)
  BY <1>1, <1>5, EncodeFacts
<1>13. PICK h : IsFlat(h, Loads(x.ring), Sent(n))
  BY <1>1, <1>5, LoadsFacts, FlatExists
<1>14. e.used \in 0 .. Len(x.ring) /\ Cat(e.cells, e.rest) = Cat(x.pkt, h[e.used])
  BY <1>1, <1>2, <1>5, <1>13, EncodeKeeps
<1>15. e.cells \in Seq(Sent(n)) /\ e.rest \in Seq(Sent(n))
  BY <1>12 DEF Encoding, FrameState
<1> HIDE DEF e
<1>16. Len(Loads(x.ring)) = Len(x.ring) /\ Loads(x.ring) \in Seq(Seq(Sent(n))) /\ Len(x.ring) \in Nat
  BY <1>1, <1>5, LoadsFacts
<1> DEFINE u == e.used
           all == Loads(x.ring)
           N == Len(x.ring)
           S == Sent(n)
<1>17. Loads(ring) = SubSeq(all, u + 1, N)
  BY <1>1, <1>5, <1>14, LoadsRest
<1>18. h \in [0 .. N -> Seq(S)]
  BY <1>13, <1>16 DEF IsFlat
<1> HIDE DEF u, all, N, S, ring
<1>19. /\ all \in Seq(Seq(S)) /\ Len(all) = N /\ N \in Nat /\ u \in 0 .. N /\ u \in 0 .. Len(all)
       /\ IsFlat(h, all, S)
  BY <1>13, <1>14, <1>16 DEF u, all, N, S
<1>20. h[u] \o FlattenSeq(SubSeq(all, u + 1, Len(all))) = h[Len(all)]
  BY <1>19, FlattenRest
<1>21. Cat(h[u], FlattenSeq(Loads(ring))) = h[N]
  BY <1>17, <1>19, <1>20 DEF Cat
<1>22. FlattenSeq(all) = h[N]
  BY <1>19, FlattenIs
<1>23. h[u] \in Seq(S) /\ FlattenSeq(Loads(ring)) \in Seq(S) /\ x.pkt \in Seq(S)
  <2>1. SubSeq(all, u + 1, N) \in Seq(Seq(S))
    <3> DEFINE T == Seq(S)
    <3> HIDE DEF T
    <3>1. all \in Seq(T) /\ u + 1 \in Int /\ N \in Int /\ \A i \in (u + 1) .. N : all[i] \in T
      <4>1. all \in Seq(T) /\ u \in 0 .. N /\ N \in Nat /\ Len(all) = N
        BY <1>19 DEF T
      <4> QED
        BY ONLY <4>1
    <3>2. SubSeq(all, u + 1, N) \in Seq(T)
      BY <3>1, SubSeqProperties
    <3> QED
      BY <3>2 DEF T
  <2>2. FlattenSeq(Loads(ring)) \in Seq(S)
    BY <1>17, <2>1, FlatExists, FlattenIs
  <2> QED
    BY <1>2, <1>18, <1>19, <2>2 DEF SenderRec, S
<1> DEFINE a == x.pkt
           b == h[u]
           c == FlattenSeq(Loads(ring))
           cells == e.cells
           rest == e.rest
           before == Pending(x)
           after == Pending(senders'[s])
<1>24. before = Cat(a, Cat(b, c)) /\ after = Cat(rest, c) /\ Cat(cells, rest) = Cat(a, b)
  <2>1. Pending(x) = Cat(x.pkt, FlattenSeq(Loads(x.ring)))
    BY PendingIs
  <2>2. Pending(senders'[s]) = Cat(senders'[s].pkt, FlattenSeq(Loads(senders'[s].ring)))
    BY PendingIs
  <2> QED
    BY <1>11, <1>14, <1>21, <1>22, <2>1, <2>2 DEF all, u
<1>25. /\ a \in Seq(S) /\ b \in Seq(S) /\ c \in Seq(S) /\ cells \in Seq(S) /\ rest \in Seq(S)
       /\ before \in Seq(S)
  BY <1>2, <1>15, <1>23 DEF S
<1> HIDE DEF a, b, c, cells, rest, before, after
<1>26. Cat(cells, Cat(rest, c)) = Cat(Cat(cells, rest), c) /\ Cat(Cat(a, b), c) = Cat(a, Cat(b, c))
  BY <1>25, CatFacts
<1>27. cells \o after = before
  BY <1>24, <1>26 DEF Cat
<1>28. after \in Seq(S)
  BY <1>24, <1>25, CatFacts
<1> QED
  BY <1>6, <1>9, <1>10, <1>25, <1>27, <1>28 DEF before, cells, after, S

\* The same for all senders.
LEMMA KeepFrame ==
  ASSUME GatewayInv, NEW t \in DOMAIN senders, SendFrame(t), net' = net \cup {FrameOf(t)},
         NEW s \in DOMAIN senders
  PROVE  Keeps(Pending(senders[s]), SentBy(s), Pending(senders'[s]))
<1> DEFINE n == next
           x == senders[s]
           new == {g \in net' \ net : g.stream = s}
<1>1. n \in Nat /\ senders \in Seq(SenderRec(n)) /\ Len(senders) \in Nat /\ s \in 1 .. Len(senders)
      /\ DOMAIN senders = 1 .. Len(senders) /\ t \in 1 .. Len(senders)
  BY DEF GatewayInv, Types
<1>2. x \in SenderRec(n) /\ Pending(x) \in Seq(Sent(n))
  BY <1>1, PendingType
<1>3. CASE t # s
  <2>1. senders'[s] = senders[s]
    BY <1>1, <1>3 DEF SendFrame
  <2>2. new = {}
    BY <1>3 DEF FrameOf
  <2>3. SentBy(s) = <<>>
    BY <2>2 DEF SentBy
  <2> QED
    BY <1>2, <2>1, <2>3, KeepsSame
<1>4. CASE t = s
  <2>1. SentBy(s) # <<>> /\ SentBy(s) \o Pending(senders'[s]) = Pending(x)
    BY <1>4, FrameKeeps
  <2>2. Keeps(Pending(x), <<>>, Pending(x)) /\ <<>> \o Pending(x) = Pending(x)
    BY <1>2, KeepsSame, ConcatEmptySeq
  <2> QED
    BY <2>1, <2>2 DEF Keeps
<1> QED
  BY <1>3, <1>4

\* What a sender accepted leaves it only into the next frame.
LEMMA KeepStep ==
  ASSUME GatewayInv, Next, NEW s \in DOMAIN senders
  PROVE  senders' = senders \/ Keeps(Pending(senders[s]), SentBy(s), Pending(senders'[s]))
<1>1. Pending(senders[s]) \in Seq(Sent(next))
  BY PendingType DEF GatewayInv, Types
<1>2. net' = net => SentBy(s) = <<>>
  BY DEF SentBy
<1>3. CASE Hosts
  <2>1. net' = net
    BY <1>3 DEF Hosts, network
  <2>2. CASE SessionWrite
    BY <1>2, <2>1, <2>2, KeepWrite
  <2>3. CASE SetPaths
    <3>1. Pending(senders'[s]) = Pending(senders[s])
      <4>1. s \in 1 .. Len(senders) /\ Len(senders) \in Nat
        BY DEF GatewayInv, Types
      <4>2. s <= Len(senders) /\ s \in 1 .. Len(senders')
        BY <2>3, <4>1, KeepPaths
      <4> QED
        BY <2>3, <4>2, KeepPaths
    <3> QED
      BY <1>1, <1>2, <2>1, <3>1, KeepsSame
  <2>4. CASE SessionClose
    <3>1. senders' = CloseAll(current, senders)
      BY <2>4 DEF SessionClose
    <3>2. Pending(senders'[s]) = Pending(senders[s])
      BY <3>1, KeepClosed DEF GatewayInv, Types
    <3> QED
      BY <1>1, <1>2, <2>1, <3>2, KeepsSame
  <2> QED
    BY <1>3, <2>2, <2>3, <2>4 DEF Hosts
<1>4. CASE \E t \in DOMAIN senders : SenderRun(t)
  <2>1. PICK t \in DOMAIN senders : SenderRun(t)
    BY <1>4
  <2>2. CASE Skip(t) /\ UNCHANGED <<ingress, network, smooth, heard>>
    <3>1. net' = net
      BY <2>2 DEF network
    <3>2. Pending(senders'[s]) = Pending(senders[s])
      BY <2>2, KeepSkip
    <3> QED
      BY <1>1, <1>2, <3>1, <3>2, KeepsSame
  <2>3. CASE SendFrame(t) /\ net' = net \cup {FrameOf(t)}
    BY <2>3, KeepFrame
  <2> QED
    BY <2>1, <2>2, <2>3 DEF SenderRun
<1>5. CASE \E f \in net : Receive(f)
  BY <1>5 DEF Receive, egress
<1>6. CASE IngressSteps
  BY <1>6 DEF IngressSteps, egress
<1> QED
  BY <1>3, <1>4, <1>5, <1>6 DEF Next

\* What a session has accepted for a path is sent, in order and without a gap, also
\* after the sender was closed or replaced, for all packets, paths, ring and frame sizes.
THEOREM GatewaySendersKeepAll == Spec => SendersKeepAll
<1> DEFINE Step == \A s \in DOMAIN senders :
                     Keeps(Pending(senders[s]), SentBy(s), Pending(senders'[s]))
<1>1. GatewayInv /\ [Next]_vars => [Step]_senders
  <2> SUFFICES ASSUME GatewayInv, [Next]_vars PROVE [Step]_senders
    OBVIOUS
  <2>1. CASE Next
    BY <2>1, KeepStep
  <2>2. CASE UNCHANGED vars
    BY <2>2 DEF vars, egress
  <2> QED
    BY <2>1, <2>2
<1>2. Step <=> \A s \in DOMAIN senders :
         LET new == {f \in net' \ net : f.stream = s}
             sent == IF new = {} THEN <<>> ELSE (CHOOSE f \in new : TRUE).cells
         IN  /\ IsPrefix(Pending(senders[s]), sent \o Pending(senders'[s]))
             /\ sent # <<>> => sent \o Pending(senders'[s]) = Pending(senders[s])
  BY DEF Keeps, SentBy
<1> HIDE DEF Step
<1> QED
  BY <1>1, <1>2, GatewayInit, GatewayNext, PTL DEF Spec, SendersKeepAll

---------------------------------------------------------------------------
(* How often a packet can be delivered.  The frame in which it ends brings it *)
(* to the device, so the copies of that frame that are on their way or wait   *)
(* in a ring count together with the times that the packet was delivered.     *)

\* 1 for a frame in which p ends.
Ends(f, p) == IF Has(f.cells, EndOf(p)) THEN 1 ELSE 0

\* Frames in a ring, in the rings of all workers and in the network in which p ends.
Waiting(ring, p) == Cardinality({i \in 1 .. Len(ring) : Has(ring[i].cells, EndOf(p))})
InRings(ws, p) == SumFunction([w \in DOMAIN ws |-> Waiting(ws[w].ring, p)])
OnTheWay(frames, p) == IF \E f \in frames : Has(f.cells, EndOf(p)) THEN 1 ELSE 0

\* Times that p was delivered.
Times(pkts, p) == Cardinality({i \in DOMAIN pkts : pkts[i] = Cells(p)})

Copies(pkts, ws, frames, p) == Times(pkts, p) + InRings(ws, p) + OnTheWay(frames, p)

\* Positions can be counted from 0 as well as from 1.
LEMMA ShiftedCount ==
  ASSUME NEW S, IsFiniteSet(S), S \subseteq Nat \ {0}, NEW T, T = {i \in Nat : i + 1 \in S}
  PROVE  IsFiniteSet(T) /\ Cardinality(T) = Cardinality(S)
<1> DEFINE f == [x \in S |-> x - 1]
<1>1. f \in [S -> T]
  <2>1. \A x \in S : x - 1 \in Nat /\ (x - 1) + 1 = x
    OBVIOUS
  <2> QED
    BY <2>1
<1>2. \A x, y \in S : f[x] = f[y] => x = y
  OBVIOUS
<1>3. \A t \in T : \E x \in S : f[x] = t
  <2>1. ASSUME NEW t \in T PROVE \E x \in S : f[x] = t
    <3>1. t \in Nat /\ t + 1 \in S /\ (t + 1) - 1 = t
      OBVIOUS
    <3>2. f[t + 1] = t
      BY <3>1
    <3> QED
      BY <3>1, <3>2
  <2> QED
    BY <2>1
<1> HIDE DEF f
<1>4. f \in Bijection(S, T)
  BY <1>1, <1>2, <1>3 DEF Bijection, Injection, Surjection, IsInjective
<1>5. ExistsBijection(S, T)
  BY <1>4 DEF ExistsBijection
<1> QED
  BY <1>5, FS_Bijection

\* The frames that wait are finitely many.
LEMMA WaitingType ==
  ASSUME NEW F, NEW ring, ring \in Seq(F), NEW p
  PROVE  /\ Waiting(ring, p) \in Nat
         /\ IsFiniteSet({i \in 1 .. Len(ring) : Has(ring[i].cells, EndOf(p))})
<1> DEFINE S == {i \in 1 .. Len(ring) : Has(ring[i].cells, EndOf(p))}
<1>1. IsFiniteSet(1 .. Len(ring)) /\ S \subseteq 1 .. Len(ring)
  BY FS_Interval
<1>2. IsFiniteSet(S) /\ Cardinality(S) \in Nat
  BY <1>1, FS_Subset, FS_CardinalityType
<1> QED
  BY <1>2 DEF Waiting

\* One frame more.
LEMMA WaitingAppend ==
  ASSUME NEW F, NEW ring, ring \in Seq(F), NEW f \in F, NEW p
  PROVE  Waiting(Append(ring, f), p) = Waiting(ring, p) + Ends(f, p)
<1> DEFINE N == Len(ring)
           longer == Append(ring, f)
           e == EndOf(p)
           S == {i \in 1 .. N : Has(ring[i].cells, e)}
           T == {i \in 1 .. (N + 1) : Has(longer[i].cells, e)}
<1>1. /\ N \in Nat /\ Len(longer) = N + 1 /\ longer[N + 1] = f
      /\ \A i \in 1 .. N : longer[i] = ring[i]
  OBVIOUS
<1>2. IsFiniteSet(S) /\ Cardinality(S) \in Nat
  BY WaitingType DEF Waiting
<1>3. Waiting(ring, p) = Cardinality(S) /\ Waiting(longer, p) = Cardinality(T)
  BY <1>1 DEF Waiting
<1> HIDE DEF longer, e
<1>4. N + 1 \notin S /\ 1 .. (N + 1) = (1 .. N) \cup {N + 1}
  BY <1>1
<1>5. CASE Has(f.cells, e)
  <2>1. T = S \cup {N + 1}
    BY <1>1, <1>4, <1>5
  <2>2. Cardinality(T) = Cardinality(S) + 1
    BY <1>2, <1>4, <2>1, FS_AddElement
  <2> QED
    BY <1>3, <1>5, <2>2 DEF Ends, longer, e
<1>6. CASE ~Has(f.cells, e)
  <2>1. T = S
    BY <1>1, <1>4, <1>6
  <2>2. Ends(f, p) = 0
    BY <1>6 DEF Ends, e
  <2>3. Waiting(longer, p) = Waiting(ring, p) /\ Waiting(ring, p) \in Nat
    BY <1>2, <1>3, <2>1
  <2> QED
    BY <2>2, <2>3 DEF longer
<1> QED
  BY <1>5, <1>6

\* The first frame is taken out.
LEMMA WaitingTail ==
  ASSUME NEW F, NEW ring, ring \in Seq(F), ring # <<>>, NEW p
  PROVE  Waiting(ring, p) = Waiting(Tail(ring), p) + Ends(Head(ring), p)
<1> DEFINE N == Len(ring)
           e == EndOf(p)
           rest == Tail(ring)
           S == {i \in 1 .. N : Has(ring[i].cells, e)}
           T == {i \in 1 .. (N - 1) : Has(rest[i].cells, e)}
<1>1. /\ N \in Nat /\ N >= 1 /\ rest \in Seq(F) /\ Len(rest) = N - 1 /\ Head(ring) = ring[1]
      /\ \A i \in 1 .. (N - 1) : rest[i] = ring[i + 1]
  BY EmptySeq
<1>2. IsFiniteSet(S) /\ Cardinality(S) \in Nat
  BY WaitingType DEF Waiting
<1>3. Waiting(ring, p) = Cardinality(S) /\ Waiting(rest, p) = Cardinality(T)
  BY <1>1 DEF Waiting
<1> HIDE DEF rest, e
<1>4. IsFiniteSet(S \ {1}) /\ S \ {1} \subseteq Nat \ {0}
      /\ Cardinality(S \ {1}) = IF 1 \in S THEN Cardinality(S) - 1 ELSE Cardinality(S)
  <2>1. S \ {1} \subseteq Nat \ {0}
    BY <1>1
  <2> HIDE DEF S
  <2> QED
    BY <1>2, <2>1, FS_RemoveElement
<1>5. T = {i \in Nat : i + 1 \in S \ {1}}
  <2>1. \A i \in Nat : i \in 1 .. (N - 1) <=> i + 1 \in 1 .. N /\ i + 1 # 1
    BY <1>1
  <2>2. \A i \in T : i \in Nat
    OBVIOUS
  <2>3. \A i \in Nat : i \in T <=> i + 1 \in S \ {1}
    BY <1>1, <2>1
  <2> QED
    BY <2>2, <2>3
<1>6. Cardinality(T) = Cardinality(S \ {1})
  BY <1>4, <1>5, ShiftedCount
<1>7. 1 \in S <=> Has(Head(ring).cells, e)
  BY <1>1
<1>8. Ends(Head(ring), p) = IF 1 \in S THEN 1 ELSE 0
  BY <1>7 DEF Ends, e
<1> HIDE DEF S, T
<1> QED
  BY <1>2, <1>3, <1>4, <1>6, <1>8 DEF rest

\* A ring with one frame.
LEMMA WaitingOne ==
  ASSUME NEW f, NEW p PROVE Waiting(<<f>>, p) = Ends(f, p)
<1> DEFINE S == {i \in 1 .. Len(<<f>>) : Has(<<f>>[i].cells, EndOf(p))}
<1>1. \A i : i \in S <=> i = 1 /\ Has(f.cells, EndOf(p))
  OBVIOUS
<1>2. Waiting(<<f>>, p) = Cardinality(S)
  BY DEF Waiting
<1> HIDE DEF S
<1>3. CASE Has(f.cells, EndOf(p))
  <2>1. S = {1}
    BY <1>1, <1>3
  <2> QED
    BY <1>2, <1>3, <2>1, FS_Singleton DEF Ends
<1>4. CASE ~Has(f.cells, EndOf(p))
  <2>1. S = {}
    BY <1>1, <1>4
  <2> QED
    BY <1>2, <1>4, <2>1, FS_EmptySet DEF Ends
<1> QED
  BY <1>3, <1>4

\* What the rings hold when one worker is replaced.
Replaced(ws, u, p) ==
  /\ InRings(ws, p) \in Nat /\ Waiting(u.ring, p) \in Nat
  /\ \A w \in 1 .. Len(ws) :
       /\ Waiting(ws[w].ring, p) \in Nat /\ InRings([ws EXCEPT ![w] = u], p) \in Nat
       /\ InRings([ws EXCEPT ![w] = u], p) + Waiting(ws[w].ring, p)
            = InRings(ws, p) + Waiting(u.ring, p)

\* The frames in the rings, when one worker changes and when one is added.
LEMMA InRingsFacts ==
  ASSUME NEW n \in Nat, NEW ws, ws \in Seq(WorkerRec(n)), NEW v \in WorkerRec(n), NEW p
  PROVE  /\ Replaced(ws, v, p)
         /\ InRings(Append(ws, v), p) = InRings(ws, p) + Waiting(v.ring, p)
<1> DEFINE D == 1 .. Len(ws)
           F(x) == [w \in DOMAIN x |-> Waiting(x[w].ring, p)]
           f == F(ws)
<1>1. Len(ws) \in Nat /\ DOMAIN ws = D /\ IsFiniteSet(D)
  BY FS_Interval
<1>2. \A x \in WorkerRec(n) : Waiting(x.ring, p) \in Nat
  BY WaitingType DEF WorkerRec
<1>3. \A w \in D : f[w] = Waiting(ws[w].ring, p) /\ f[w] \in Nat
  BY <1>1, <1>2
<1>4. InRings(ws, p) = SumFunctionOnSet(f, D)
  BY <1>1 DEF InRings, SumFunction
<1> HIDE DEF f
<1>5. InRings(ws, p) \in Nat
  <2> HIDE DEF D
  <2>1. SumFunctionOnSet(f, D) \in Nat
    BY <1>1, <1>3, SumType
  <2> QED
    BY <1>4, <2>1
<1>6. Waiting(v.ring, p) \in Nat
  BY <1>2
<1>7. ASSUME NEW w \in D
      PROVE  /\ InRings([ws EXCEPT ![w] = v], p) \in Nat
             /\ InRings([ws EXCEPT ![w] = v], p) + Waiting(ws[w].ring, p)
                  = InRings(ws, p) + Waiting(v.ring, p)
  <2> DEFINE x == [ws EXCEPT ![w] = v]
             g == F(x)
  <2>1. DOMAIN x = D /\ x[w] = v /\ \A y \in D : y # w => x[y] = ws[y]
    BY <1>1
  <2> HIDE DEF x
  <2>2. InRings(x, p) = SumFunctionOnSet(g, D)
    BY <2>1 DEF InRings, SumFunction
  <2>3. g[w] = Waiting(v.ring, p) /\ \A y \in D : g[y] \in Nat /\ (y # w => g[y] = f[y])
    <3>1. \A y \in D : g[y] = Waiting(x[y].ring, p)
      BY <2>1
    <3>2. \A y \in D : y # w => g[y] = f[y]
      BY <1>3, <2>1, <3>1
    <3>3. g[w] = Waiting(v.ring, p)
      BY <2>1, <3>1
    <3> HIDE DEF g
    <3> QED
      BY <1>3, <1>6, <3>2, <3>3
  <2> HIDE DEF g, D
  <2>4. SumFunctionOnSet(g, D) = SumFunctionOnSet(f, D) + g[w] - f[w]
    <3>1. \A y \in D : f[y] \in Nat /\ g[y] \in Nat /\ (y # w => g[y] = f[y])
      BY <1>3, <2>3
    <3>2. IsFiniteSet(D) /\ w \in D
      BY <1>1
    <3> QED
      BY ONLY <3>1, <3>2, SumUpdate
  <2>5. InRings(x, p) = InRings(ws, p) + Waiting(v.ring, p) - Waiting(ws[w].ring, p)
    BY <1>3, <1>4, <2>2, <2>3, <2>4
  <2>6. Waiting(ws[w].ring, p) \in Nat
    BY <1>3
  <2>7. InRings(x, p) + Waiting(ws[w].ring, p) = InRings(ws, p) + Waiting(v.ring, p)
    BY ONLY <1>5, <1>6, <2>5, <2>6
  <2>8. InRings(x, p) \in Nat
    <3>1. SumFunctionOnSet(g, D) \in Nat
      BY <1>1, <2>3, SumType
    <3> QED
      BY <2>2, <3>1
  <2> QED
    BY <2>7, <2>8 DEF x
<1>8. InRings(Append(ws, v), p) = InRings(ws, p) + Waiting(v.ring, p)
  <2> DEFINE x == Append(ws, v)
             k == Len(ws) + 1
             E == 1 .. k
             g == F(x)
  <2>1. DOMAIN x = E /\ x[k] = v /\ \A w \in D : x[w] = ws[w]
    BY <1>1
  <2>2. k \in E /\ E \ {k} = D /\ IsFiniteSet(E) /\ E = D \cup {k}
    <3>1. k \in Int /\ 1 \in Int
      BY <1>1
    <3>2. k \in E /\ E \ {k} = D /\ E = D \cup {k}
      BY <1>1
    <3> HIDE DEF k
    <3> QED
      BY <3>1, <3>2, FS_Interval
  <2> HIDE DEF x
  <2>3. InRings(x, p) = SumFunctionOnSet(g, E)
    BY <2>1 DEF InRings, SumFunction
  <2>4. \A w \in E : g[w] = Waiting(x[w].ring, p)
    BY <2>1
  <2> HIDE DEF g, E, D, k
  <2>5. /\ g[k] = Waiting(v.ring, p) /\ g[k] \in Nat
        /\ \A w \in D : g[w] \in Nat /\ f[w] = g[w] /\ f[w] \in Nat
    BY <1>3, <1>6, <2>1, <2>2, <2>4
  <2>6. \A w \in E : g[w] \in Nat
    BY <2>2, <2>5
  <2>7. SumFunctionOnSet(g, E) = g[k] + SumFunctionOnSet(g, D)
    BY <2>2, <2>6, SumSplit
  <2>8. SumFunctionOnSet(f, D) = SumFunctionOnSet(g, D)
    BY <1>1, <2>5, SumSame
  <2>9. InRings(x, p) = Waiting(v.ring, p) + InRings(ws, p)
    BY <1>4, <2>3, <2>5, <2>7, <2>8
  <2> QED
    BY <1>5, <1>6, <2>9 DEF x
<1>9. Replaced(ws, v, p)
  BY <1>3, <1>5, <1>6, <1>7 DEF Replaced
<1> QED
  BY <1>8, <1>9

\* Cells of two sequences, one behind the other.
LEMMA HasJoin ==
  ASSUME NEW S, NEW a, a \in Seq(S), NEW b, b \in Seq(S)
  PROVE  /\ \A c : Has(a \o b, c) <=> Has(a, c) \/ Has(b, c)
         /\ Distinct(a \o b) <=> /\ Distinct(a) /\ Distinct(b)
                                 /\ \A c : ~(Has(a, c) /\ Has(b, c))
<1> DEFINE all == a \o b
           N == Len(a)
           M == Len(b)
<1>1. /\ N \in Nat /\ M \in Nat /\ all \in Seq(S) /\ Len(all) = N + M
      /\ \A j \in 1 .. (N + M) : all[j] = IF j <= N THEN a[j] ELSE b[j - N]
  BY ConcatProperties
<1> HIDE DEF all, N, M
<1>2. \A i \in 1 .. N : i \in 1 .. (N + M) /\ all[i] = a[i]
  BY <1>1
<1>3. \A i \in 1 .. M : N + i \in 1 .. (N + M) /\ all[N + i] = b[i]
  <2>1. \A i \in 1 .. M : N + i \in 1 .. (N + M) /\ ~(N + i <= N) /\ (N + i) - N = i
    BY <1>1
  <2> QED
    BY <1>1, <2>1
<1>4. ASSUME NEW j \in 1 .. (N + M)
      PROVE  \/ j \in 1 .. N /\ all[j] = a[j]
             \/ j - N \in 1 .. M /\ j = N + (j - N) /\ all[j] = b[j - N]
  <2>1. CASE j <= N
    BY <1>1, <2>1
  <2>2. CASE ~(j <= N)
    BY <1>1, <2>2
  <2> QED
    BY <2>1, <2>2
<1>5. \A c : Has(all, c) <=> Has(a, c) \/ Has(b, c)
  <2>1. ASSUME NEW c, Has(all, c) PROVE Has(a, c) \/ Has(b, c)
    <3>1. PICK j \in 1 .. (N + M) : all[j] = c
      BY <1>1, <2>1 DEF Has
    <3> QED
      BY <1>4, <3>1 DEF Has, N, M
  <2>2. ASSUME NEW c, Has(a, c) PROVE Has(all, c)
    BY <1>1, <1>2, <2>2 DEF Has, N
  <2>3. ASSUME NEW c, Has(b, c) PROVE Has(all, c)
    BY <1>1, <1>3, <2>3 DEF Has, M
  <2> QED
    BY <2>1, <2>2, <2>3
<1>6. ASSUME Distinct(all) PROVE Distinct(a) /\ Distinct(b) /\ \A c : ~(Has(a, c) /\ Has(b, c))
  <2>1. Distinct(a)
    <3>1. ASSUME NEW i \in 1 .. N, NEW j \in 1 .. N, a[i] = a[j] PROVE i = j
      BY <1>1, <1>2, <1>6, <3>1 DEF Distinct
    <3> QED
      BY <3>1 DEF Distinct, N
  <2>2. Distinct(b)
    <3>1. ASSUME NEW i \in 1 .. M, NEW j \in 1 .. M, b[i] = b[j] PROVE i = j
      <4>1. N + i = N + j
        BY <1>1, <1>3, <1>6, <3>1 DEF Distinct
      <4> QED
        BY ONLY <1>1, <4>1, i \in 1 .. M, j \in 1 .. M
    <3> QED
      BY <3>1 DEF Distinct, M
  <2>3. ASSUME NEW c, Has(a, c), Has(b, c) PROVE FALSE
    <3>1. PICK i \in 1 .. N : a[i] = c
      BY <2>3 DEF Has, N
    <3>2. PICK j \in 1 .. M : b[j] = c
      BY <2>3 DEF Has, M
    <3>3. i = N + j
      BY <1>1, <1>2, <1>3, <1>6, <3>1, <3>2 DEF Distinct
    <3> QED
      BY ONLY <1>1, <3>3, i \in 1 .. N, j \in 1 .. M
  <2> QED
    BY <2>1, <2>2, <2>3
<1>7. ASSUME Distinct(a), Distinct(b), \A c : ~(Has(a, c) /\ Has(b, c)) PROVE Distinct(all)
  <2>1. ASSUME NEW i \in 1 .. (N + M), NEW j \in 1 .. (N + M), all[i] = all[j] PROVE i = j
    <3>1. CASE i \in 1 .. N /\ all[i] = a[i] /\ j \in 1 .. N /\ all[j] = a[j]
      BY <1>7, <2>1, <3>1 DEF Distinct, N
    <3>2. CASE j - N \in 1 .. M /\ all[j] = b[j - N] /\ i \in 1 .. N /\ all[i] = a[i]
      <4>1. Has(a, all[i]) /\ Has(b, all[i])
        BY <2>1, <3>2 DEF Has, N, M
      <4> QED
        BY <1>7, <4>1
    <3>3. CASE i - N \in 1 .. M /\ all[i] = b[i - N] /\ j \in 1 .. N /\ all[j] = a[j]
      <4>1. Has(a, all[i]) /\ Has(b, all[i])
        BY <2>1, <3>3 DEF Has, N, M
      <4> QED
        BY <1>7, <4>1
    <3>4. CASE /\ i - N \in 1 .. M /\ all[i] = b[i - N] /\ i = N + (i - N)
               /\ j - N \in 1 .. M /\ all[j] = b[j - N] /\ j = N + (j - N)
      <4>1. i - N = j - N
        BY <1>7, <2>1, <3>4 DEF Distinct, M
      <4> QED
        BY <3>4, <4>1
    <3> QED
      BY <1>4, <3>1, <3>2, <3>3, <3>4
  <2> QED
    BY <1>1, <2>1 DEF Distinct
<1> QED
  BY <1>5, <1>6, <1>7 DEF all

\* The cells of a packet.
LEMMA CellsApart ==
  ASSUME NEW p \in Pkts
  PROVE  Distinct(Cells(p)) /\ \A c : Has(Cells(p), c) => c.pkt = p
<1>1. PktLen[p] \in Nat
  BY PacketFacts
<1>2. /\ Len(Cells(p)) = PktLen[p]
      /\ \A i \in 1 .. PktLen[p] : Cells(p)[i] = [pkt |-> p, off |-> i - 1]
  <2> DEFINE N == PktLen[p]
             c == [i \in 1 .. N |-> [pkt |-> p, off |-> i - 1]]
  <2>1. N \in Nat
    BY <1>1
  <2> HIDE DEF N
  <2>2. Len(c) = N /\ \A i \in 1 .. N : c[i] = [pkt |-> p, off |-> i - 1]
    BY <2>1
  <2> QED
    BY <2>2 DEF Cells, N
<1>3. Distinct(Cells(p))
  <2>1. ASSUME NEW i \in 1 .. PktLen[p], NEW j \in 1 .. PktLen[p], Cells(p)[i] = Cells(p)[j] PROVE i = j
    <3>2. [pkt |-> p, off |-> i - 1] = [pkt |-> p, off |-> j - 1]
      BY <1>2, <2>1, Zenon
    <3>3. [pkt |-> p, off |-> i - 1].off = i - 1 /\ [pkt |-> p, off |-> j - 1].off = j - 1
      OBVIOUS
    <3>1. i - 1 = j - 1
      BY <3>2, <3>3, Zenon
    <3> QED
      BY ONLY <3>1, <1>1, i \in 1 .. PktLen[p], j \in 1 .. PktLen[p]
  <2> QED
    BY <1>2, <2>1 DEF Distinct
<1>4. ASSUME NEW c, Has(Cells(p), c) PROVE c.pkt = p
  <2>1. PICK i \in 1 .. PktLen[p] : Cells(p)[i] = c
    BY <1>2, <1>4 DEF Has
  <2>2. c = [pkt |-> p, off |-> i - 1]
    BY <1>2, <2>1
  <2> QED
    BY <2>2
<1> QED
  BY <1>3, <1>4

\* Cells of earlier packets.
LEMMA HasSent ==
  ASSUME NEW n \in Nat, NEW cells, cells \in Seq(Sent(n)), NEW c, Has(cells, c)
  PROVE  c.pkt \in Pkts /\ c.pkt < n
<1>1. PICK i \in 1 .. Len(cells) : cells[i] = c
  BY DEF Has
<1>2. c \in Sent(n)
  BY <1>1
<1> QED
  BY <1>2, SentFacts

\* How often a packet is among others.
LEMMA TimesFacts ==
  ASSUME NEW S, NEW pkts, pkts \in Seq(S), NEW p
  PROVE  /\ Times(pkts, p) \in Nat /\ IsFiniteSet({i \in DOMAIN pkts : pkts[i] = Cells(p)})
         /\ \A more \in Seq(S) : Distinct(more) =>
              Times(pkts \o more, p) = Times(pkts, p) + IF Has(more, Cells(p)) THEN 1 ELSE 0
<1> DEFINE N == Len(pkts)
           d == Cells(p)
           T == {i \in 1 .. N : pkts[i] = d}
<1>1. N \in Nat /\ DOMAIN pkts = 1 .. N /\ IsFiniteSet(1 .. N) /\ T \subseteq 1 .. N
  BY FS_Interval
<1>2. IsFiniteSet(T) /\ Cardinality(T) \in Nat
  BY <1>1, FS_Subset, FS_CardinalityType
<1>3. Times(pkts, p) = Cardinality(T)
  BY <1>1 DEF Times
<1>4. ASSUME NEW more \in Seq(S), Distinct(more)
      PROVE  Times(pkts \o more, p) = Times(pkts, p) + IF Has(more, Cells(p)) THEN 1 ELSE 0
  <2> DEFINE M == Len(more)
             all == pkts \o more
             U == {i \in 1 .. (N + M) : all[i] = d}
  <2>1. /\ M \in Nat /\ all \in Seq(S) /\ Len(all) = N + M /\ DOMAIN all = 1 .. (N + M)
        /\ \A j \in 1 .. (N + M) : all[j] = IF j <= N THEN pkts[j] ELSE more[j - N]
    BY <1>1, ConcatProperties
  <2>2. Times(all, p) = Cardinality(U)
    BY <2>1 DEF Times
  <2> HIDE DEF all, M, N, d
  <2>3. \A j \in 1 .. N : j \in 1 .. (N + M) /\ all[j] = pkts[j]
    BY <1>1, <2>1
  <2>4. ASSUME NEW j \in 1 .. (N + M)
        PROVE  \/ j \in 1 .. N /\ all[j] = pkts[j]
               \/ j - N \in 1 .. M /\ all[j] = more[j - N] /\ j = N + (j - N)
    BY <1>1, <2>1
  <2>5. CASE Has(more, d)
    <3>1. PICK k \in 1 .. M : more[k] = d
      BY <2>5 DEF Has, M
    <3>2. N + k \in 1 .. (N + M) /\ N + k \notin 1 .. N /\ ~(N + k <= N) /\ (N + k) - N = k
      BY <1>1, <2>1
    <3>3. all[N + k] = d
      BY <2>1, <3>1, <3>2
    <3>4. ASSUME NEW j \in U PROVE j \in T \cup {N + k}
      <4>1. CASE j \in 1 .. N /\ all[j] = pkts[j]
        BY <4>1
      <4>2. CASE j - N \in 1 .. M /\ all[j] = more[j - N] /\ j = N + (j - N)
        <5>1. j - N = k
          BY <1>4, <3>1, <4>2 DEF Distinct, M
        <5> QED
          BY <4>2, <5>1
      <4> QED
        BY <2>4, <4>1, <4>2
    <3>5. U = T \cup {N + k} /\ N + k \notin T
      BY <2>3, <3>2, <3>3, <3>4
    <3> HIDE DEF U, T
    <3>6. Cardinality(U) = Cardinality(T) + 1
      BY <1>2, <3>5, FS_AddElement
    <3> QED
      BY <1>2, <1>3, <2>2, <2>5, <3>6 DEF all, d
  <2>6. CASE ~Has(more, d)
    <3>1. ASSUME NEW j \in U PROVE j \in T
      <4>1. CASE j - N \in 1 .. M /\ all[j] = more[j - N]
        BY <2>6, <4>1 DEF Has, M
      <4> QED
        BY <2>4, <4>1
    <3>2. U = T
      BY <2>3, <3>1
    <3> HIDE DEF U, T
    <3> QED
      BY <1>2, <1>3, <2>2, <2>6, <3>2 DEF all, d
  <2> QED
    BY <2>5, <2>6
<1> QED
  BY <1>1, <1>2, <1>3, <1>4

\* Packets that end in a frame are delivered by it at most once each.
LEMMA TimesBrought ==
  ASSUME NEW S, NEW pkts, pkts \in Seq(S), NEW more, more \in Seq(S), NEW f, Distinct(f.cells),
         Brought(more, f.cells, 1, Len(f.cells)), NEW p \in Pkts
  PROVE  Times(pkts \o more, p) \in Nat /\ Times(pkts \o more, p) <= Times(pkts, p) + Ends(f, p)
<1>1. Distinct(more)
  BY DEF Brought
<1>2. /\ Times(pkts \o more, p) = Times(pkts, p) + IF Has(more, Cells(p)) THEN 1 ELSE 0
      /\ Times(pkts, p) \in Nat
  BY <1>1, TimesFacts
<1>3. ASSUME Has(more, Cells(p)) PROVE Has(f.cells, EndOf(p))
  <2>1. PICK j \in 1 .. Len(more) : more[j] = Cells(p)
    BY <1>3 DEF Has
  <2>2. PICK q \in Pkts, x \in 1 .. Len(f.cells) : more[j] = Cells(q) /\ f.cells[x] = EndOf(q)
    BY DEF Brought
  <2>3. p = q
    BY <2>1, <2>2, CellsDiffer
  <2> QED
    BY <2>2, <2>3 DEF Has
<1>4. CASE Has(more, Cells(p))
  <2>1. Ends(f, p) = 1
    BY <1>3, <1>4 DEF Ends
  <2> QED
    BY <1>2, <1>4, <2>1
<1>5. CASE ~Has(more, Cells(p))
  <2>1. Ends(f, p) \in {0, 1}
    BY DEF Ends
  <2> QED
    BY <1>2, <1>5, <2>1
<1> QED
  BY <1>4, <1>5

\* No frame in a ring has the end of a packet that is yet to come.
LEMMA InRingsType ==
  ASSUME NEW n \in Nat, NEW ws, ws \in Seq(WorkerRec(n)), NEW p
  PROVE  /\ InRings(ws, p) \in Nat
         /\ p = n => InRings(ws, p) = 0
<1> DEFINE D == 1 .. Len(ws)
           f == [w \in DOMAIN ws |-> Waiting(ws[w].ring, p)]
<1>1. Len(ws) \in Nat /\ DOMAIN ws = D /\ IsFiniteSet(D) /\ Cardinality(D) \in Nat
  BY FS_Interval, FS_CardinalityType
<1>2. \A w \in D : ws[w].ring \in Seq(FrameRec(n))
  <2>1. \A w \in D : ws[w] \in WorkerRec(n)
    OBVIOUS
  <2> QED
    BY <2>1 DEF WorkerRec
<1>3. \A w \in D : f[w] = Waiting(ws[w].ring, p) /\ f[w] \in Nat
  BY <1>1, <1>2, WaitingType
<1>4. InRings(ws, p) = SumFunctionOnSet(f, D)
  BY <1>1 DEF InRings, SumFunction
<1>5. InRings(ws, p) \in Nat
  <2> HIDE DEF f, D
  <2> QED
    BY <1>1, <1>3, <1>4, SumType
<1>6. ASSUME p = n PROVE InRings(ws, p) = 0
  <2>1. ASSUME NEW w \in D PROVE f[w] <= 0
    <3>1. ASSUME NEW i \in 1 .. Len(ws[w].ring), Has(ws[w].ring[i].cells, EndOf(p)) PROVE FALSE
      <4>1. ws[w].ring[i].cells \in Seq(Sent(n))
        <5>1. ws[w].ring[i] \in FrameRec(n)
          BY <1>2
        <5> QED
          BY <5>1 DEF FrameRec
      <4>2. EndOf(p).pkt < n /\ EndOf(p).pkt = p
        BY <3>1, <4>1, HasSent DEF EndOf
      <4> QED
        BY <1>6, <4>2
    <3>2. {i \in 1 .. Len(ws[w].ring) : Has(ws[w].ring[i].cells, EndOf(p))} = {}
      BY <3>1
    <3>3. Waiting(ws[w].ring, p) = 0
      BY <3>2, FS_EmptySet DEF Waiting
    <3> QED
      BY <1>3, <3>3
  <2> HIDE DEF f, D
  <2>2. SumFunctionOnSet(f, D) <= Cardinality(D) * 0
    <3>1. \A w \in D : f[w] \in Nat /\ f[w] <= 0
      BY <1>3, <2>1
    <3> QED
      BY ONLY <1>1, <3>1, SumBound, 0 \in Nat
  <2>3. Cardinality(D) * 0 = 0
    BY <1>1
  <2> QED
    BY <1>4, <1>5, <2>2, <2>3
<1> QED
  BY <1>5, <1>6

LEMMA CopiesType ==
  ASSUME NEW n \in Nat, NEW ws, ws \in Seq(WorkerRec(n)), NEW S, NEW pkts, pkts \in Seq(S),
         NEW frames, NEW p
  PROVE  /\ Times(pkts, p) \in Nat /\ InRings(ws, p) \in Nat /\ OnTheWay(frames, p) \in {0, 1}
         /\ Copies(pkts, ws, frames, p) \in Nat
         /\ Copies(pkts, ws, frames, p) = Times(pkts, p) + InRings(ws, p) + OnTheWay(frames, p)
<1>1. Times(pkts, p) \in Nat /\ InRings(ws, p) \in Nat
  BY TimesFacts, InRingsType
<1>2. OnTheWay(frames, p) \in {0, 1}
  BY DEF OnTheWay
<1> QED
  BY <1>1, <1>2 DEF Copies

\* No cell is sent twice by the senders.
Apart(list) ==
  /\ \A s \in 1 .. Len(list) : Distinct(Pending(list[s]))
  /\ \A s, t \in 1 .. Len(list) : \A c :
       Has(Pending(list[s]), c) /\ Has(Pending(list[t]), c) => s = t

\* No cell is twice in a frame, and no packet ends in two frames that are on their way.
NoRepeats(frames, ws) ==
  /\ \A f \in frames : Distinct(f.cells)
  /\ \A w \in 1 .. Len(ws) : \A i \in 1 .. Len(ws[w].ring) : Distinct(ws[w].ring[i].cells)
  /\ \A f, g \in frames : \A p \in Pkts :
       Has(f.cells, EndOf(p)) /\ Has(g.cells, EndOf(p)) => f = g

\* There are no copies of what is still to be sent.
Counted(list, pkts, ws, frames, extra) ==
  \A p \in Pkts :
    /\ Copies(pkts, ws, frames, p) <= 1 + extra
    /\ \A s \in 1 .. Len(list) : Has(Pending(list[s]), EndOf(p)) => Copies(pkts, ws, frames, p) = 0

OnceInv ==
  /\ dups \in Nat /\ Apart(senders) /\ NoRepeats(net, workers)
  /\ Counted(senders, delivered, workers, net, dups)

\* The senders have nothing to send that they did not have before.
LEMMA OnceSenders ==
  ASSUME OnceInv, UNCHANGED <<delivered, workers, net, dups>>,
         \A s \in 1 .. Len(senders') :
           /\ Distinct(Pending(senders'[s]))
           /\ \A c : Has(Pending(senders'[s]), c) =>
                s \in 1 .. Len(senders) /\ Has(Pending(senders[s]), c)
  PROVE  OnceInv'
<1>1. Apart(senders')
  BY DEF OnceInv, Apart
<1>2. NoRepeats(net', workers')
  BY DEF OnceInv
<1>3. Counted(senders', delivered', workers', net', dups')
  BY DEF OnceInv, Counted
<1> QED
  BY <1>1, <1>2, <1>3 DEF OnceInv

\* Frames move on, and the network makes a copy at most when it counts one.
LEMMA OnceIngress ==
  ASSUME GatewayInv, GatewayInv', OnceInv, UNCHANGED senders, dups' \in Nat, net' \subseteq net,
         \A w \in 1 .. Len(workers') : \A i \in 1 .. Len(workers'[w].ring) :
           Distinct(workers'[w].ring[i].cells),
         \A p \in Pkts :
           /\ Copies(delivered', workers', net', p) + dups <= Copies(delivered, workers, net, p) + dups'
           /\ Copies(delivered, workers, net, p) = 0 => Copies(delivered', workers', net', p) = 0
  PROVE  OnceInv'
<1>1. Apart(senders')
  BY DEF OnceInv
<1>2. NoRepeats(net', workers')
  BY DEF OnceInv, NoRepeats
<1>3. ASSUME NEW p \in Pkts
      PROVE  /\ Copies(delivered', workers', net', p) <= 1 + dups'
             /\ \A s \in 1 .. Len(senders') :
                  Has(Pending(senders'[s]), EndOf(p)) => Copies(delivered', workers', net', p) = 0
  <2> DEFINE old == Copies(delivered, workers, net, p)
             new == Copies(delivered', workers', net', p)
  <2>1. old \in Nat
    <3>1. next \in Nat /\ workers \in Seq(WorkerRec(next)) /\ delivered \in Seq(Whole(next))
      BY DEF GatewayInv, Types
    <3> QED
      BY <3>1, CopiesType
  <2>2. new \in Nat
    <3>1. next' \in Nat /\ workers' \in Seq(WorkerRec(next')) /\ delivered' \in Seq(Whole(next'))
      BY DEF GatewayInv, Types
    <3> QED
      BY <3>1, CopiesType
  <2>3. /\ old <= 1 + dups /\ dups \in Nat /\ dups' \in Nat /\ new + dups <= old + dups'
        /\ \A s \in 1 .. Len(senders) : Has(Pending(senders[s]), EndOf(p)) => old = 0
        /\ old = 0 => new = 0 /\ senders' = senders
    BY DEF OnceInv, Counted
  <2> HIDE DEF old, new
  <2>4. new <= 1 + dups'
    <3> DEFINE d == dups'
    <3>1. old <= 1 + dups /\ dups \in Nat /\ d \in Nat /\ new + dups <= old + d
      BY <2>3
    <3> HIDE DEF d
    <3>2. new <= 1 + d
      BY ONLY <2>1, <2>2, <3>1
    <3> QED
      BY <3>2 DEF d
  <2> QED
    BY <2>3, <2>4 DEF new
<1>4. Counted(senders', delivered', workers', net', dups')
  BY <1>3 DEF Counted
<1> QED
  BY <1>1, <1>2, <1>4 DEF OnceInv

\* Session.Write: a packet that nobody has seen yet.
LEMMA WriteOnce ==
  ASSUME GatewayInv, OnceInv, SessionWrite, UNCHANGED <<delivered, workers, net, dups>>
  PROVE  OnceInv'
<1> DEFINE n == next
           c == IF next \in Invalid THEN <<>> ELSE Cells(next)
           S == Sent(n + 1)
<1>1. n \in Nat /\ senders \in Seq(SenderRec(n)) /\ Len(senders) \in Nat /\ current \subseteq 1 .. Len(senders)
      /\ DOMAIN senders = 1 .. Len(senders) /\ n + 1 \in Nat /\ n < n + 1 /\ n \in Pkts
  <2>1. n \in Nat /\ senders \in Seq(SenderRec(n)) /\ current \subseteq DOMAIN senders /\ n \in Pkts
    BY DEF GatewayInv, Types, SessionWrite
  <2> QED
    BY <2>1
<1>2. \A s \in 1 .. Len(senders) : Pending(senders[s]) \in Seq(Sent(n))
  BY <1>1, PendingType
<1>3. CASE senders' = senders
  BY <1>3, OnceSenders DEF OnceInv, Apart
<1>4. CASE senders' # senders
  <2>1. PICK t \in current : senders' = [senders EXCEPT ![t].ring = Append(@, next)]
    BY <1>4 DEF SessionWrite
  <2>2. t \in 1 .. Len(senders) /\ Len(senders') = Len(senders)
        /\ \A s \in 1 .. Len(senders) : s # t => senders'[s] = senders[s]
    BY <1>1, <2>1
  <2>3. c \in Seq(S) /\ Pending(senders'[t]) = Pending(senders[t]) \o c
    BY <1>1, <2>1, WriteKeeps
  <2>4. Pending(senders[t]) \in Seq(S)
    <3>1. Sent(n) \subseteq S
      BY <1>1, SentMonotone
    <3>2. Seq(Sent(n)) \subseteq Seq(S)
      BY <3>1
    <3> QED
      BY <1>2, <2>2, <3>2
  <2>5. Distinct(c) /\ \A d : Has(c, d) => d.pkt = n
    <3>1. Distinct(<<>>) /\ \A d : ~Has(<<>>, d)
      BY DEF Distinct, Has
    <3> QED
      BY <1>1, <3>1, CellsApart
  <2>6. \A s \in 1 .. Len(senders) : \A d : Has(Pending(senders[s]), d) => d.pkt < n /\ d.pkt # n
    <3>1. \A s \in 1 .. Len(senders) : \A d : Has(Pending(senders[s]), d) => d.pkt \in Pkts /\ d.pkt < n
      BY <1>1, <1>2, HasSent
    <3> QED
      BY <1>1, <3>1, PacketFacts
  <2> HIDE DEF c, S
  <2>7. /\ \A d : Has(Pending(senders[t]) \o c, d) <=> Has(Pending(senders[t]), d) \/ Has(c, d)
        /\ Distinct(Pending(senders[t]) \o c) <=>
             /\ Distinct(Pending(senders[t])) /\ Distinct(c)
             /\ \A d : ~(Has(Pending(senders[t]), d) /\ Has(c, d))
    <3> DEFINE a == Pending(senders[t])
    <3>1. a \in Seq(S) /\ c \in Seq(S)
      BY <2>3, <2>4
    <3> HIDE DEF a
    <3>2. /\ \A d : Has(a \o c, d) <=> Has(a, d) \/ Has(c, d)
          /\ Distinct(a \o c) <=> Distinct(a) /\ Distinct(c) /\ \A d : ~(Has(a, d) /\ Has(c, d))
      BY <3>1, HasJoin
    <3> QED
      BY <3>2 DEF a
  <2>8. Distinct(Pending(senders'[t]))
    BY <2>2, <2>3, <2>5, <2>6, <2>7 DEF OnceInv, Apart
  <2>9. \A s \in 1 .. Len(senders) : \A d : Has(Pending(senders'[s]), d) =>
          Has(Pending(senders[s]), d) \/ (s = t /\ d.pkt = n)
    BY <2>2, <2>3, <2>5, <2>7
  <2>10. Apart(senders')
    <3>1. \A s \in 1 .. Len(senders') : Distinct(Pending(senders'[s]))
      BY <2>2, <2>8 DEF OnceInv, Apart
    <3>2. ASSUME NEW s \in 1 .. Len(senders), NEW u \in 1 .. Len(senders), NEW d,
                 Has(Pending(senders'[s]), d), Has(Pending(senders'[u]), d)
          PROVE  s = u
      <4>1. CASE Has(Pending(senders[s]), d) /\ Has(Pending(senders[u]), d)
        BY <4>1 DEF OnceInv, Apart
      <4>2. CASE s = t /\ d.pkt = n
        BY <2>6, <2>9, <3>2, <4>2
      <4>3. CASE u = t /\ d.pkt = n
        BY <2>6, <2>9, <3>2, <4>3
      <4> QED
        BY <2>9, <3>2, <4>1, <4>2, <4>3
    <3> QED
      BY <2>2, <3>1, <3>2 DEF Apart
  <2>11. Copies(delivered, workers, net, n) = 0
    <3>1. workers \in Seq(WorkerRec(n)) /\ delivered \in Seq(Whole(n))
      BY DEF GatewayInv, Types
    <3>2. InRings(workers, n) = 0
      BY <1>1, <3>1, InRingsType
    <3>3. OnTheWay(net, n) = 0
      <4>1. ASSUME NEW f \in net, Has(f.cells, EndOf(n)) PROVE FALSE
        <5>1. PICK sent : History(sent, senders, net, workers, n)
          BY DEF GatewayInv
        <5>2. f \in FrameRec(n)
          BY <5>1 DEF History, GoodFrame
        <5>3. f.cells \in Seq(Sent(n))
          BY <5>2 DEF FrameRec
        <5>4. EndOf(n).pkt < n /\ EndOf(n).pkt = n
          BY <1>1, <4>1, <5>3, HasSent DEF EndOf
        <5> QED
          BY <1>1, <5>4
      <4> QED
        BY <4>1 DEF OnTheWay
    <3>4. Times(delivered, n) = 0
      <4>1. ASSUME NEW i \in DOMAIN delivered, delivered[i] = Cells(n) PROVE FALSE
        <5>1. delivered[i] \in Whole(n)
          BY <3>1
        <5>2. PICK q \in Pkts : q < n /\ delivered[i] = Cells(q)
          BY <5>1 DEF Whole
        <5>3. q = n
          BY <1>1, <4>1, <5>2, CellsDiffer
        <5> QED
          BY <1>1, <5>2, <5>3
      <4>2. {i \in DOMAIN delivered : delivered[i] = Cells(n)} = {}
        BY <4>1
      <4> QED
        BY <4>2, FS_EmptySet DEF Times
    <3> QED
      BY <3>2, <3>3, <3>4 DEF Copies
  <2>12. Counted(senders', delivered', workers', net', dups')
    <3>1. ASSUME NEW p \in Pkts, NEW s \in 1 .. Len(senders'), Has(Pending(senders'[s]), EndOf(p))
          PROVE  Copies(delivered, workers, net, p) = 0
      <4>1. CASE Has(Pending(senders[s]), EndOf(p))
        BY <2>2, <4>1 DEF OnceInv, Counted
      <4>2. CASE EndOf(p).pkt = n
        <5>1. p = n
          BY <4>2 DEF EndOf
        <5> QED
          BY <2>11, <5>1
      <4> QED
        BY <2>2, <2>9, <3>1, <4>1, <4>2
    <3> QED
      BY <3>1 DEF OnceInv, Counted
  <2> QED
    BY <2>10, <2>12 DEF OnceInv
<1> QED
  BY <1>3, <1>4

\* A frame is sent: what ends in it was in no other.
LEMMA FrameOnce ==
  ASSUME GatewayInv, OnceInv, NEW s \in DOMAIN senders, SendFrame(s), net' = net \cup {FrameOf(s)},
         UNCHANGED <<delivered, workers, dups>>
  PROVE  OnceInv'
<1> DEFINE n == next
           f == FrameOf(s)
           a == f.cells
           b == Pending(senders'[s])
           S == Sent(n)
<1>1. n \in Nat /\ senders \in Seq(SenderRec(n)) /\ Len(senders) \in Nat /\ s \in 1 .. Len(senders)
      /\ DOMAIN senders = 1 .. Len(senders) /\ workers \in Seq(WorkerRec(n)) /\ delivered \in Seq(Whole(n))
  BY DEF GatewayInv, Types
<1>2. a \in Seq(S) /\ b \in Seq(S) /\ a \o b = Pending(senders[s])
  BY FrameKeeps
<1>3. Len(senders') = Len(senders) /\ \A t \in 1 .. Len(senders) : t # s => senders'[t] = senders[t]
  BY <1>1 DEF SendFrame
<1>4. Distinct(Pending(senders[s]))
  BY <1>1 DEF OnceInv, Apart
<1> HIDE DEF f, S
<1>5. /\ Distinct(a) /\ Distinct(b) /\ \A c : ~(Has(a, c) /\ Has(b, c))
      /\ \A c : Has(Pending(senders[s]), c) <=> Has(a, c) \/ Has(b, c)
  <2> DEFINE x == a
             y == b
  <2>1. x \in Seq(S) /\ y \in Seq(S) /\ x \o y = Pending(senders[s])
    BY <1>2
  <2> HIDE DEF x, y
  <2>2. /\ \A c : Has(x \o y, c) <=> Has(x, c) \/ Has(y, c)
        /\ Distinct(x \o y) <=> Distinct(x) /\ Distinct(y) /\ \A c : ~(Has(x, c) /\ Has(y, c))
    BY <2>1, HasJoin
  <2> QED
    BY <1>4, <2>1, <2>2 DEF x, y
<1> HIDE DEF a, b
<1>6. \A t \in 1 .. Len(senders) : \A c : Has(Pending(senders'[t]), c) =>
        Has(Pending(senders[t]), c) /\ ~Has(a, c)
  <2>1. ASSUME NEW t \in 1 .. Len(senders), NEW c, Has(Pending(senders'[t]), c)
        PROVE  Has(Pending(senders[t]), c) /\ ~Has(a, c)
    <3>1. CASE t = s
      BY <1>5, <2>1, <3>1 DEF b
    <3>2. CASE t # s
      <4>1. Has(Pending(senders[t]), c)
        BY <1>3, <2>1, <3>2
      <4>2. ~Has(Pending(senders[s]), c)
        BY <1>1, <3>2, <4>1 DEF OnceInv, Apart
      <4> QED
        BY <1>5, <4>1, <4>2
    <3> QED
      BY <3>1, <3>2
  <2> QED
    BY <2>1
<1>7. Apart(senders')
  <2>1. \A t \in 1 .. Len(senders) : Distinct(Pending(senders'[t]))
    BY <1>3, <1>5 DEF b, OnceInv, Apart
  <2>2. \A t, u \in 1 .. Len(senders) : \A c :
          Has(Pending(senders'[t]), c) /\ Has(Pending(senders'[u]), c) => t = u
    BY <1>6 DEF OnceInv, Apart
  <2> QED
    BY <1>3, <2>1, <2>2 DEF Apart
<1>8. ASSUME NEW p \in Pkts, Has(a, EndOf(p))
      PROVE  /\ Copies(delivered, workers, net, p) = 0
             /\ Times(delivered, p) = 0 /\ InRings(workers, p) = 0
             /\ \A g \in net : ~Has(g.cells, EndOf(p))
  <2>1. Has(Pending(senders[s]), EndOf(p))
    BY <1>5, <1>8
  <2>2. Copies(delivered, workers, net, p) = 0
    BY <1>1, <2>1 DEF OnceInv, Counted
  <2> DEFINE x == Times(delivered, p)
             y == InRings(workers, p)
             z == OnTheWay(net, p)
  <2>3. x \in Nat /\ y \in Nat /\ z \in {0, 1} /\ x + y + z = 0
    BY <1>1, <2>2, CopiesType
  <2> HIDE DEF x, y, z
  <2>4. x = 0 /\ y = 0 /\ z = 0
    BY ONLY <2>3
  <2>5. OnTheWay(net, p) = 0
    BY <2>4 DEF z
  <2>6. \A g \in net : ~Has(g.cells, EndOf(p))
    BY <2>5 DEF OnTheWay
  <2> QED
    BY <2>2, <2>4, <2>6 DEF x, y
<1>9. NoRepeats(net', workers')
  <2>1. \A g \in net' : Distinct(g.cells)
    BY <1>5 DEF OnceInv, NoRepeats, a, f
  <2>2. ASSUME NEW g \in net', NEW h \in net', NEW p \in Pkts, Has(g.cells, EndOf(p)), Has(h.cells, EndOf(p))
        PROVE  g = h
    <3>1. (g \in net \/ g = f) /\ (h \in net \/ h = f)
      BY DEF f
    <3>2. CASE g \in net /\ h \in net
      BY <2>2, <3>2 DEF OnceInv, NoRepeats
    <3>3. CASE g = f \/ h = f
      <4>1. Has(a, EndOf(p))
        BY <2>2, <3>3 DEF a
      <4>2. g \notin net /\ h \notin net
        BY <1>8, <2>2, <4>1
      <4> QED
        BY <3>1, <4>2
    <3> QED
      BY <3>1, <3>2, <3>3
  <2>3. \A w \in 1 .. Len(workers') : \A i \in 1 .. Len(workers'[w].ring) : Distinct(workers'[w].ring[i].cells)
    BY DEF OnceInv, NoRepeats
  <2> QED
    BY <2>1, <2>2, <2>3 DEF NoRepeats
<1>10. ASSUME NEW p \in Pkts, Has(a, EndOf(p))
       PROVE  /\ Copies(delivered, workers, net', p) <= 1 + dups
              /\ \A t \in 1 .. Len(senders') : ~Has(Pending(senders'[t]), EndOf(p))
  <2>1. \A t \in 1 .. Len(senders') : ~Has(Pending(senders'[t]), EndOf(p))
    BY <1>3, <1>6, <1>10
  <2>2. Copies(delivered, workers, net', p) = OnTheWay(net', p) /\ OnTheWay(net', p) \in {0, 1}
    <3> DEFINE x == Times(delivered, p)
               y == InRings(workers, p)
               z == OnTheWay(net', p)
    <3>1. Copies(delivered, workers, net', p) = x + y + z /\ z \in {0, 1} /\ x = 0 /\ y = 0
      BY <1>8, <1>10 DEF Copies, OnTheWay
    <3> HIDE DEF x, y, z
    <3>2. Copies(delivered, workers, net', p) = z /\ z \in {0, 1}
      BY ONLY <3>1
    <3> QED
      BY <3>2 DEF z
  <2>3. dups \in Nat
    BY DEF OnceInv
  <2>4. Copies(delivered, workers, net', p) <= 1 + dups
    BY ONLY <2>2, <2>3
  <2> QED
    BY <2>1, <2>4
<1>11. ASSUME NEW p \in Pkts, ~Has(a, EndOf(p))
       PROVE  Copies(delivered, workers, net', p) = Copies(delivered, workers, net, p)
  <2>1. OnTheWay(net', p) = OnTheWay(net, p)
    BY <1>11 DEF OnTheWay, a, f
  <2> QED
    BY <2>1 DEF Copies
<1>12. Counted(senders', delivered', workers', net', dups')
  <2>1. ASSUME NEW p \in Pkts
        PROVE  /\ Copies(delivered, workers, net', p) <= 1 + dups
               /\ \A t \in 1 .. Len(senders') :
                    Has(Pending(senders'[t]), EndOf(p)) => Copies(delivered, workers, net', p) = 0
    <3>1. CASE Has(a, EndOf(p))
      BY <1>10, <3>1
    <3>2. CASE ~Has(a, EndOf(p))
      BY <1>3, <1>6, <1>11, <3>2 DEF OnceInv, Counted
    <3> QED
      BY <3>1, <3>2
  <2> QED
    BY <2>1 DEF Counted
<1> QED
  BY <1>7, <1>9, <1>12 DEF OnceInv

\* A worker changes, its ring does not.
LEMMA SameRings ==
  ASSUME GatewayInv, GatewayInv', OnceInv, UNCHANGED <<senders, delivered, net, dups>>,
         NEW w \in 1 .. Len(workers), NEW u \in WorkerRec(next), u.ring = workers[w].ring,
         workers' = [workers EXCEPT ![w] = u]
  PROVE  OnceInv'
<1>1. next \in Nat /\ workers \in Seq(WorkerRec(next)) /\ delivered \in Seq(Whole(next))
  BY DEF GatewayInv, Types
<1>2. /\ Len(workers') = Len(workers) /\ workers'[w] = u
      /\ \A x \in 1 .. Len(workers) : x # w => workers'[x] = workers[x]
  BY <1>1, ReplaceFacts
<1>3. \A x \in 1 .. Len(workers') : \A i \in 1 .. Len(workers'[x].ring) : Distinct(workers'[x].ring[i].cells)
  <2>1. \A x \in 1 .. Len(workers) : workers'[x].ring = workers[x].ring
    BY <1>2
  <2> QED
    BY <1>2, <2>1 DEF OnceInv, NoRepeats
<1>4. ASSUME NEW p \in Pkts PROVE Copies(delivered', workers', net', p) = Copies(delivered, workers, net, p)
  <2>1. /\ InRings(workers, p) \in Nat /\ InRings(workers', p) \in Nat
        /\ Waiting(workers[w].ring, p) \in Nat
        /\ InRings(workers', p) + Waiting(workers[w].ring, p) = InRings(workers, p) + Waiting(u.ring, p)
    <3>1. Replaced(workers, u, p)
      BY <1>1, InRingsFacts
    <3>2. w \in 1 .. Len(workers) /\ workers' = [workers EXCEPT ![w] = u]
      OBVIOUS
    <3> QED
      BY ONLY <3>1, <3>2 DEF Replaced
  <2> DEFINE x == InRings(workers', p)
             y == InRings(workers, p)
             z == Waiting(workers[w].ring, p)
  <2>3. x \in Nat /\ y \in Nat /\ z \in Nat /\ x + z = y + z
    BY <2>1
  <2> HIDE DEF x, y, z
  <2>4. x = y
    BY ONLY <2>3
  <2> QED
    BY <2>4 DEF x, y, Copies
<1>6. ASSUME NEW p \in Pkts
      PROVE  /\ Copies(delivered', workers', net', p) + dups <= Copies(delivered, workers, net, p) + dups'
             /\ Copies(delivered, workers, net, p) = 0 => Copies(delivered', workers', net', p) = 0
  <2> DEFINE x == Copies(delivered, workers, net, p)
             y == Copies(delivered', workers', net', p)
             d == dups'
  <2>1. x \in Nat /\ y = x /\ d = dups /\ dups \in Nat
    BY <1>1, <1>4, CopiesType DEF OnceInv
  <2> HIDE DEF x, y, d
  <2>2. y + dups <= x + d /\ (x = 0 => y = 0)
    BY ONLY <2>1
  <2> QED
    BY <2>2 DEF x, y, d
<1>7. dups' \in Nat /\ net' \subseteq net
  BY DEF OnceInv
<1> QED
  BY <1>3, <1>6, <1>7, OnceIngress

\* A frame is read from the network into a ring, or is dropped.
LEMMA ReceiveOnce ==
  ASSUME GatewayInv, GatewayInv', OnceInv, NEW f \in net, Receive(f)
  PROVE  OnceInv'
<1> DEFINE n == next
<1>1. n \in Nat /\ workers \in Seq(WorkerRec(n)) /\ delivered \in Seq(Whole(n)) /\ worker \in 0 .. Len(workers)
      /\ Len(workers) \in Nat
  BY DEF GatewayInv, Types
<1>2. Dispatch(f) /\ UNCHANGED <<senders, delivered>>
  BY DEF Receive, Dispatch, egress
<1>3. PICK sent : History(sent, senders, net, workers, n)
  BY DEF GatewayInv
<1>4. GoodFrame(f, sent, n) /\ f \in FrameRec(n) /\ Distinct(f.cells)
  BY <1>3 DEF History, GoodFrame, OnceInv, NoRepeats
<1>5. /\ \A x \in 1 .. Len(workers') : \A i \in 1 .. Len(workers'[x].ring) : Distinct(workers'[x].ring[i].cells)
      /\ \A p \in Pkts : InRings(workers', p) <= InRings(workers, p) + Ends(f, p)
  <2>1. \A p \in Pkts : InRings(workers, p) \in Nat /\ Ends(f, p) \in {0, 1}
    BY <1>1, InRingsType DEF Ends
  <2>2. \A x \in 1 .. Len(workers) : \A i \in 1 .. Len(workers[x].ring) : Distinct(workers[x].ring[i].cells)
    BY DEF OnceInv, NoRepeats
  <2>3. CASE worker # 0 /\ workers' = [workers EXCEPT ![worker].ring = Append(@, f)]
    <3> DEFINE v == workers[worker]
               u == [v EXCEPT !.ring = Append(v.ring, f)]
    <3>1. worker \in 1 .. Len(workers)
      BY <1>1, <2>3
    <3>2. workers' = [workers EXCEPT ![worker] = u]
      BY <1>1, <2>3, <3>1
    <3>3. v \in WorkerRec(n)
      BY <1>1, <3>1
    <3> DEFINE r == v.ring
               F == FrameRec(n)
    <3>4. r \in Seq(F) /\ f \in F
      BY <1>4, <3>3 DEF WorkerRec
    <3> HIDE DEF v
    <3>5. u \in WorkerRec(n) /\ u.ring = Append(r, f)
      <4> DEFINE new == Append(r, f)
      <4>1. new \in Seq(F)
        <5> HIDE DEF r, F
        <5> QED
          BY <3>4
      <4>2. u = [v EXCEPT !.ring = new]
        OBVIOUS
      <4> HIDE DEF new, u
      <4>3. u \in WorkerRec(n) /\ u.ring = new
        BY <3>3, <4>1, <4>2 DEF WorkerRec
      <4> QED
        BY <4>3 DEF new
    <3> HIDE DEF u, r, F
    <3>6. /\ Len(Append(r, f)) = Len(r) + 1 /\ Len(r) \in Nat /\ Append(r, f)[Len(r) + 1] = f
          /\ \A i \in 1 .. Len(r) : Append(r, f)[i] = r[i]
      BY <3>4
    <3>7. /\ Len(workers') = Len(workers) /\ workers'[worker] = u
          /\ \A x \in 1 .. Len(workers) : x # worker => workers'[x] = workers[x]
      BY <1>1, <3>1, <3>2, <3>5, ReplaceFacts
    <3>8. ASSUME NEW i \in 1 .. Len(u.ring) PROVE Distinct(u.ring[i].cells)
      <4>1. i = Len(r) + 1 \/ i \in 1 .. Len(r)
        BY <3>5, <3>6
      <4>2. \A j \in 1 .. Len(r) : Distinct(r[j].cells)
        BY <2>2, <3>1 DEF r, v
      <4> QED
        BY <1>4, <3>5, <3>6, <4>1, <4>2
    <3>9. ASSUME NEW p \in Pkts PROVE InRings(workers', p) <= InRings(workers, p) + Ends(f, p)
      <4>1. Waiting(u.ring, p) = Waiting(r, p) + Ends(f, p)
        BY <3>4, <3>5, WaitingAppend
      <4>2. /\ Waiting(workers[worker].ring, p) \in Nat /\ InRings(workers', p) \in Nat
            /\ InRings(workers', p) + Waiting(workers[worker].ring, p)
                 = InRings(workers, p) + Waiting(u.ring, p)
        <5>1. Replaced(workers, u, p)
          BY <1>1, <3>5, InRingsFacts
        <5>2. worker \in 1 .. Len(workers) /\ workers' = [workers EXCEPT ![worker] = u]
          BY <3>1, <3>2
        <5> QED
          BY ONLY <5>1, <5>2 DEF Replaced
      <4> DEFINE x == InRings(workers', p)
                 y == InRings(workers, p)
                 z == Waiting(r, p)
                 e == Ends(f, p)
      <4>4. x \in Nat /\ y \in Nat /\ z \in Nat /\ e \in {0, 1} /\ x + z = y + (z + e)
        BY <2>1, <4>1, <4>2 DEF r, v
      <4> HIDE DEF x, y, z, e
      <4>5. x <= y + e
        BY ONLY <4>4
      <4> QED
        BY <4>5 DEF x, y, e
    <3> QED
      BY <2>2, <3>7, <3>8, <3>9
  <2>4. CASE workers' = Append(workers, NewWorker(f))
    <3> DEFINE u == NewWorker(f)
    <3>1. u \in WorkerRec(n)
      BY <1>1, <1>4, NewWorkerFacts
    <3>2. u.ring = <<f>>
      BY DEF NewWorker
    <3>3. workers' = Append(workers, u)
      BY <2>4
    <3> HIDE DEF u
    <3>4. /\ Len(workers') = Len(workers) + 1 /\ workers'[Len(workers) + 1] = u
          /\ \A x \in 1 .. Len(workers) : workers'[x] = workers[x]
      BY <1>1, <3>1, <3>3
    <3>5. Len(u.ring) = 1 /\ u.ring[1] = f
      BY <3>2
    <3>6. ASSUME NEW x \in 1 .. Len(workers'), NEW i \in 1 .. Len(workers'[x].ring)
          PROVE  Distinct(workers'[x].ring[i].cells)
      <4>1. CASE x = Len(workers) + 1
        <5>1. i \in 1 .. Len(u.ring)
          BY <3>4, <4>1
        <5>3. i = 1
          BY <3>5, <5>1
        <5> QED
          BY <1>4, <3>4, <3>5, <4>1, <5>3
      <4>2. CASE x # Len(workers) + 1
        <5>1. x \in 1 .. Len(workers)
          BY <1>1, <3>4, <4>2
        <5> QED
          BY <2>2, <3>4, <5>1
      <4> QED
        BY <4>1, <4>2
    <3>7. ASSUME NEW p \in Pkts PROVE InRings(workers', p) <= InRings(workers, p) + Ends(f, p)
      <4>1. Waiting(u.ring, p) = Ends(f, p)
        BY <3>2, WaitingOne
      <4>4. InRings(workers', p) = InRings(workers, p) + Waiting(u.ring, p)
        BY <1>1, <3>1, <3>3, InRingsFacts
      <4> QED
        BY <2>1, <4>1, <4>4
    <3> QED
      BY <3>6, <3>7
  <2>5. CASE workers' = workers
    BY <2>1, <2>2, <2>5
  <2>6. \/ worker # 0 /\ workers' = [workers EXCEPT ![worker].ring = Append(@, f)]
        \/ workers' = Append(workers, NewWorker(f))
        \/ workers' = workers
    BY <1>2 DEF Dispatch, ServerCleanup
  <2> QED
    BY <2>3, <2>4, <2>5, <2>6
<1>6. net' \subseteq net /\ dups \in Nat /\ dups' \in Nat
  BY DEF Receive, OnceInv
<1>7. ASSUME NEW p \in Pkts
      PROVE  /\ Copies(delivered', workers', net', p) + dups <= Copies(delivered, workers, net, p) + dups'
             /\ Copies(delivered, workers, net, p) = 0 => Copies(delivered', workers', net', p) = 0
  <2> DEFINE t == Times(delivered, p)
             x == InRings(workers', p)
             y == InRings(workers, p)
             a == OnTheWay(net', p)
             b == OnTheWay(net, p)
             e == Ends(f, p)
             d == dups'
  <2>1. /\ t \in Nat /\ y \in Nat /\ b \in {0, 1}
        /\ Copies(delivered, workers, net, p) = t + y + b
    BY <1>1, CopiesType
  <2>2. x \in Nat /\ x <= y + e
    <3>1. next' \in Nat /\ workers' \in Seq(WorkerRec(next'))
      BY DEF GatewayInv, Types
    <3>2. x \in Nat
      BY <3>1, InRingsType
    <3> QED
      BY <1>5, <3>2
  <2>3. Copies(delivered', workers', net', p) = t + x + a
    BY <1>2 DEF Copies
  <2>4. a \in {0, 1} /\ a <= b
    BY <1>6 DEF OnTheWay
  <2>5. e \in {0, 1} /\ e <= b
    BY DEF Ends, OnTheWay
  <2>6. \/ a + e <= b /\ d = dups
        \/ d = dups + 1
    <3>1. CASE net' = net \ {f} /\ dups' = dups
      <4>1. CASE Has(f.cells, EndOf(p))
        <5>1. \A g \in net' : ~Has(g.cells, EndOf(p))
          BY <3>1, <4>1 DEF OnceInv, NoRepeats
        <5>2. a = 0
          BY <5>1 DEF OnTheWay
        <5> QED
          BY <2>1, <2>5, <3>1, <5>2
      <4>2. CASE ~Has(f.cells, EndOf(p))
        <5>1. e = 0
          BY <4>2 DEF Ends
        <5> QED
          BY <2>4, <3>1, <5>1
      <4> QED
        BY <4>1, <4>2
    <3>2. CASE dups' = dups + 1
      BY <3>2
    <3> QED
      BY <3>1, <3>2 DEF Receive
  <2> HIDE DEF t, x, y, a, b, e, d
  <2>7. d \in Nat /\ dups \in Nat
    BY <1>6 DEF d
  <2>8. (t + x + a) + dups <= (t + y + b) + d /\ (t + y + b = 0 => t + x + a = 0)
    <3>1. CASE a + e <= b /\ d = dups
      BY ONLY <2>1, <2>2, <2>4, <2>5, <2>7, <3>1
    <3>2. CASE d = dups + 1
      BY ONLY <2>1, <2>2, <2>4, <2>5, <2>7, <3>2
    <3> QED
      BY <2>6, <3>1, <3>2
  <2> QED
    BY <2>1, <2>3, <2>8 DEF d
<1> QED
  BY <1>2, <1>5, <1>6, <1>7, OnceIngress

\* worker.Run: a frame leaves the ring, and the packets that end in it are delivered.
LEMMA ProcessOnce ==
  ASSUME GatewayInv, GatewayInv', OnceInv, NEW w \in DOMAIN workers, processFrame(w),
         UNCHANGED <<senders, net, dups>>
  PROVE  OnceInv'
<1> DEFINE n == next
           v == workers[w]
           f == Head(v.ring)
           r == Insert(IF f.stream \in DOMAIN v.lists THEN v.lists[f.stream] ELSE <<>>, FrameBuf(f))
           done == [v EXCEPT !.ring = Tail(@), !.old = @ \ {f.stream},
                             !.lists = [s \in (DOMAIN @) \cup {f.stream} |->
                                          IF s = f.stream THEN r.list ELSE @[s]]]
<1>1. PICK sent : History(sent, senders, net, workers, n)
  BY DEF GatewayInv
<1>2. /\ n \in Nat /\ workers \in Seq(WorkerRec(n)) /\ delivered \in Seq(Whole(n))
      /\ w \in 1 .. Len(workers)
  BY DEF GatewayInv, Types
<1>3. v \in WorkerRec(n) /\ GoodWorker(v, sent, n) /\ \A s \in Streams : Flow(sent[s], n)
  BY <1>1, <1>2 DEF History
<1>4. /\ v.ring # <<>> /\ delivered' = delivered \o r.pkts /\ free' = free + r.released
      /\ worker' = worker /\ noDevice' = noDevice
      /\ \/ workers' = [workers EXCEPT ![w] = done] /\ releasing' = releasing
         \/ /\ workers' = [workers EXCEPT ![w] = Cleaned(done)]
            /\ releasing' = releasing + Held(done) - Held(Cleaned(done))
  BY DEF processFrame
<1>5. \A i \in 1 .. Len(v.ring) : Distinct(v.ring[i].cells)
  BY <1>2 DEF OnceInv, NoRepeats
<1> HIDE DEF v
<1>6. /\ done \in WorkerRec(n) /\ GoodWorker(done, sent, n)
      /\ r.pkts \in Seq(Whole(n)) /\ r.released \in Nat
      /\ Load(done) + r.released = Load(v)
      /\ done.ring = Tail(v.ring) /\ Brought(r.pkts, f.cells, 1, Len(f.cells))
  BY <1>2, <1>3, <1>4, DoneFacts, ZenonT(60)
<1> HIDE DEF done, r
<1> DEFINE pkts == r.pkts
<1>7. pkts \in Seq(Whole(n)) /\ delivered' = delivered \o pkts /\ Brought(pkts, f.cells, 1, Len(f.cells))
  BY <1>4, <1>6
<1> HIDE DEF pkts
<1>8. PICK u \in WorkerRec(n) : u.ring = Tail(v.ring) /\ workers' = [workers EXCEPT ![w] = u]
  <2>1. Cleaned(done) \in WorkerRec(n) /\ Cleaned(done).ring = done.ring
    BY <1>2, <1>6, CleanedFacts
  <2> QED
    BY <1>4, <1>6, <2>1
<1> DEFINE ring == v.ring
           F == FrameRec(n)
<1>9. ring \in Seq(F) /\ ring # <<>>
  BY <1>3, <1>4 DEF WorkerRec
<1> HIDE DEF F, ring
<1>10. /\ Len(ring) \in Nat /\ Len(ring) >= 1 /\ Head(ring) = ring[1] /\ Len(Tail(ring)) = Len(ring) - 1
       /\ \A i \in 1 .. (Len(ring) - 1) : Tail(ring)[i] = ring[i + 1]
  BY <1>9, EmptySeq
<1>11. Distinct(f.cells)
  <2>1. 1 \in 1 .. Len(ring)
    BY <1>10
  <2> QED
    BY <1>5, <1>10, <2>1 DEF ring
<1>12. /\ Len(workers') = Len(workers) /\ workers'[w] = u
       /\ \A x \in 1 .. Len(workers) : x # w => workers'[x] = workers[x]
  BY <1>2, <1>8, ReplaceFacts
<1>13. ASSUME NEW x \in 1 .. Len(workers'), NEW i \in 1 .. Len(workers'[x].ring)
       PROVE  Distinct(workers'[x].ring[i].cells)
  <2>1. CASE x = w
    <3>1. workers'[x].ring = Tail(ring)
      BY <1>8, <1>12, <2>1 DEF ring
    <3>2. i \in 1 .. (Len(ring) - 1) /\ i + 1 \in 1 .. Len(ring)
      BY <1>10, <3>1
    <3> QED
      BY <1>5, <1>10, <3>1, <3>2 DEF ring
  <2>2. CASE x # w
    BY <1>12, <2>2 DEF OnceInv, NoRepeats
  <2> QED
    BY <2>1, <2>2
<1>14. ASSUME NEW p \in Pkts
       PROVE  /\ Copies(delivered', workers', net', p) + dups <= Copies(delivered, workers, net, p) + dups'
              /\ Copies(delivered, workers, net, p) = 0 => Copies(delivered', workers', net', p) = 0
  <2> DEFINE t == Times(delivered, p)
             q == Times(delivered', p)
             x == InRings(workers', p)
             y == InRings(workers, p)
             z == Waiting(ring, p)
             k == Waiting(Tail(ring), p)
             b == OnTheWay(net, p)
             e == Ends(f, p)
  <2>1. /\ t \in Nat /\ y \in Nat /\ b \in {0, 1}
        /\ Copies(delivered, workers, net, p) = t + y + b
    BY <1>2, CopiesType
  <2>2. q \in Nat /\ q <= t + e
    BY <1>2, <1>7, <1>11, TimesBrought
  <2>3. x \in Nat
    <3>1. next' \in Nat /\ workers' \in Seq(WorkerRec(next'))
      BY DEF GatewayInv, Types
    <3> QED
      BY <3>1, InRingsType
  <2>4. z = k + e
    <3>1. Waiting(ring, p) = Waiting(Tail(ring), p) + Ends(Head(ring), p)
      BY <1>9, WaitingTail
    <3> QED
      BY <3>1 DEF ring
  <2>5. z \in Nat /\ x + z = y + k
    <3>1. /\ Waiting(workers[w].ring, p) \in Nat
          /\ InRings(workers', p) + Waiting(workers[w].ring, p)
               = InRings(workers, p) + Waiting(u.ring, p)
      <4>1. Replaced(workers, u, p)
        BY <1>2, InRingsFacts
      <4>2. w \in 1 .. Len(workers) /\ workers' = [workers EXCEPT ![w] = u]
        BY <1>2, <1>8
      <4> QED
        BY ONLY <4>1, <4>2 DEF Replaced
    <3> QED
      BY <1>8, <3>1 DEF ring, v
  <2>6. k \in Nat
    <3>1. Tail(ring) \in Seq(F)
      BY <1>9
    <3> QED
      BY <3>1, WaitingType
  <2>7. Copies(delivered', workers', net', p) = q + x + b
    BY DEF Copies
  <2>8. e \in {0, 1} /\ dups \in Nat /\ dups' = dups
    BY DEF Ends, OnceInv
  <2> HIDE DEF t, q, x, y, z, k, b, e
  <2>9. (q + x + b) + dups <= (t + y + b) + dups /\ (t + y + b = 0 => q + x + b = 0)
    <3>1. e \in {0, 1} /\ dups \in Nat
      BY <2>8
    <3>2. t \in Nat /\ y \in Nat /\ b \in {0, 1}
      BY <2>1
    <3>3. x + e = y
      BY ONLY <2>3, <2>4, <2>5, <2>6, <3>1, <3>2
    <3> QED
      BY ONLY <2>2, <2>3, <3>1, <3>2, <3>3
  <2> QED
    BY <2>1, <2>7, <2>8, <2>9
<1>15. dups' \in Nat /\ net' \subseteq net
  BY DEF OnceInv
<1> QED
  BY <1>13, <1>14, <1>15, OnceIngress

\* Senders that have the same to send as before, and new ones that have nothing.
LEMMA SendersOnce ==
  ASSUME OnceInv, UNCHANGED <<delivered, workers, net, dups>>,
         Len(senders) \in Nat, Len(senders') \in Nat,
         \A s \in 1 .. Len(senders') :
           Pending(senders'[s]) = IF s <= Len(senders) THEN Pending(senders[s]) ELSE <<>>
  PROVE  OnceInv'
<1>1. Distinct(<<>>) /\ \A c : ~Has(<<>>, c)
  BY DEF Distinct, Has
<1>2. ASSUME NEW s \in 1 .. Len(senders')
      PROVE  /\ Distinct(Pending(senders'[s]))
             /\ \A c : Has(Pending(senders'[s]), c) =>
                  s \in 1 .. Len(senders) /\ Has(Pending(senders[s]), c)
  <2>1. CASE s <= Len(senders)
    <3>1. s \in 1 .. Len(senders) /\ Pending(senders'[s]) = Pending(senders[s])
      BY <2>1
    <3> QED
      BY <3>1 DEF OnceInv, Apart
  <2>2. CASE ~(s <= Len(senders))
    <3>1. Pending(senders'[s]) = <<>>
      BY <2>2
    <3> QED
      BY ONLY <1>1, <3>1
  <2> QED
    BY <2>1, <2>2
<1> QED
  BY <1>2, OnceSenders

LEMMA OnceInit == Init => OnceInv
<1> SUFFICES ASSUME Init PROVE OnceInv
  OBVIOUS
<1>1. senders = <<>> /\ net = {} /\ workers = <<>> /\ delivered = <<>> /\ dups = 0
  BY DEF Init, EgressInit, IngressInit
<1>2. Apart(senders) /\ NoRepeats(net, workers)
  BY <1>1 DEF Apart, NoRepeats
<1>3. ASSUME NEW p \in Pkts PROVE Copies(delivered, workers, net, p) = 0
  <2>1. InRings(workers, p) = 0
    <3> DEFINE f == [w \in DOMAIN workers |-> Waiting(workers[w].ring, p)]
    <3>1. DOMAIN workers = {}
      BY <1>1
    <3>2. InRings(workers, p) = SumFunctionOnSet(f, {})
      BY <3>1 DEF InRings, SumFunction
    <3> HIDE DEF f
    <3> QED
      BY <3>2, SumEmpty
  <2>2. Times(delivered, p) = 0
    <3>1. {i \in DOMAIN delivered : delivered[i] = Cells(p)} = {}
      BY <1>1
    <3> QED
      BY <3>1, FS_EmptySet DEF Times
  <2>3. OnTheWay(net, p) = 0
    BY <1>1 DEF OnTheWay
  <2> QED
    BY <2>1, <2>2, <2>3 DEF Copies
<1> QED
  BY <1>1, <1>2, <1>3 DEF OnceInv, Counted

\* Session: SetPaths and Close change no sender's packets.
LEMMA HostsOnce ==
  ASSUME GatewayInv, OnceInv, Hosts
  PROVE  OnceInv'
<1>1. UNCHANGED <<delivered, workers, net, dups>>
  BY DEF Hosts, ingress, network
<1>2. /\ next \in Nat /\ senders \in Seq(SenderRec(next)) /\ Len(senders) \in Nat
  BY DEF GatewayInv, Types
<1>3. CASE SessionWrite
  BY <1>1, <1>3, WriteOnce
<1>4. CASE SetPaths
  <2>1. /\ Len(senders') \in Nat
        /\ \A s \in 1 .. Len(senders') :
             Pending(senders'[s]) = IF s <= Len(senders) THEN Pending(senders[s]) ELSE <<>>
    BY <1>4, KeepPaths
  <2> QED
    BY <1>1, <1>2, <2>1, SendersOnce
<1>5. CASE SessionClose
  <2>1. senders' = CloseAll(current, senders)
    BY <1>5 DEF SessionClose
  <2>2. Len(senders') = Len(senders)
    BY <1>2, <2>1, CloseAllFacts
  <2>3. \A s \in 1 .. Len(senders) : Pending(senders'[s]) = Pending(senders[s])
    BY <1>2, <2>1, KeepClosed
  <2> QED
    BY <1>1, <1>2, <2>2, <2>3, SendersOnce
<1> QED
  BY <1>3, <1>4, <1>5 DEF Hosts

\* sender.run.
LEMMA SenderOnce ==
  ASSUME GatewayInv, OnceInv, NEW s \in DOMAIN senders, SenderRun(s)
  PROVE  OnceInv'
<1>1. UNCHANGED <<delivered, workers, dups>>
  BY DEF SenderRun, ingress, network
<1>2. /\ next \in Nat /\ senders \in Seq(SenderRec(next)) /\ Len(senders) \in Nat
      /\ DOMAIN senders = 1 .. Len(senders)
  BY DEF GatewayInv, Types
<1>3. CASE Skip(s) /\ UNCHANGED network
  <2>1. UNCHANGED <<delivered, workers, net, dups>>
    BY <1>1, <1>3 DEF network
  <2>2. Len(senders') = Len(senders)
    BY <1>2, <1>3 DEF Skip
  <2>3. \A t \in 1 .. Len(senders) : Pending(senders'[t]) = Pending(senders[t])
    BY <1>2, <1>3, KeepSkip
  <2> QED
    BY <1>2, <2>1, <2>2, <2>3, SendersOnce
<1>4. CASE SendFrame(s) /\ net' = net \cup {FrameOf(s)}
  BY <1>1, <1>4, FrameOnce
<1> QED
  BY <1>3, <1>4 DEF SenderRun

\* Run returns, or the server stops a worker: no ring changes.
LEMMA StopOnce ==
  ASSUME GatewayInv, GatewayInv', OnceInv, UNCHANGED <<senders, delivered, net, dups>>,
         NEW w \in 1 .. Len(workers),
         \/ workers' = [workers EXCEPT ![w].ended = TRUE]
         \/ workers' = [workers EXCEPT ![w].stop = TRUE]
  PROVE  OnceInv'
<1> DEFINE v == workers[w]
<1>1. workers \in Seq(WorkerRec(next)) /\ w \in DOMAIN workers
  BY DEF GatewayInv, Types
<1>2. v \in WorkerRec(next)
  BY <1>1
<1>3. CASE workers' = [workers EXCEPT ![w].ended = TRUE]
  <2> DEFINE u == [v EXCEPT !.ended = TRUE]
  <2>1. workers' = [workers EXCEPT ![w] = u]
    BY <1>1, <1>3
  <2>2. u \in WorkerRec(next) /\ u.ring = v.ring
    <3> HIDE DEF v
    <3> QED
      BY <1>2 DEF WorkerRec
  <2> HIDE DEF u
  <2> QED
    BY <2>1, <2>2, SameRings
<1>4. CASE workers' = [workers EXCEPT ![w].stop = TRUE]
  <2> DEFINE u == [v EXCEPT !.stop = TRUE]
  <2>1. workers' = [workers EXCEPT ![w] = u]
    BY <1>1, <1>4
  <2>2. u \in WorkerRec(next) /\ u.ring = v.ring
    <3> HIDE DEF v
    <3> QED
      BY <1>2 DEF WorkerRec
  <2> HIDE DEF u
  <2> QED
    BY <2>1, <2>2, SameRings
<1> QED
  BY <1>3, <1>4

\* The workers and the ingress server.
LEMMA IngressOnce ==
  ASSUME GatewayInv, GatewayInv', OnceInv, IngressSteps
  PROVE  OnceInv'
<1>1. UNCHANGED <<senders, net, dups>>
  BY DEF IngressSteps, egress, network
<1>2. DOMAIN workers = 1 .. Len(workers) /\ worker \in 0 .. Len(workers) /\ Len(workers) \in Nat
  <2>1. workers \in Seq(WorkerRec(next)) /\ worker \in 0 .. Len(workers)
    BY DEF GatewayInv, Types
  <2> QED
    BY <2>1
<1>3. ASSUME UNCHANGED <<delivered, workers>> PROVE OnceInv'
  BY <1>1, <1>3 DEF OnceInv
<1>4. ASSUME NEW w \in DOMAIN workers, processFrame(w) PROVE OnceInv'
  BY <1>1, <1>4, ProcessOnce
<1>5. ASSUME NEW w \in DOMAIN workers, WorkerEnd(w) PROVE OnceInv'
  <2>1. workers' = [workers EXCEPT ![w].ended = TRUE] /\ UNCHANGED delivered
    BY <1>5 DEF WorkerEnd
  <2> QED
    BY <1>1, <1>2, <2>1, StopOnce
<1>6. CASE ReleaseRemoved
  BY <1>3, <1>6 DEF ReleaseRemoved
<1>7. CASE DiscardRead
  <2>1. /\ UNCHANGED delivered
        /\ \/ worker # 0 /\ workers' = [workers EXCEPT ![worker].stop = TRUE]
           \/ UNCHANGED workers
    BY <1>7 DEF DiscardRead, ServerCleanup
  <2>2. CASE worker # 0 /\ workers' = [workers EXCEPT ![worker].stop = TRUE]
    <3>1. worker \in 1 .. Len(workers)
      BY <1>2, <2>2
    <3> QED
      BY <1>1, <2>1, <2>2, <3>1, StopOnce
  <2>3. CASE UNCHANGED workers
    BY <1>3, <2>1, <2>3
  <2> QED
    BY <2>1, <2>2, <2>3
<1> QED
  BY <1>4, <1>5, <1>6, <1>7 DEF IngressSteps

LEMMA OnceNext == GatewayInv /\ GatewayInv' /\ OnceInv /\ [Next]_vars => OnceInv'
<1> SUFFICES ASSUME GatewayInv, GatewayInv', OnceInv, [Next]_vars PROVE OnceInv'
  OBVIOUS
<1>1. CASE Hosts
  BY <1>1, HostsOnce
<1>2. CASE \E s \in DOMAIN senders : SenderRun(s)
  BY <1>2, SenderOnce
<1>3. CASE \E f \in net : Receive(f)
  BY <1>3, ReceiveOnce
<1>4. CASE IngressSteps
  BY <1>4, IngressOnce
<1>5. CASE UNCHANGED vars
  <2>1. UNCHANGED <<senders, delivered, workers, net, dups>>
    BY <1>5 DEF vars, egress, ingress, network
  <2> QED
    BY <2>1 DEF OnceInv
<1> QED
  BY <1>1, <1>2, <1>3, <1>4, <1>5 DEF Next

LEMMA OnceIsDeliveredOnce == GatewayInv /\ OnceInv => DeliveredOnce
<1> SUFFICES ASSUME GatewayInv, OnceInv, NEW p \in Pkts PROVE Times(delivered, p) <= 1 + dups
  BY DEF DeliveredOnce, Times
<1>1. next \in Nat /\ workers \in Seq(WorkerRec(next)) /\ delivered \in Seq(Whole(next))
  BY DEF GatewayInv, Types
<1> DEFINE t == Times(delivered, p)
           y == InRings(workers, p)
           b == OnTheWay(net, p)
<1>2. t \in Nat /\ y \in Nat /\ b \in {0, 1} /\ Copies(delivered, workers, net, p) = t + y + b
  BY <1>1, CopiesType
<1>3. dups \in Nat /\ Copies(delivered, workers, net, p) <= 1 + dups
  BY DEF OnceInv, Counted
<1> HIDE DEF t, y, b
<1>4. t <= 1 + dups
  BY <1>2, <1>3
<1> QED
  BY <1>4 DEF t

\* Theorem: a packet is delivered at most once, and once more only for a frame the
\* network duplicated, for all packets, paths, frame sizes, pools and rings: what a sender
\* still has to send has no copy behind it, a packet ends in one frame on the network,
\* and the copies of it that are delivered, in a ring or on their way are at most one
\* more than the frames that were duplicated.
THEOREM GatewayDeliveredOnce == Spec => []DeliveredOnce
<1>1. Init => GatewayInv /\ OnceInv
  BY GatewayInit, OnceInit
<1>2. (GatewayInv /\ OnceInv) /\ [Next]_vars => (GatewayInv /\ OnceInv)'
  BY GatewayNext, OnceNext
<1>3. GatewayInv /\ OnceInv => DeliveredOnce
  BY OnceIsDeliveredOnce
<1> QED
  BY <1>1, <1>2, <1>3, PTL DEF Spec

=============================================================================
