------------------------- MODULE ForwardingProofs -------------------------
(* Forwarding for every topology and all beacons.  A path means a walk: the    *)
(* ASes, interfaces, MACs and accumulators of its hops.  Beacons are walks,    *)
(* the edges the combinator makes of them are, and so are the edges of a       *)
(* solution joined; the path it builds carries that walk.  A router that gets  *)
(* the packet at hop k of the walk passes it on at the next hop, and the       *)
(* reversed path carries the walk back.                                        *)
EXTENDS Forwarding, ProofBasics

\* A sequence of whatever.
IsSeq(s) == Len(s) \in Nat /\ s = [i \in 1 .. Len(s) |-> s[i]]

\* A function on 1 .. n is a sequence of length n.
LEMMA SeqFun ==
  ASSUME NEW n \in Nat, NEW s, s = [i \in 1 .. n |-> s[i]]
  PROVE  IsSeq(s) /\ Len(s) = n
<1> DEFINE T == {s[i] : i \in 1 .. n}
<1>1. s \in [1 .. n -> T]
  OBVIOUS
<1>2. s \in Seq(T) /\ Len(s) = n
  BY <1>1
<1> QED
  BY <1>2 DEF IsSeq

\* The domain and a type of a sequence.
LEMMA SeqIs ==
  ASSUME NEW s, IsSeq(s)
  PROVE  /\ DOMAIN s = 1 .. Len(s) /\ Len(s) \in Nat
         /\ s \in Seq({s[i] : i \in 1 .. Len(s)})
<1> DEFINE T == {s[i] : i \in 1 .. Len(s)}
           n == Len(s)
<1>1. n \in Nat /\ s = [i \in 1 .. n |-> s[i]]
  BY DEF IsSeq
<1> HIDE DEF n
<1>2. s \in [1 .. n -> T]
  BY <1>1 DEF n
<1>3. s \in Seq(T)
  BY <1>1, <1>2
<1>4. DOMAIN s = 1 .. n
  BY <1>1
<1> QED
  BY <1>1, <1>3, <1>4 DEF n

\* A sequence with one of its elements replaced.
Put(s, i, x) == [s EXCEPT ![i] = x]

\* Replacing an element keeps the length and the others.
LEMMA SeqPut ==
  ASSUME NEW s, IsSeq(s), NEW i, NEW x
  PROVE  /\ IsSeq(Put(s, i, x)) /\ Len(Put(s, i, x)) = Len(s)
         /\ \A j \in 1 .. Len(s) : Put(s, i, x)[j] = IF j = i THEN x ELSE s[j]
<1> DEFINE n == Len(s)
           t == Put(s, i, x)
<1>1. n \in Nat /\ DOMAIN s = 1 .. n
  BY SeqIs
<1> HIDE DEF n
<1>2. t = [j \in 1 .. n |-> t[j]] /\ \A j \in 1 .. n : t[j] = IF j = i THEN x ELSE s[j]
  BY <1>1 DEF Put
<1> HIDE DEF t
<1>3. IsSeq(t) /\ Len(t) = n
  BY <1>1, <1>2, SeqFun
<1> QED
  BY <1>2, <1>3 DEF t, n

\* What Reverse returns, element by element.
LEMMA SeqReverse ==
  ASSUME NEW s, IsSeq(s)
  PROVE  /\ IsSeq(Reverse(s)) /\ Len(Reverse(s)) = Len(s)
         /\ \A j \in 1 .. Len(s) : Reverse(s)[j] = s[Len(s) + 1 - j]
<1> DEFINE n == Len(s)
           t == Reverse(s)
<1>1. n \in Nat
  BY SeqIs
<1>2. t = [j \in 1 .. n |-> s[(n - j) + 1]]
  BY DEF Reverse
<1> HIDE DEF n, t
<1>3. t = [j \in 1 .. n |-> t[j]] /\ \A j \in 1 .. n : t[j] = s[n + 1 - j]
  <2>1. \A j \in 1 .. n : (n - j) + 1 = n + 1 - j
    BY <1>1
  <2> QED
    BY <1>2, <2>1
<1>4. IsSeq(t) /\ Len(t) = n
  BY <1>1, <1>3, SeqFun
<1> QED
  BY <1>3, <1>4 DEF t, n

\* Typed sequences are sequences.
LEMMA SeqTyped ==
  ASSUME NEW T, NEW s, s \in Seq(T)
  PROVE  IsSeq(s)
<1>1. Len(s) \in Nat /\ s \in [1 .. Len(s) -> T]
  OBVIOUS
<1> QED
  BY <1>1 DEF IsSeq

\* What a concatenation holds, element by element.
LEMMA SeqCat ==
  ASSUME NEW s, IsSeq(s), NEW t, IsSeq(t)
  PROVE  /\ IsSeq(s \o t) /\ Len(s \o t) = Len(s) + Len(t)
         /\ \A j \in 1 .. (Len(s) + Len(t)) : (s \o t)[j] = IF j <= Len(s) THEN s[j] ELSE t[j - Len(s)]
<1> DEFINE T == {s[i] : i \in 1 .. Len(s)} \cup {t[i] : i \in 1 .. Len(t)}
<1>1. s \in Seq(T) /\ t \in Seq(T)
  <2>1. Len(s) \in Nat /\ s = [i \in 1 .. Len(s) |-> s[i]] /\ Len(t) \in Nat /\ t = [i \in 1 .. Len(t) |-> t[i]]
    BY DEF IsSeq
  <2>2. s \in [1 .. Len(s) -> T] /\ t \in [1 .. Len(t) -> T]
    BY <2>1
  <2> HIDE DEF T
  <2> QED
    BY <2>1, <2>2
<1> HIDE DEF T
<1>2. /\ Len(s \o t) = Len(s) + Len(t) /\ s \o t \in Seq(T)
      /\ \A j \in 1 .. (Len(s) + Len(t)) : (s \o t)[j] = IF j <= Len(s) THEN s[j] ELSE t[j - Len(s)]
  BY <1>1, ConcatProperties
<1> DEFINE u == s \o t
<1> HIDE DEF u
<1>3. IsSeq(u)
  BY <1>2, SeqTyped DEF u
<1> QED
  BY <1>2, <1>3 DEF u

---------------------------------------------------------------------------
(* Paths.                                                                    *)

IsInfo(i) ==
  /\ i = [segID |-> i.segID, ts |-> i.ts, consDir |-> i.consDir, peer |-> i.peer]
  /\ i.consDir \in BOOLEAN /\ i.peer \in BOOLEAN

IsHop(h) == h = [in |-> h.in, eg |-> h.eg, exp |-> h.exp, mac |-> h.mac,
                 inAlert |-> h.inAlert, egAlert |-> h.egAlert]

\* The lengths of the segments, for a number of info fields and of hop fields.
Measured(len, infs, hops) ==
  /\ len = [i \in 1 .. 3 |-> len[i]] /\ len[1] \in Nat /\ len[2] \in Nat /\ len[3] \in Nat
  /\ infs \in 1 .. 3 /\ hops = len[1] + len[2] + len[3]
  /\ len[1] > 0 /\ (len[2] > 0 <=> infs > 1) /\ (len[3] > 0 <=> infs > 2)

\* A path header that is consistent except for its pointers.
IsPath(p) ==
  /\ p = [segLen |-> p.segLen, infos |-> p.infos, hops |-> p.hops, currINF |-> p.currINF, currHF |-> p.currHF]
  /\ Measured(p.segLen, Len(p.infos), Len(p.hops))
  /\ IsSeq(p.infos) /\ \A i \in 1 .. Len(p.infos) : IsInfo(p.infos[i])
  /\ IsSeq(p.hops) /\ \A h \in 1 .. Len(p.hops) : IsHop(p.hops[h])

Pointed(p) == p.currHF \in 0 .. (Len(p.hops) - 1) /\ p.currINF = infIndexForHF(p, p.currHF)

\* q is p but for pointers, accumulators and router alerts.
Alike(p, q) ==
  /\ IsPath(q) /\ q.segLen = p.segLen /\ Len(q.infos) = Len(p.infos) /\ Len(q.hops) = Len(p.hops)
  /\ \A i \in 1 .. Len(p.infos) : /\ q.infos[i].ts = p.infos[i].ts
                                  /\ q.infos[i].consDir = p.infos[i].consDir
                                  /\ q.infos[i].peer = p.infos[i].peer
  /\ \A h \in 1 .. Len(p.hops) : /\ q.hops[h].in = p.hops[h].in /\ q.hops[h].eg = p.hops[h].eg
                                 /\ q.hops[h].exp = p.hops[h].exp /\ q.hops[h].mac = p.hops[h].mac

\* Every hop field has an info field.
LEMMA IndexFacts ==
  ASSUME NEW p, IsPath(p), NEW hf \in 0 .. (Len(p.hops) - 1)
  PROVE  infIndexForHF(p, hf) \in 0 .. (Len(p.infos) - 1) /\ Len(p.infos) \in 1 .. 3 /\ Len(p.hops) \in Nat
<1> DEFINE a == p.segLen[1]
           b == p.segLen[2]
           c == p.segLen[3]
           n == Len(p.infos)
<1>1. /\ a \in Nat /\ b \in Nat /\ c \in Nat /\ n \in 1 .. 3 /\ Len(p.hops) = a + b + c
      /\ a > 0 /\ (b > 0 <=> n > 1) /\ (c > 0 <=> n > 2)
  BY DEF IsPath, Measured
<1>2. infIndexForHF(p, hf) = IF hf < a THEN 0 ELSE IF hf < a + b THEN 1 ELSE 2
  <2>1. hf \in Int
    BY <1>1
  <2> HIDE DEF a, b
  <2>2. infIndexForHF(p, hf) = CASE hf < a -> 0 [] hf >= a /\ hf < a + b -> 1 [] OTHER -> 2
    BY DEF infIndexForHF, a, b
  <2> QED
    BY <1>1, <2>1, <2>2
<1> HIDE DEF a, b, c, n
<1>3. hf \in Nat /\ hf < a + b + c
  BY <1>1
<1> DEFINE x == infIndexForHF(p, hf)
<1>4. x = IF hf < a THEN 0 ELSE IF hf < a + b THEN 1 ELSE 2
  BY <1>2
<1> HIDE DEF x
<1>5. x \in 0 .. (n - 1)
  BY ONLY <1>1, <1>3, <1>4
<1> QED
  BY <1>1, <1>5 DEF n, x

\* Where the pointers of a path are, as ranges of its lists.
LEMMA PointedFacts ==
  ASSUME NEW p, IsPath(p), Pointed(p)
  PROVE  /\ p.currHF \in Nat /\ p.currHF + 1 \in 1 .. Len(p.hops)
         /\ p.currINF \in 0 .. 2 /\ p.currINF + 1 \in 1 .. Len(p.infos)
         /\ p.currINF = infIndexForHF(p, p.currHF)
         /\ Len(p.infos) \in 1 .. 3 /\ Len(p.hops) \in Nat
<1>1. p.currHF \in 0 .. (Len(p.hops) - 1) /\ p.currINF = infIndexForHF(p, p.currHF)
  BY DEF Pointed
<1> DEFINE c == p.currHF
           f == p.currINF
           n == Len(p.infos)
           m == Len(p.hops)
<1>2. f \in 0 .. (n - 1) /\ n \in 1 .. 3 /\ m \in Nat
  BY <1>1, IndexFacts
<1>3. c \in 0 .. (m - 1)
  BY <1>1
<1> HIDE DEF c, f, n, m
<1>4. c \in Nat /\ c + 1 \in 1 .. m /\ f \in 0 .. 2 /\ f + 1 \in 1 .. n
  BY <1>2, <1>3
<1> QED
  BY <1>1, <1>2, <1>4 DEF c, f, n, m

\* UpdateSegID changes the accumulator of the current segment only.
LEMMA UpdateFacts ==
  ASSUME NEW p, IsPath(p), Pointed(p)
  PROVE  LET q == UpdateSegID(p)
         IN  /\ Alike(p, q) /\ q.currHF = p.currHF /\ q.currINF = p.currINF /\ q.hops = p.hops
             /\ \A i \in 1 .. Len(p.infos) : q.infos[i].segID =
                    IF i = p.currINF + 1 THEN SymDiff(p.infos[i].segID, {Hop(p).mac}) ELSE p.infos[i].segID
<1> DEFINE f == p.currINF + 1
           x == [Info(p) EXCEPT !.segID = SymDiff(@, {Hop(p).mac})]
           s == Put(p.infos, f, x)
           q == UpdateSegID(p)
<1>1. f \in 1 .. Len(p.infos)
  BY PointedFacts
<1>2. IsInfo(p.infos[f]) /\ Info(p) = p.infos[f]
  BY <1>1 DEF IsPath, Info
<1>3. x = [segID |-> SymDiff(p.infos[f].segID, {Hop(p).mac}), ts |-> p.infos[f].ts,
           consDir |-> p.infos[f].consDir, peer |-> p.infos[f].peer]
  <2> DEFINE i == p.infos[f]
             t == SymDiff(i.segID, {Hop(p).mac})
  <2>1. x = [i EXCEPT !.segID = t]
    BY <1>2
  <2>2. i = [segID |-> i.segID, ts |-> i.ts, consDir |-> i.consDir, peer |-> i.peer]
    BY <1>2 DEF IsInfo
  <2> HIDE DEF i, t, x
  <2>3. x = [segID |-> t, ts |-> i.ts, consDir |-> i.consDir, peer |-> i.peer]
    BY <2>1, <2>2
  <2> QED
    BY <2>3 DEF i, t
<1>4. IsInfo(x) /\ x.segID = SymDiff(p.infos[f].segID, {Hop(p).mac}) /\ x.ts = p.infos[f].ts
      /\ x.consDir = p.infos[f].consDir /\ x.peer = p.infos[f].peer
  BY <1>2, <1>3 DEF IsInfo
<1>5. IsSeq(p.infos) /\ \A i \in 1 .. Len(p.infos) : IsInfo(p.infos[i])
  BY DEF IsPath
<1> HIDE DEF x
<1>6. IsSeq(s) /\ Len(s) = Len(p.infos) /\ \A j \in 1 .. Len(p.infos) : s[j] = IF j = f THEN x ELSE p.infos[j]
  BY <1>5, SeqPut
<1> HIDE DEF s
<1>7. q = [segLen |-> p.segLen, infos |-> s, hops |-> p.hops, currINF |-> p.currINF, currHF |-> p.currHF]
  <2>1. q = [p EXCEPT !.infos[f] = x]
    BY DEF UpdateSegID, SetInfoField, x
  <2>2. p = [segLen |-> p.segLen, infos |-> p.infos, hops |-> p.hops, currINF |-> p.currINF, currHF |-> p.currHF]
    BY DEF IsPath
  <2> HIDE DEF q, f
  <2> QED
    BY <2>1, <2>2 DEF s, Put
<1> HIDE DEF q, f
<1>8. q.segLen = p.segLen /\ q.infos = s /\ q.hops = p.hops /\ q.currINF = p.currINF /\ q.currHF = p.currHF
  BY <1>7
<1>9. IsPath(q)
  <2>1. \A j \in 1 .. Len(s) : IsInfo(s[j])
    BY <1>4, <1>5, <1>6
  <2> QED
    BY <1>6, <1>7, <1>8, <2>1 DEF IsPath
<1>10. \A i \in 1 .. Len(p.infos) : s[i].ts = p.infos[i].ts /\ s[i].consDir = p.infos[i].consDir /\ s[i].peer = p.infos[i].peer
  BY <1>4, <1>6
<1>11. \A i \in 1 .. Len(p.infos) : s[i].segID = IF i = f THEN SymDiff(p.infos[i].segID, {Hop(p).mac}) ELSE p.infos[i].segID
  BY <1>4, <1>6
<1>12. Alike(p, q)
  BY <1>6, <1>8, <1>9, <1>10 DEF Alike
<1> QED
  BY <1>8, <1>11, <1>12 DEF q, f

\* A path with one hop field replaced.
WithHop(p, k, x) == [p EXCEPT !.hops[k] = x]

\* A path with one hop field replaced is a path.
LEMMA WithHopPath ==
  ASSUME NEW p, IsPath(p), NEW k, NEW x, k \in 1 .. Len(p.hops) => IsHop(x)
  PROVE  LET q == WithHop(p, k, x)
         IN  /\ IsPath(q) /\ q.segLen = p.segLen /\ q.infos = p.infos /\ Len(q.hops) = Len(p.hops)
             /\ q.currHF = p.currHF /\ q.currINF = p.currINF
             /\ \A h \in 1 .. Len(p.hops) : q.hops[h] = IF h = k THEN x ELSE p.hops[h]
<1> DEFINE s == Put(p.hops, k, x)
           q == WithHop(p, k, x)
<1>1. IsSeq(p.hops) /\ \A h \in 1 .. Len(p.hops) : IsHop(p.hops[h])
  BY DEF IsPath
<1>2. IsSeq(s) /\ Len(s) = Len(p.hops) /\ \A j \in 1 .. Len(p.hops) : s[j] = IF j = k THEN x ELSE p.hops[j]
  BY <1>1, SeqPut
<1> HIDE DEF s
<1>3. q = [segLen |-> p.segLen, infos |-> p.infos, hops |-> s, currINF |-> p.currINF, currHF |-> p.currHF]
  <2>1. q = [p EXCEPT !.hops[k] = x]
    BY DEF WithHop
  <2>2. p = [segLen |-> p.segLen, infos |-> p.infos, hops |-> p.hops, currINF |-> p.currINF, currHF |-> p.currHF]
    BY DEF IsPath
  <2> HIDE DEF q
  <2> QED
    BY <2>1, <2>2 DEF s, Put
<1> HIDE DEF q
<1>4. q.segLen = p.segLen /\ q.infos = p.infos /\ q.hops = s /\ q.currINF = p.currINF /\ q.currHF = p.currHF
  BY <1>3
<1>5. IsPath(q)
  <2>1. \A j \in 1 .. Len(s) : IsHop(s[j])
    BY <1>1, <1>2
  <2> QED
    BY <1>2, <1>3, <1>4, <2>1 DEF IsPath
<1> QED
  BY <1>2, <1>4, <1>5 DEF q

\* A hop field with the same interfaces, expiry and MAC leaves a path alike.
LEMMA WithHopFacts ==
  ASSUME NEW p, IsPath(p), NEW k, NEW x,
         k \in 1 .. Len(p.hops) => /\ IsHop(x) /\ x.in = p.hops[k].in /\ x.eg = p.hops[k].eg
                                   /\ x.exp = p.hops[k].exp /\ x.mac = p.hops[k].mac
  PROVE  LET q == WithHop(p, k, x)
         IN  Alike(p, q) /\ q.currHF = p.currHF /\ q.currINF = p.currINF /\ q.infos = p.infos
<1> DEFINE q == WithHop(p, k, x)
<1>1. /\ IsPath(q) /\ q.segLen = p.segLen /\ q.infos = p.infos /\ Len(q.hops) = Len(p.hops)
      /\ q.currHF = p.currHF /\ q.currINF = p.currINF
      /\ \A h \in 1 .. Len(p.hops) : q.hops[h] = IF h = k THEN x ELSE p.hops[h]
  BY WithHopPath
<1> HIDE DEF q
<1>2. \A h \in 1 .. Len(p.hops) : /\ q.hops[h].in = p.hops[h].in /\ q.hops[h].eg = p.hops[h].eg
                                  /\ q.hops[h].exp = p.hops[h].exp /\ q.hops[h].mac = p.hops[h].mac
  BY <1>1
<1>3. Alike(p, q)
  BY <1>1, <1>2 DEF Alike
<1> QED
  BY <1>1, <1>3 DEF q

\* The changes of an alert flag of a hop field.
Flagged(h) == {[h EXCEPT !.inAlert = b] : b \in BOOLEAN} \cup {[h EXCEPT !.egAlert = b] : b \in BOOLEAN}

\* Router alert flags are not part of what a MAC protects.
LEMMA AlertChange ==
  ASSUME NEW h, IsHop(h), NEW g, g \in Flagged(h)
  PROVE  /\ IsHop(g) /\ g.in = h.in /\ g.eg = h.eg /\ g.exp = h.exp /\ g.mac = h.mac
<1>1. h = [in |-> h.in, eg |-> h.eg, exp |-> h.exp, mac |-> h.mac, inAlert |-> h.inAlert, egAlert |-> h.egAlert]
  BY DEF IsHop
<1>2. ASSUME NEW b, g = [h EXCEPT !.inAlert = b] PROVE IsHop(g) /\ g.in = h.in /\ g.eg = h.eg /\ g.exp = h.exp /\ g.mac = h.mac
  <2>1. g = [in |-> h.in, eg |-> h.eg, exp |-> h.exp, mac |-> h.mac, inAlert |-> b, egAlert |-> h.egAlert]
    BY <1>1, <1>2
  <2> QED
    BY <2>1 DEF IsHop
<1>3. ASSUME NEW b, g = [h EXCEPT !.egAlert = b] PROVE IsHop(g) /\ g.in = h.in /\ g.eg = h.eg /\ g.exp = h.exp /\ g.mac = h.mac
  <2>1. g = [in |-> h.in, eg |-> h.eg, exp |-> h.exp, mac |-> h.mac, inAlert |-> h.inAlert, egAlert |-> b]
    BY <1>1, <1>3
  <2> QED
    BY <2>1 DEF IsHop
<1> QED
  BY <1>2, <1>3 DEF Flagged

\* Routers clear the alert they answer.
LEMMA ClearFacts ==
  ASSUME NEW p, IsPath(p), Pointed(p), NEW q, q \in {clearIngressAlert(p), clearEgressAlert(p)}
  PROVE  Alike(p, q) /\ q.currHF = p.currHF /\ q.currINF = p.currINF
<1> DEFINE k == p.currHF + 1
<1>1. k \in 1 .. Len(p.hops) /\ IsHop(p.hops[k])
  BY PointedFacts DEF IsPath
<1>2. PICK x \in Flagged(p.hops[k]) : q = WithHop(p, k, x)
  BY DEF Flagged, clearIngressAlert, clearEgressAlert, SetHopField, WithHop, Hop
<1>3. IsHop(x) /\ x.in = p.hops[k].in /\ x.eg = p.hops[k].eg /\ x.exp = p.hops[k].exp /\ x.mac = p.hops[k].mac
  BY <1>1, <1>2, AlertChange
<1> HIDE DEF k
<1> QED
  BY <1>2, <1>3, WithHopFacts

\* A probe of a traceroute.
LEMMA SetAlertFacts ==
  ASSUME NEW p, IsPath(p), NEW probe
  PROVE  LET q == SetAlert(p, probe)
         IN  Alike(p, q) /\ q.currHF = p.currHF /\ q.currINF = p.currINF /\ q.infos = p.infos
<1> DEFINE k == probe.hf + 1
           q == SetAlert(p, probe)
<1>1. PICK x \in Flagged(p.hops[k]) : q = WithHop(p, k, x)
  <2>1. q = WithHop(p, k, [p.hops[k] EXCEPT !.egAlert = TRUE]) \/ q = WithHop(p, k, [p.hops[k] EXCEPT !.inAlert = TRUE])
    BY DEF SetAlert, WithHop
  <2> QED
    BY <2>1 DEF Flagged
<1>2. k \in 1 .. Len(p.hops) => /\ IsHop(x) /\ x.in = p.hops[k].in /\ x.eg = p.hops[k].eg
                                /\ x.exp = p.hops[k].exp /\ x.mac = p.hops[k].mac
  <2>1. k \in 1 .. Len(p.hops) => IsHop(p.hops[k])
    BY DEF IsPath
  <2> QED
    BY <1>1, <2>1, AlertChange
<1> HIDE DEF k, q
<1>3. Alike(p, q) /\ q.currHF = p.currHF /\ q.currINF = p.currINF /\ q.infos = p.infos
  BY <1>1, <1>2, WithHopFacts
<1> QED
  BY <1>3 DEF q

\* IncPath moves on by one hop field, stops at the last one, and CurrINF follows CurrHF.
LEMMA IncFacts ==
  ASSUME NEW p, IsPath(p), Pointed(p)
  PROVE  LET q == IncPath(p)
         IN  /\ Alike(p, q) /\ Pointed(q) /\ q.infos = p.infos /\ q.hops = p.hops
             /\ q.currHF = IF p.currHF + 1 < Len(p.hops) THEN p.currHF + 1 ELSE p.currHF
<1> DEFINE q == IncPath(p)
           c == p.currHF
           i == infIndexForHF(p, c + 1)
<1>1. c \in Nat /\ Len(p.hops) \in Nat /\ c + 1 \in 1 .. Len(p.hops) /\ p.currINF = infIndexForHF(p, c)
  BY PointedFacts
<1>2. p = [segLen |-> p.segLen, infos |-> p.infos, hops |-> p.hops, currINF |-> p.currINF, currHF |-> c]
  BY DEF IsPath
<1>3. CASE c >= NumHops(p) - 1
  <2>1. q = p
    BY <1>3 DEF IncPath
  <2>2. ~(c + 1 < Len(p.hops))
    BY <1>1, <1>3 DEF NumHops
  <2> QED
    BY <2>1, <2>2 DEF Alike
<1>4. CASE ~(c >= NumHops(p) - 1)
  <2>1. c + 1 < Len(p.hops)
    BY <1>1, <1>4 DEF NumHops
  <2>2. q = [segLen |-> p.segLen, infos |-> p.infos, hops |-> p.hops, currINF |-> i, currHF |-> c + 1]
    <3>1. q = [p EXCEPT !.currHF = c + 1, !.currINF = i]
      BY <1>4 DEF IncPath
    <3> HIDE DEF q, i, c
    <3> DEFINE r == [p EXCEPT !.currHF = c + 1]
    <3>2. r = [segLen |-> p.segLen, infos |-> p.infos, hops |-> p.hops, currINF |-> p.currINF, currHF |-> c + 1]
      BY <1>2
    <3>3. q = [r EXCEPT !.currINF = i]
      BY <3>1
    <3> HIDE DEF r
    <3> QED
      BY <3>2, <3>3
  <2> HIDE DEF q
  <2>3. /\ q.segLen = p.segLen /\ q.infos = p.infos /\ q.hops = p.hops /\ q.currINF = i /\ q.currHF = c + 1
    BY <2>2
  <2>4. IsPath(q)
    BY <2>2, <2>3 DEF IsPath
  <2>5. Alike(p, q)
    BY <2>3, <2>4 DEF Alike
  <2>6. infIndexForHF(q, q.currHF) = i
    BY <2>3 DEF infIndexForHF
  <2>7. Pointed(q)
    BY <1>1, <2>1, <2>3, <2>6 DEF Pointed
  <2> QED
    BY <2>1, <2>3, <2>5, <2>7 DEF q
<1> QED
  BY <1>3, <1>4

\* A path that a router may make of another.
Moves(p, q) == Alike(p, q) /\ Pointed(q)

\* Steps of a path that a router may make add up.
LEMMA MovesTrans ==
  ASSUME NEW p, NEW q, NEW r, Moves(p, q), Moves(q, r)
  PROVE  Moves(p, r)
BY DEF Moves, Alike

\* The same pointers fit a path that is alike.
LEMMA AlikePointed ==
  ASSUME NEW p, Pointed(p), NEW q, Alike(p, q), q.currHF = p.currHF, q.currINF = p.currINF
  PROVE  Moves(p, q)
<1>1. infIndexForHF(q, q.currHF) = infIndexForHF(p, p.currHF)
  BY DEF Alike, infIndexForHF
<1> QED
  BY <1>1 DEF Alike, Moves, Pointed

\* Whatever a router does to the path keeps it alike and its pointers inside.
LEMMA RouterMoves ==
  ASSUME NEW p, IsPath(p), Pointed(p), NEW in, NEW b
  PROVE  /\ Moves(p, p) /\ Moves(p, IncPath(p)) /\ Moves(p, UpdateSegID(p))
         /\ Moves(p, updateNonConsDirIngressSegID(p, in, b))
         /\ Moves(p, doXover(p, b)) /\ Moves(p, processEgress(p, b))
         /\ Moves(p, clearIngressAlert(p)) /\ Moves(p, clearEgressAlert(p))
<1>1. Moves(p, p)
  BY DEF Moves, Alike
<1>2. Moves(p, IncPath(p))
  BY IncFacts DEF Moves
<1>3. Moves(p, UpdateSegID(p))
  BY UpdateFacts, AlikePointed
<1>4. Moves(p, updateNonConsDirIngressSegID(p, in, b))
  BY <1>1, <1>3 DEF updateNonConsDirIngressSegID
<1>5. Moves(p, doXover(p, b))
  BY <1>1, <1>2 DEF doXover
<1>6. Moves(p, processEgress(p, b))
  <2>1. CASE Info(p).consDir /\ ~b
    <3>1. IsPath(UpdateSegID(p)) /\ Pointed(UpdateSegID(p))
      BY <1>3 DEF Moves, Alike
    <3>2. Moves(UpdateSegID(p), IncPath(UpdateSegID(p)))
      BY <3>1, IncFacts DEF Moves
    <3>3. processEgress(p, b) = IncPath(UpdateSegID(p))
      BY <2>1 DEF processEgress
    <3> QED
      BY <1>3, <3>2, <3>3, MovesTrans
  <2>2. CASE ~(Info(p).consDir /\ ~b)
    BY <1>2, <2>2 DEF processEgress
  <2> QED
    BY <2>1, <2>2
<1>7. Moves(p, clearIngressAlert(p)) /\ Moves(p, clearEgressAlert(p))
  BY ClearFacts, AlikePointed
<1> QED
  BY <1>1, <1>2, <1>3, <1>4, <1>5, <1>6, <1>7

Dispositions == {"drop", "slow", "alert", "deliver", "external", "internal"}

\* An outcome of the fast path for a path that p may become.
Disposes(p, o) == o.do \in Dispositions /\ Moves(p, o.path)

\* The checks after the cross-over end with a disposition and a path that is alike.
LEMMA OutboundDisposes ==
  ASSUME NEW r, NEW in, NEW now_, NEW down_, NEW peering, NEW xover, NEW p, IsPath(p), Pointed(p)
  PROVE  Disposes(p, outbound(r, in, now_, down_, peering, xover, p))
<1>1. ASSUME NEW do \in Dispositions, NEW arg, NEW q, Moves(p, q) PROVE Disposes(p, Outcome(do, arg, q))
  <2> DEFINE o == Outcome(do, arg, q)
  <2>1. o.do = do /\ o.path = q
    BY DEF Outcome
  <2> QED
    BY <1>1, <2>1 DEF Disposes
<1> DEFINE id == egressInterface(p)
           last == IF id \in external(r) THEN Outcome("external", id, processEgress(p, peering))
                                         ELSE Outcome("internal", id, p)
<1>2. Moves(p, p) /\ Moves(p, processEgress(p, peering)) /\ Moves(p, clearEgressAlert(p))
  BY RouterMoves
<1>3. Disposes(p, last)
  <2> HIDE DEF id
  <2>1. Disposes(p, Outcome("external", id, processEgress(p, peering))) /\ Disposes(p, Outcome("internal", id, p))
    BY <1>1, <1>2 DEF Dispositions
  <2> QED
    BY <2>1
<1>4. \A arg : Disposes(p, Outcome("slow", arg, p))
  BY <1>1, <1>2 DEF Dispositions
<1>5. Disposes(p, Outcome("alert", id, clearEgressAlert(p)))
  BY <1>1, <1>2 DEF Dispositions
<1> HIDE DEF last, id
<1>6. Disposes(p, validateEgressUp(r, p, down_, last))
  BY <1>3, <1>4 DEF validateEgressUp
<1>7. Disposes(p, egressChecks(r, p, down_, last))
  BY <1>5, <1>6 DEF egressChecks, handleEgressRouterAlert, id
<1> QED
  BY <1>4, <1>7 DEF outbound, last, id

\* So does the whole fast path, for any packet with a readable header.
LEMMA ProcessDisposes ==
  ASSUME NEW r, NEW in, NEW from, NEW pk, NEW now_, NEW down_, IsPath(pk.path), Pointed(pk.path)
  PROVE  Disposes(pk.path, process(r, in, from, pk, now_, down_))
<1> DEFINE p == pk.path
           peering == determinePeer(p)
           p1 == updateNonConsDirIngressSegID(p, in, peering)
           p2 == doXover(p1, peering)
           rest == outbound(r, in, now_, down_, peering, p2.currHF # p1.currHF, p2)
<1> HIDE DEF p, peering
<1>1. IsPath(p) /\ Pointed(p)
  BY DEF p
<1>2. Moves(p, p) /\ Moves(p, p1)
  BY <1>1, RouterMoves
<1>3. IsPath(p1) /\ Pointed(p1)
  BY <1>2 DEF Moves, Alike
<1> HIDE DEF p1
<1>4. Moves(p1, p2) /\ Moves(p1, clearIngressAlert(p1))
  BY <1>3, RouterMoves
<1>5. IsPath(p2) /\ Pointed(p2)
  BY <1>4 DEF Moves, Alike
<1> HIDE DEF p2
<1>6. Disposes(p2, rest)
  BY <1>5, OutboundDisposes
<1> HIDE DEF rest
<1>7. Disposes(p, rest)
  BY <1>2, <1>4, <1>6, MovesTrans DEF Disposes
<1>8. ASSUME NEW do \in Dispositions, NEW arg, NEW q, Moves(p, q) PROVE Disposes(p, Outcome(do, arg, q))
  <2> DEFINE o == Outcome(do, arg, q)
  <2>1. o.do = do /\ o.path = q
    BY DEF Outcome
  <2> QED
    BY <1>8, <2>1 DEF Disposes
<1>9. Moves(p, clearIngressAlert(p1))
  BY <1>2, <1>4, MovesTrans
<1>10. /\ \A arg : /\ Disposes(p, Outcome("drop", arg, p)) /\ Disposes(p, Outcome("slow", arg, p))
                   /\ Disposes(p, Outcome("slow", arg, p1)) /\ Disposes(p, Outcome("deliver", arg, p1))
       /\ Disposes(p, Outcome("alert", in, clearIngressAlert(p1)))
  BY <1>2, <1>8, <1>9 DEF Dispositions
<1>11. Disposes(p, inbound(r, in, from, pk, now_, peering, p1, rest))
  BY <1>7, <1>10 DEF inbound, p
<1> QED
  BY <1>11 DEF process, p, peering, p1, p2, rest

\* The second hop field of a one-hop path is filled in on delivery.
LEMMA OneHopPath ==
  ASSUME NEW r, NEW in, NEW pk, IsPath(pk.path), Pointed(pk.path)
  PROVE  LET o == processOHP(r, in, pk)
         IN  o.do \in Dispositions /\ IsPath(o.path) /\ Pointed(o.path)
<1> DEFINE p == pk.path
           o == processOHP(r, in, pk)
           second == createHopF(IA(r), in, 0, Info(p).ts, Info(p).segID)
           mac == MAC(IA(r), Info(p).segID, Info(p).ts, Hop(p).exp, in, 0)
           x == [second EXCEPT !.exp = Hop(p).exp, !.mac = mac]
           q == WithHop(p, 2, x)
<1> HIDE DEF p
<1>1. IsPath(p) /\ Pointed(p)
  BY DEF p
<1>2. o \in {Outcome("drop", 0, p), Outcome("external", Hop(p).eg, UpdateSegID(p)), Outcome("deliver", 0, q)}
  BY DEF processOHP, WithHop, p
<1>3. x = [in |-> in, eg |-> 0, exp |-> Hop(p).exp, mac |-> mac, inAlert |-> second.inAlert, egAlert |-> second.egAlert]
  <2> HIDE DEF mac
  <2>1. second = [in |-> in, eg |-> 0, exp |-> second.exp, mac |-> second.mac, inAlert |-> second.inAlert, egAlert |-> second.egAlert]
    BY DEF createHopF, HopField
  <2> HIDE DEF second
  <2> DEFINE y == [second EXCEPT !.exp = Hop(p).exp]
  <2>2. y = [in |-> in, eg |-> 0, exp |-> Hop(p).exp, mac |-> second.mac, inAlert |-> second.inAlert, egAlert |-> second.egAlert]
    BY <2>1
  <2>3. x = [y EXCEPT !.mac = mac]
    OBVIOUS
  <2> HIDE DEF y, x
  <2> QED
    BY <2>2, <2>3
<1>4. IsHop(x)
  BY <1>3 DEF IsHop
<1> HIDE DEF x, o
<1>5. IsPath(q) /\ q.segLen = p.segLen /\ Len(q.hops) = Len(p.hops) /\ q.currHF = p.currHF /\ q.currINF = p.currINF
  BY <1>1, <1>4, WithHopPath
<1> HIDE DEF q
<1>6. infIndexForHF(q, q.currHF) = infIndexForHF(p, p.currHF)
  BY <1>5 DEF infIndexForHF
<1>7. Pointed(q)
  BY <1>1, <1>5, <1>6 DEF Pointed
<1>8. IsPath(UpdateSegID(p)) /\ Pointed(UpdateSegID(p))
  BY <1>1, RouterMoves DEF Moves, Alike
<1>9. o.do \in {"drop", "external", "deliver"} /\ o.path \in {p, UpdateSegID(p), q}
  <2> HIDE DEF p, q
  <2>1. ASSUME NEW do, NEW arg, NEW t PROVE Outcome(do, arg, t).do = do /\ Outcome(do, arg, t).path = t
    BY DEF Outcome
  <2> QED
    BY <1>2, <2>1
<1> QED
  BY <1>1, <1>5, <1>7, <1>8, <1>9 DEF Dispositions, o

\* The segment lengths of a reversed path measure it.
LEMMA ReverseLengths ==
  ASSUME NEW len, NEW infs, NEW hops, Measured(len, infs, hops)
  PROVE  LET rev == [i \in 1 .. 3 |-> len[IF i <= infs THEN infs + 1 - i ELSE i]]
         IN  /\ Measured(rev, infs, hops)
             /\ infs = 1 => rev[1] = len[1] /\ rev[2] = 0 /\ rev[3] = 0
             /\ infs = 2 => rev[1] = len[2] /\ rev[2] = len[1] /\ rev[3] = 0
             /\ infs = 3 => rev[1] = len[3] /\ rev[2] = len[2] /\ rev[3] = len[1]
<1> DEFINE a == len[1]
           b == len[2]
           c == len[3]
           rev == [i \in 1 .. 3 |-> len[IF i <= infs THEN infs + 1 - i ELSE i]]
<1>1. /\ a \in Nat /\ b \in Nat /\ c \in Nat /\ infs \in {1, 2, 3} /\ hops = a + b + c
      /\ a > 0 /\ (b > 0 <=> infs > 1) /\ (c > 0 <=> infs > 2)
  BY DEF Measured
<1>2. /\ rev = [i \in 1 .. 3 |-> rev[i]]
      /\ infs = 1 => rev[1] = a /\ rev[2] = b /\ rev[3] = c
      /\ infs = 2 => rev[1] = b /\ rev[2] = a /\ rev[3] = c
      /\ infs = 3 => rev[1] = c /\ rev[2] = b /\ rev[3] = a
  OBVIOUS
<1> HIDE DEF a, b, c, rev
<1>3. Measured(rev, infs, hops)
  BY <1>1, <1>2 DEF Measured
<1> QED
  BY <1>1, <1>2, <1>3 DEF rev, a, b, c

\* Reversing turns the construction direction of an info field only.
LEMMA FlipFacts ==
  ASSUME NEW i, IsInfo(i)
  PROVE  /\ IsInfo(Flip(i)) /\ Flip(i).segID = i.segID /\ Flip(i).ts = i.ts
         /\ Flip(i).consDir = ~i.consDir /\ Flip(i).peer = i.peer
<1> DEFINE c == i.consDir
           d == ~c
<1>1. i = [segID |-> i.segID, ts |-> i.ts, consDir |-> c, peer |-> i.peer] /\ c \in BOOLEAN /\ i.peer \in BOOLEAN
  BY DEF IsInfo
<1>2. Flip(i) = [i EXCEPT !.consDir = d]
  BY DEF Flip
<1>3. d \in BOOLEAN
  OBVIOUS
<1> HIDE DEF c, d
<1>4. Flip(i) = [segID |-> i.segID, ts |-> i.ts, consDir |-> d, peer |-> i.peer]
  BY <1>1, <1>2
<1>5. /\ Flip(i).segID = i.segID /\ Flip(i).ts = i.ts /\ Flip(i).consDir = d /\ Flip(i).peer = i.peer
  BY <1>4
<1>6. IsInfo(Flip(i))
  BY <1>1, <1>3, <1>4, <1>5 DEF IsInfo
<1> QED
  BY <1>5, <1>6 DEF d, c

\* Reversal: the fields change places, and the pointers with them.
LEMMA ReverseFacts ==
  ASSUME NEW p, IsPath(p), Pointed(p)
  PROVE  LET q == ReversePath(p)
             n == Len(p.hops)
             m == Len(p.infos)
         IN  /\ IsPath(q) /\ Pointed(q) /\ Len(q.hops) = n /\ Len(q.infos) = m
             /\ q.currHF = n - p.currHF - 1
             /\ \A h \in 1 .. n : q.hops[h] = p.hops[n + 1 - h]
             /\ \A i \in 1 .. m : q.infos[i] = Flip(p.infos[m + 1 - i])
             /\ \A hf \in 0 .. (n - 1) : infIndexForHF(q, hf) = m - 1 - infIndexForHF(p, n - 1 - hf)
             /\ m = 1 => q.segLen[1] = p.segLen[1] /\ q.segLen[2] = 0 /\ q.segLen[3] = 0
             /\ m = 2 => q.segLen[1] = p.segLen[2] /\ q.segLen[2] = p.segLen[1] /\ q.segLen[3] = 0
             /\ m = 3 => q.segLen[1] = p.segLen[3] /\ q.segLen[2] = p.segLen[2] /\ q.segLen[3] = p.segLen[1]
<1> DEFINE q == ReversePath(p)
           n == Len(p.hops)
           m == Len(p.infos)
           len == [i \in 1 .. 3 |-> p.segLen[IF i <= m THEN m + 1 - i ELSE i]]
           infos == [i \in 1 .. m |-> Flip(p.infos[m + 1 - i])]
           hops == Reverse(p.hops)
<1>1. /\ Measured(p.segLen, m, n) /\ IsSeq(p.infos) /\ IsSeq(p.hops)
      /\ (\A i \in 1 .. m : IsInfo(p.infos[i])) /\ \A h \in 1 .. n : IsHop(p.hops[h])
  BY DEF IsPath
<1>2. m \in 1 .. 3 /\ n \in Nat /\ p.currHF \in Nat /\ p.currHF + 1 \in 1 .. n /\ p.currINF = infIndexForHF(p, p.currHF)
  BY PointedFacts
<1>3. q = [segLen |-> len, infos |-> infos, hops |-> hops, currINF |-> m - p.currINF - 1, currHF |-> n - p.currHF - 1]
  BY DEF ReversePath, NumINF, NumHops
<1> HIDE DEF m, n
<1>4. /\ Measured(len, m, n)
      /\ m = 1 => len[1] = p.segLen[1] /\ len[2] = 0 /\ len[3] = 0
      /\ m = 2 => len[1] = p.segLen[2] /\ len[2] = p.segLen[1] /\ len[3] = 0
      /\ m = 3 => len[1] = p.segLen[3] /\ len[2] = p.segLen[2] /\ len[3] = p.segLen[1]
  BY <1>1, ReverseLengths
<1>5. IsSeq(hops) /\ Len(hops) = n /\ \A h \in 1 .. n : hops[h] = p.hops[n + 1 - h]
  BY <1>1, SeqReverse DEF n
<1>6. /\ IsSeq(infos) /\ Len(infos) = m /\ \A i \in 1 .. m : infos[i] = Flip(p.infos[m + 1 - i])
  <2>1. infos = [i \in 1 .. m |-> infos[i]] /\ \A i \in 1 .. m : infos[i] = Flip(p.infos[m + 1 - i])
    OBVIOUS
  <2> HIDE DEF infos
  <2> QED
    BY <1>2, <2>1, SeqFun
<1> HIDE DEF len, hops, infos, q
<1>7. q.segLen = len /\ q.infos = infos /\ q.hops = hops /\ q.currINF = m - p.currINF - 1 /\ q.currHF = n - p.currHF - 1
  BY <1>3
<1>8. IsPath(q)
  <2>1. \A h \in 1 .. n : n + 1 - h \in 1 .. n
    BY <1>2
  <2>2. \A i \in 1 .. m : m + 1 - i \in 1 .. m
    BY <1>2
  <2>3. \A h \in 1 .. n : IsHop(hops[h])
    BY <1>1, <1>5, <2>1
  <2>4. \A i \in 1 .. m : IsInfo(infos[i])
    <3> SUFFICES ASSUME NEW i \in 1 .. m PROVE IsInfo(infos[i])
      OBVIOUS
    <3> DEFINE x == p.infos[m + 1 - i]
    <3>1. IsInfo(x) /\ infos[i] = Flip(x)
      BY <1>1, <1>6, <2>2
    <3> HIDE DEF x
    <3>2. IsInfo(Flip(x))
      BY <3>1, FlipFacts
    <3> QED
      BY <3>1, <3>2
  <2> QED
    BY <1>3, <1>4, <1>5, <1>6, <1>7, <2>3, <2>4 DEF IsPath
<1>9. ASSUME NEW hf \in 0 .. (n - 1) PROVE infIndexForHF(q, hf) = m - 1 - infIndexForHF(p, n - 1 - hf)
  <2> DEFINE a == p.segLen[1]
             b == p.segLen[2]
             c == p.segLen[3]
             x == len[1]
             y == len[2]
             gf == n - 1 - hf
  <2>1. /\ a \in Nat /\ b \in Nat /\ c \in Nat /\ m \in {1, 2, 3} /\ n = a + b + c
        /\ a > 0 /\ (b > 0 <=> m > 1) /\ (c > 0 <=> m > 2)
    BY <1>1 DEF Measured
  <2>2. /\ m = 1 => x = a /\ y = 0
        /\ m = 2 => x = b /\ y = a
        /\ m = 3 => x = c /\ y = b
    BY <1>4
  <2>3. infIndexForHF(q, hf) = CASE hf < x -> 0 [] hf >= x /\ hf < x + y -> 1 [] OTHER -> 2
    BY <1>7 DEF infIndexForHF
  <2>4. infIndexForHF(p, gf) = CASE gf < a -> 0 [] gf >= a /\ gf < a + b -> 1 [] OTHER -> 2
    BY DEF infIndexForHF
  <2>5. hf \in Nat /\ hf < n /\ gf = n - 1 - hf
    BY <1>2
  <2> HIDE DEF a, b, c, x, y, gf
  <2>6. x \in Nat /\ y \in Nat /\ gf \in Nat
    BY <2>1, <2>2, <2>5
  <2>7. infIndexForHF(q, hf) = IF hf < x THEN 0 ELSE IF hf < x + y THEN 1 ELSE 2
    BY <2>3, <2>5, <2>6
  <2>8. infIndexForHF(p, gf) = IF gf < a THEN 0 ELSE IF gf < a + b THEN 1 ELSE 2
    BY <2>1, <2>4, <2>6
  <2> DEFINE u == infIndexForHF(q, hf)
             v == infIndexForHF(p, gf)
  <2> HIDE DEF u, v
  <2>9. u = (IF hf < x THEN 0 ELSE IF hf < x + y THEN 1 ELSE 2) /\ v = IF gf < a THEN 0 ELSE IF gf < a + b THEN 1 ELSE 2
    BY <2>7, <2>8 DEF u, v
  <2>10. u = m - 1 - v
    <3>1. CASE m = 1
      BY ONLY <2>1, <2>2, <2>5, <2>6, <2>9, <3>1
    <3>2. CASE m = 2
      BY ONLY <2>1, <2>2, <2>5, <2>6, <2>9, <3>2
    <3>3. CASE m = 3
      BY ONLY <2>1, <2>2, <2>5, <2>6, <2>9, <3>3
    <3> QED
      BY <2>1, <3>1, <3>2, <3>3
  <2> QED
    BY <2>10 DEF u, v, gf
<1>10. Pointed(q)
  <2> DEFINE hf == n - p.currHF - 1
  <2>1. hf \in 0 .. (n - 1) /\ n - 1 - hf = p.currHF
    BY <1>2
  <2>2. infIndexForHF(q, hf) = m - 1 - infIndexForHF(p, n - 1 - hf)
    BY <1>9, <2>1
  <2> HIDE DEF hf
  <2>3. q.currHF = hf
    BY <1>7 DEF hf
  <2>4. infIndexForHF(p, p.currHF) \in 0 .. (m - 1)
    BY <1>2, PointedFacts DEF m
  <2> DEFINE f == p.currINF
  <2>5. f = infIndexForHF(p, p.currHF) /\ infIndexForHF(q, hf) = m - 1 - f
    BY <1>2, <2>1, <2>2
  <2>6. f \in 0 .. (m - 1)
    BY <2>4, <2>5
  <2> HIDE DEF f
  <2>7. m - f - 1 = m - 1 - f
    BY <1>2, <2>6
  <2> QED
    BY <1>5, <1>7, <2>1, <2>3, <2>5, <2>7 DEF Pointed, f
<1> QED
  BY <1>4, <1>5, <1>6, <1>7, <1>8, <1>9, <1>10 DEF q, m, n

\* An SCMP answer has a readable path, wherever the fast path stopped.
LEMMA AnswerPath ==
  ASSUME NEW p, IsPath(p), Pointed(p), NEW in
  PROVE  IsPath(prepareSCMP(p, in)) /\ Pointed(prepareSCMP(p, in))
<1> DEFINE rev == ReversePath(p)
           peering == determinePeer(rev)
           rev1 == doXover(rev, peering)
<1>1. IsPath(rev) /\ Pointed(rev)
  BY ReverseFacts
<1> HIDE DEF rev, peering
<1>2. IsPath(rev1) /\ Pointed(rev1)
  BY <1>1, RouterMoves DEF Moves, Alike
<1> HIDE DEF rev1
<1>3. IsPath(processEgress(rev1, peering)) /\ Pointed(processEgress(rev1, peering))
  BY <1>2, RouterMoves DEF Moves, Alike
<1> QED
  BY <1>2, <1>3 DEF prepareSCMP, rev, rev1, peering

---------------------------------------------------------------------------
(* Walks.  A walk is what a path means: the ASes of its n hops, the           *)
(* interfaces through which a packet enters and leaves them (0 for the inside *)
(* of an AS), the number of the segment a hop belongs to, the hops of         *)
(* segments in construction direction, the hops of a peering link, the        *)
(* accumulators and MACs, and how many interfaces of the list of the path's   *)
(* interfaces come before a hop.                                             *)

\* A link leads from hop h to the next one; otherwise h and h + 1 are the two
\* hops of an AS where the packet changes segment.
Linked(w, h) == w.sg[h] = w.sg[h + 1] \/ h \in w.pr

In(w, h) == <<w.ia[h], w.in[h]>>
Eg(w, h) == <<w.ia[h], w.eg[h]>>

Link(w, c, h) ==
  /\ Eg(w, h) \in Interfaces /\ Remote[Eg(w, h)] = In(w, h + 1)
  /\ w.pos[h + 1] = w.pos[h] + 2
  /\ c[w.pos[h] + 1] = Eg(w, h) /\ c[w.pos[h] + 2] = In(w, h + 1)

Switch(w, h) ==
  /\ 1 < h /\ h + 1 < w.n /\ Linked(w, h - 1) /\ Linked(w, h + 1)
  /\ w.ia[h + 1] = w.ia[h] /\ w.pos[h + 1] = w.pos[h]
  /\ <<LinkType[In(w, h)], LinkType[Eg(w, h + 1)]>> \in acrossSegments

\* The accumulator of a hop follows from that of its neighbour towards the
\* origin of the beacon.
Chained(w, h) ==
  \/ /\ w.sg[h + 1] = w.sg[h] /\ (h \in w.cd <=> h + 1 \in w.cd)
     /\ h \in w.cd => w.beta[h + 1] = IF h \in w.pr THEN w.beta[h] ELSE SymDiff(w.beta[h], {w.mac[h]})
     /\ h \notin w.cd => w.beta[h] = IF h + 1 \in w.pr THEN w.beta[h + 1] ELSE SymDiff(w.beta[h + 1], {w.mac[h + 1]})
  \/ w.sg[h + 1] = w.sg[h] + 1 /\ (h \in w.pr <=> h + 1 \in w.pr)

\* A walk with the list c of its interfaces.  In a part of a path c may begin
\* and end in the middle of a link.
Walk(w, c) ==
  /\ w.n \in Nat /\ w.n > 0 /\ c \in Seq(Interfaces)
  /\ \A h \in 1 .. w.n : /\ w.pos[h] \in Nat /\ w.pos[h] <= Len(c)
                          /\ w.sg[h] \in Nat /\ 1 <= w.sg[h] /\ w.sg[h] <= w.sg[w.n]
  /\ w.sg[1] = 1 /\ w.pos[1] \in {0, 1} /\ Len(c) \in {w.pos[w.n], w.pos[w.n] + 1}
  /\ w.pos[1] = 1 => c[1] = In(w, 1)
  /\ Len(c) = w.pos[w.n] + 1 => c[Len(c)] = Eg(w, w.n)
  /\ \A h \in 1 .. (w.n - 1) : Chained(w, h) /\ (Linked(w, h) => Link(w, c, h)) /\ (~Linked(w, h) => Switch(w, h))
  /\ \A h \in 2 .. (w.n - 1) :
        Linked(w, h - 1) /\ Linked(w, h) => <<LinkType[In(w, h)], LinkType[Eg(w, h)]>> \in withinSegment

\* A walk from src to dst that enters neither of them in between.
Trip(w, c, src, dst) ==
  /\ Walk(w, c) /\ w.n > 1 /\ w.pos[1] = 0 /\ Len(c) = w.pos[w.n]
  /\ w.ia[1] = src /\ w.ia[w.n] = dst
  /\ \A h \in 2 .. w.n : w.ia[h] # src
  /\ \A h \in 1 .. (w.n - 1) : w.ia[h] # dst

\* Hop h of the path says what the walk does.
Content(p, w, h) ==
  LET info == p.infos[w.sg[h]]
      hop == p.hops[h]
  IN  /\ w.sg[h] = infIndexForHF(p, h - 1) + 1
      /\ info.consDir <=> h \in w.cd
      /\ IngressOf(info, hop) = w.in[h] /\ EgressOf(info, hop) = w.eg[h]
      /\ hop.mac = w.mac[h] /\ hop.mac = MAC(w.ia[h], w.beta[h], info.ts, hop.exp, hop.in, hop.eg)
      /\ h \in w.pr <=> (info.peer /\ h - 1 \in {p.segLen[1] - 1, p.segLen[1]})
      /\ info.peer => p.segLen[2] # 0 /\ p.segLen[3] = 0

Carries(p, w) == IsPath(p) /\ Len(p.hops) = w.n /\ \A h \in 1 .. w.n : Content(p, w, h)

\* The accumulators while the packet is at hop k: x in its segment, that of
\* the last hop in segments that are done and that of the first hop in segments to come.
SegIDs(p, w, k, x) ==
  /\ p.infos[w.sg[k]].segID = x
  /\ \A h \in 1 .. (w.n - 1) : w.sg[h] < w.sg[k] /\ w.sg[h + 1] # w.sg[h] => p.infos[w.sg[h]].segID = w.beta[h]
  /\ \A h \in 2 .. w.n : w.sg[h] > w.sg[k] /\ w.sg[h - 1] # w.sg[h] => p.infos[w.sg[h]].segID = w.beta[h]

At(p, w, k, x) == Carries(p, w) /\ k \in 1 .. w.n /\ p.currHF = k - 1 /\ Pointed(p) /\ SegIDs(p, w, k, x)

\* The accumulator with which a packet comes over a link to hop k.
Acc(w, k) == IF k \in w.cd \/ k \in w.pr THEN w.beta[k] ELSE SymDiff(w.beta[k], {w.mac[k]})

\* A packet for hop k at router r: from a neighbour, from a host, or from the
\* router where it came into the AS.
Where(w, k, in, from, r) ==
  \/ in # 0 /\ k > 1 /\ Linked(w, k - 1) /\ in = w.in[k] /\ r = RouterOf[In(w, k)]
  \/ in = 0 /\ k = 1 /\ r = RouterOf[Eg(w, 1)]
  \/ /\ in = 0 /\ k > 1 /\ k < w.n /\ Linked(w, k) /\ r = RouterOf[Eg(w, k)] /\ from # r
     /\ from = RouterOf[In(w, IF Linked(w, k - 1) THEN k ELSE k - 1)]

\* What TopologyAssumption says of an interface and its remote end.
LEMMA InterfaceFacts ==
  ASSUME NEW i \in Interfaces
  PROVE  /\ i = <<i[1], i[2]>> /\ i[2] \in Nat /\ i[2] # 0
         /\ RouterOf[i] \in Routers /\ IA(RouterOf[i]) = i[1]
         /\ Remote[i] \in Interfaces /\ Remote[Remote[i]] = i /\ Remote[i][1] # i[1]
<1> DEFINE r == RouterOf[i]
           j == CHOOSE x \in Interfaces : RouterOf[x] = r
<1>1. i = <<i[1], i[2]>> /\ i[2] \in Nat \ {0} /\ Remote[i] \in Interfaces /\ Remote[i][1] # i[1] /\ Remote[Remote[i]] = i
  BY TopologyAssumption
<1>2. j \in Interfaces /\ RouterOf[j] = RouterOf[i]
  OBVIOUS
<1>3. j[1] = i[1]
  BY <1>2, RouterAssumption
<1>4. IA(r) = j[1]
  BY DEF IA
<1>5. r \in Routers
  BY DEF Routers
<1> QED
  BY <1>1, <1>3, <1>4, <1>5

\* The interfaces a router knows.
LEMMA KnownInterfaces ==
  ASSUME NEW r, NEW ia, NEW id, <<ia, id>> \in Interfaces, IA(r) = ia, r \in Routers
  PROVE  /\ id \in external(r) <=> RouterOf[<<ia, id>>] = r
         /\ id \in internalNextHops(r) <=> RouterOf[<<ia, id>>] # r
<1>1. PICK j \in Interfaces : RouterOf[j] = r
  BY DEF Routers
<1>2. ASSUME NEW i \in Interfaces, i[1] = ia, i[2] = id PROVE i = <<ia, id>>
  BY <1>2, TopologyAssumption
<1>3. ASSUME NEW i \in Interfaces, RouterOf[i] = r PROVE i[1] = ia
  <2>2. IA(RouterOf[i]) = i[1]
    BY InterfaceFacts
  <2> QED
    BY <1>3, <2>2
<1>4. id \in external(r) => RouterOf[<<ia, id>>] = r
  BY <1>2, <1>3 DEF external
<1>5. RouterOf[<<ia, id>>] = r => id \in external(r)
  BY DEF external
<1>6. id \in internalNextHops(r) => RouterOf[<<ia, id>>] # r
  BY <1>2 DEF internalNextHops
<1>7. RouterOf[<<ia, id>>] # r => id \in internalNextHops(r)
  BY DEF internalNextHops
<1> QED
  BY <1>4, <1>5, <1>6, <1>7

\* Segments follow each other.
LEMMA SegmentOrder ==
  ASSUME NEW p, NEW w, Carries(p, w)
  PROVE  /\ w.n \in Nat /\ \A h \in 1 .. w.n : w.sg[h] \in 1 .. Len(p.infos) /\ w.sg[h] \in Nat
         /\ \A h \in 1 .. w.n : \A g \in h .. w.n : w.sg[h] <= w.sg[g]
<1> DEFINE a == p.segLen[1]
           b == p.segLen[2]
<1>1. IsPath(p) /\ Len(p.hops) = w.n /\ \A h \in 1 .. w.n : w.sg[h] = infIndexForHF(p, h - 1) + 1
  BY DEF Carries, Content
<1>2. w.n \in Nat /\ a \in Nat /\ b \in Nat
  BY <1>1 DEF IsPath, Measured, IsSeq
<1>3. ASSUME NEW h \in 1 .. w.n
      PROVE  /\ w.sg[h] = (IF h - 1 < a THEN 1 ELSE IF h - 1 < a + b THEN 2 ELSE 3)
             /\ w.sg[h] \in 1 .. Len(p.infos) /\ w.sg[h] \in Nat
  <2> DEFINE x == infIndexForHF(p, h - 1)
  <2>1. h - 1 \in 0 .. (Len(p.hops) - 1)
    BY <1>1, <1>2
  <2>2. x \in 0 .. (Len(p.infos) - 1) /\ Len(p.infos) \in 1 .. 3
    BY <1>1, <2>1, IndexFacts
  <2>3. x = CASE h - 1 < a -> 0 [] h - 1 >= a /\ h - 1 < a + b -> 1 [] OTHER -> 2
    BY DEF infIndexForHF
  <2> HIDE DEF x, a, b
  <2>4. x = IF h - 1 < a THEN 0 ELSE IF h - 1 < a + b THEN 1 ELSE 2
    BY <1>2, <2>1, <2>3
  <2> DEFINE y == w.sg[h]
             m == Len(p.infos)
  <2>7. y = x + 1
    BY <1>1 DEF x
  <2> HIDE DEF y, m
  <2>8. y = (IF h - 1 < a THEN 1 ELSE IF h - 1 < a + b THEN 2 ELSE 3) /\ y \in 1 .. m /\ y \in Nat
    BY <2>2, <2>4, <2>7 DEF m
  <2> QED
    BY <2>8 DEF y, m
<1> HIDE DEF a, b
<1>4. ASSUME NEW h \in 1 .. w.n, NEW g \in h .. w.n PROVE w.sg[h] <= w.sg[g]
  <2>1. g \in 1 .. w.n
    BY <1>2
  <2>2. w.sg[h] = (IF h - 1 < a THEN 1 ELSE IF h - 1 < a + b THEN 2 ELSE 3)
    BY <1>3
  <2>3. w.sg[g] = (IF g - 1 < a THEN 1 ELSE IF g - 1 < a + b THEN 2 ELSE 3)
    BY <1>3, <2>1
  <2>4. h \in Nat /\ g \in Nat /\ h <= g
    BY <1>2
  <2> DEFINE y == w.sg[h]
             z == w.sg[g]
  <2> HIDE DEF y, z
  <2>5. y <= z
    BY <1>2, <2>2, <2>3, <2>4 DEF y, z
  <2> QED
    BY <2>5 DEF y, z
<1> QED
  BY <1>2, <1>3, <1>4

\* What a router does to the fields of a path does not change where it leads.
LEMMA AlikeCarries ==
  ASSUME NEW p, NEW q, NEW w, Carries(p, w), Alike(p, q)
  PROVE  Carries(q, w)
<1>1. IsPath(p) /\ Len(p.hops) = w.n /\ w.n \in Nat /\ \A h \in 1 .. w.n : Content(p, w, h) /\ w.sg[h] \in 1 .. Len(p.infos)
  BY SegmentOrder DEF Carries
<1>2. IsPath(q) /\ Len(q.hops) = w.n /\ q.segLen = p.segLen
  BY <1>1 DEF Alike
<1>3. ASSUME NEW h \in 1 .. w.n PROVE Content(q, w, h)
  <2> DEFINE i == p.infos[w.sg[h]]
             j == q.infos[w.sg[h]]
             f == p.hops[h]
             g == q.hops[h]
  <2>1. j.ts = i.ts /\ j.consDir = i.consDir /\ j.peer = i.peer
    BY <1>1 DEF Alike
  <2>2. g.in = f.in /\ g.eg = f.eg /\ g.exp = f.exp /\ g.mac = f.mac
    BY <1>1 DEF Alike
  <2>3. infIndexForHF(q, h - 1) = infIndexForHF(p, h - 1)
    BY <1>2 DEF infIndexForHF
  <2>4. /\ w.sg[h] = infIndexForHF(p, h - 1) + 1
        /\ i.consDir <=> h \in w.cd
        /\ IngressOf(i, f) = w.in[h] /\ EgressOf(i, f) = w.eg[h]
        /\ f.mac = w.mac[h] /\ f.mac = MAC(w.ia[h], w.beta[h], i.ts, f.exp, f.in, f.eg)
        /\ h \in w.pr <=> (i.peer /\ h - 1 \in {p.segLen[1] - 1, p.segLen[1]})
        /\ i.peer => p.segLen[2] # 0 /\ p.segLen[3] = 0
    BY <1>1 DEF Content
  <2> HIDE DEF i, j, f, g
  <2>5. IngressOf(j, g) = IngressOf(i, f) /\ EgressOf(j, g) = EgressOf(i, f)
    BY <2>1, <2>2 DEF IngressOf, EgressOf
  <2>6. /\ w.sg[h] = infIndexForHF(q, h - 1) + 1
        /\ j.consDir <=> h \in w.cd
        /\ IngressOf(j, g) = w.in[h] /\ EgressOf(j, g) = w.eg[h]
        /\ g.mac = w.mac[h] /\ g.mac = MAC(w.ia[h], w.beta[h], j.ts, g.exp, g.in, g.eg)
        /\ h \in w.pr <=> (j.peer /\ h - 1 \in {q.segLen[1] - 1, q.segLen[1]})
        /\ j.peer => q.segLen[2] # 0 /\ q.segLen[3] = 0
    BY <1>2, <2>1, <2>2, <2>3, <2>4, <2>5
  <2> QED
    BY <2>6 DEF Content, j, g
<1> QED
  BY <1>2, <1>3 DEF Carries

\* What a router reads at hop k.
LEMMA HopFacts ==
  ASSUME NEW p, NEW w, Carries(p, w), NEW k \in 1 .. w.n, Pointed(p), p.currHF = k - 1
  PROVE  /\ Info(p) = p.infos[w.sg[k]] /\ Hop(p) = p.hops[k] /\ p.currINF + 1 = w.sg[k]
         /\ Info(p).consDir <=> k \in w.cd
         /\ determinePeer(p) <=> k \in w.pr
         /\ ~malformedPeering(p)
         /\ egressInterface(p) = w.eg[k] /\ IngressOf(Info(p), Hop(p)) = w.in[k]
         /\ Hop(p).mac = w.mac[k]
         /\ Hop(p).mac = MAC(w.ia[k], w.beta[k], Info(p).ts, Hop(p).exp, Hop(p).in, Hop(p).eg)
         /\ IsFirstHop(p) <=> k = 1
         /\ IsLastHop(p) <=> k = w.n
         /\ IsXover(p) <=> k < w.n /\ w.sg[k + 1] # w.sg[k]
<1> DEFINE s == w.sg[k]
           f == p.currINF
<1>1. IsPath(p) /\ Len(p.hops) = w.n /\ w.n \in Nat /\ Content(p, w, k) /\ s \in Nat
  BY SegmentOrder DEF Carries
<1>2. s = infIndexForHF(p, k - 1) + 1 /\ f = infIndexForHF(p, k - 1) /\ f \in 0 .. 2
  BY <1>1, PointedFacts DEF Content
<1>3. f + 1 = s /\ p.currHF + 1 = k
  BY <1>2
<1>4. Info(p) = p.infos[s] /\ Hop(p) = p.hops[k]
  BY <1>3 DEF Info, Hop
<1>5. /\ Info(p).consDir <=> k \in w.cd
      /\ EgressOf(Info(p), Hop(p)) = w.eg[k] /\ IngressOf(Info(p), Hop(p)) = w.in[k]
      /\ Hop(p).mac = w.mac[k]
      /\ Hop(p).mac = MAC(w.ia[k], w.beta[k], Info(p).ts, Hop(p).exp, Hop(p).in, Hop(p).eg)
      /\ k \in w.pr <=> (Info(p).peer /\ k - 1 \in {p.segLen[1] - 1, p.segLen[1]})
      /\ Info(p).peer => p.segLen[2] # 0 /\ p.segLen[3] = 0
  BY <1>1, <1>4 DEF Content
<1>6. determinePeer(p) <=> k \in w.pr
  BY <1>5 DEF determinePeer
<1>7. p.segLen[1] # 0
  BY <1>1 DEF IsPath, Measured
<1>8. ~malformedPeering(p)
  BY <1>5, <1>7 DEF malformedPeering
<1>9. (IsFirstHop(p) <=> k = 1) /\ (IsLastHop(p) <=> k = w.n)
  BY <1>1 DEF IsFirstHop, IsLastHop, NumHops
<1>10. IsXover(p) <=> k < w.n /\ w.sg[k + 1] # w.sg[k]
  <2>1. p.currHF + 1 < NumHops(p) <=> k < w.n
    BY <1>1, <1>3 DEF NumHops
  <2>2. ASSUME k < w.n PROVE infIndexForHF(p, p.currHF + 1) # f <=> w.sg[k + 1] # s
    <3> DEFINE x == infIndexForHF(p, k)
    <3>1. k + 1 \in 1 .. w.n /\ (k + 1) - 1 = k
      BY <1>1, <2>2
    <3>2. Content(p, w, k + 1)
      BY <3>1 DEF Carries
    <3>3. w.sg[k + 1] = x + 1
      BY <3>1, <3>2 DEF Content
    <3>4. k \in 0 .. (Len(p.hops) - 1)
      BY <1>1, <2>2
    <3>5. x \in 0 .. (Len(p.infos) - 1) /\ Len(p.infos) \in 1 .. 3
      BY <1>1, <3>4, IndexFacts
    <3> HIDE DEF x, s, f
    <3>6. x \in Nat
      BY <3>5
    <3>7. x # f <=> x + 1 # f + 1
      BY <1>2, <3>6
    <3> QED
      BY <1>3, <3>3, <3>7 DEF x, f
  <2> QED
    BY <2>1, <2>2 DEF IsXover
<1> QED
  BY <1>3, <1>4, <1>5, <1>6, <1>8, <1>9, <1>10 DEF egressInterface

\* The interface through which a packet came into the AS.
LEMMA TransitIngress ==
  ASSUME NEW p, NEW w, Carries(p, w), NEW c, Walk(w, c), NEW k \in 2 .. w.n, Pointed(p), p.currHF = k - 1,
         NEW peering, peering <=> k \in w.pr
  PROVE  ingressInterface(p, peering) = w.in[IF Linked(w, k - 1) THEN k ELSE k - 1]
<1> DEFINE s == w.sg[k]
           t == w.sg[k - 1]
<1>1. w.n \in Nat /\ k \in 1 .. w.n /\ k - 1 \in 1 .. (w.n - 1) /\ k - 1 \in 1 .. w.n /\ (k - 1) + 1 = k
  <2>1. w.n \in Nat
    BY SegmentOrder
  <2> QED
    BY <2>1
<1>2. Info(p) = p.infos[s] /\ Hop(p) = p.hops[k] /\ p.currINF + 1 = s /\ IngressOf(Info(p), Hop(p)) = w.in[k]
  BY <1>1, HopFacts
<1>3. Content(p, w, k - 1) /\ s \in Nat /\ t \in Nat /\ t > 0 /\ p.currINF \in Nat /\ p.currHF = k - 1
  <2>1. Content(p, w, k - 1) /\ IsPath(p)
    BY <1>1 DEF Carries
  <2>2. s \in Nat /\ t \in Nat /\ t \in 1 .. Len(p.infos)
    BY <1>1, SegmentOrder
  <2>3. p.currINF \in 0 .. 2
    BY <2>1, PointedFacts
  <2> QED
    BY <2>1, <2>2, <2>3
<1>4. t = infIndexForHF(p, (k - 1) - 1) + 1 /\ IngressOf(p.infos[t], p.hops[k - 1]) = w.in[k - 1]
  BY <1>3 DEF Content
<1>5. \/ s = t
      \/ s = t + 1 /\ (k - 1 \in w.pr <=> k \in w.pr)
  <2>1. Chained(w, k - 1)
    BY <1>1 DEF Walk
  <2> DEFINE j == k - 1
  <2>2. Chained(w, j) /\ j + 1 = k
    BY <1>1, <2>1
  <2> HIDE DEF j
  <2>3. w.sg[k] = w.sg[j] \/ (w.sg[k] = w.sg[j] + 1 /\ (j \in w.pr <=> k \in w.pr))
    BY <2>2 DEF Chained
  <2> QED
    BY <2>3 DEF j
<1>6. infIndexForHF(p, (k - 1) - 1) \in Nat
  <2>1. (k - 1) - 1 \in 0 .. (Len(p.hops) - 1) /\ IsPath(p)
    BY <1>1 DEF Carries
  <2>2. infIndexForHF(p, (k - 1) - 1) \in 0 .. (Len(p.infos) - 1)
    BY <2>1, IndexFacts
  <2>3. Len(p.infos) \in 1 .. 3
    BY <2>1, IndexFacts
  <2> QED
    BY <2>2, <2>3
<1>7. IsFirstHopAfterXover(p) <=> s = t + 1
  <2> DEFINE x == infIndexForHF(p, (k - 1) - 1)
             f == p.currINF
  <2>1. IsFirstHopAfterXover(p) <=> f > 0 /\ k - 1 > 0 /\ f - 1 = x
    BY <1>3 DEF IsFirstHopAfterXover
  <2>2. f \in Nat /\ x \in Nat /\ f + 1 = s /\ t = x + 1
    BY <1>2, <1>3, <1>4, <1>6
  <2> HIDE DEF x, f, s, t
  <2>3. f > 0 /\ k - 1 > 0 /\ f - 1 = x <=> s = t + 1
    BY <1>1, <2>2
  <2> QED
    BY <2>1, <2>3
<1>8. CASE s = t
  <2>1. Linked(w, k - 1)
    BY <1>1, <1>8 DEF Linked
  <2>2. ~IsFirstHopAfterXover(p)
    BY <1>3, <1>7, <1>8
  <2> QED
    BY <1>2, <2>1, <2>2 DEF ingressInterface
<1>9. CASE s = t + 1 /\ k \in w.pr
  <2>1. Linked(w, k - 1)
    BY <1>3, <1>5, <1>9 DEF Linked
  <2> QED
    BY <1>2, <1>9, <2>1 DEF ingressInterface
<1>10. CASE s = t + 1 /\ k \notin w.pr
  <2>1. ~Linked(w, k - 1)
    BY <1>1, <1>3, <1>5, <1>10 DEF Linked
  <2>2. IsFirstHopAfterXover(p) /\ p.currINF = t
    BY <1>2, <1>3, <1>7, <1>10
  <2>3. ingressInterface(p, peering) = IngressOf(p.infos[t], p.hops[k - 1])
    BY <1>3, <1>10, <2>2 DEF ingressInterface
  <2> QED
    BY <1>4, <2>1, <2>3
<1> QED
  BY <1>5, <1>8, <1>9, <1>10

\* XORing a MAC in twice leaves the accumulator as it was.
LEMMA SymDiffTwice ==
  ASSUME NEW S, NEW x
  PROVE  SymDiff(SymDiff(S, {x}), {x}) = S
BY DEF SymDiff

\* The router at the ingress restores the accumulator of its hop.
LEMMA AtIngress ==
  ASSUME NEW p, NEW w, NEW k, At(p, w, k, Acc(w, k)), NEW in, in # 0, NEW peering, peering <=> k \in w.pr
  PROVE  At(updateNonConsDirIngressSegID(p, in, peering), w, k, w.beta[k])
<1> DEFINE q == UpdateSegID(p)
           s == w.sg[k]
<1>1. /\ Carries(p, w) /\ k \in 1 .. w.n /\ p.currHF = k - 1 /\ Pointed(p) /\ IsPath(p)
      /\ p.infos[s].segID = Acc(w, k) /\ SegIDs(p, w, k, Acc(w, k))
  BY DEF At, SegIDs, Carries
<1>2. (Info(p).consDir <=> k \in w.cd) /\ p.currINF + 1 = s /\ Hop(p).mac = w.mac[k]
  BY <1>1, HopFacts
<1>3. CASE k \in w.cd \/ k \in w.pr
  <2>1. updateNonConsDirIngressSegID(p, in, peering) = p /\ Acc(w, k) = w.beta[k]
    BY <1>2, <1>3 DEF updateNonConsDirIngressSegID, Acc
  <2> QED
    BY <2>1
<1>4. CASE ~(k \in w.cd \/ k \in w.pr)
  <2>1. updateNonConsDirIngressSegID(p, in, peering) = q /\ Acc(w, k) = SymDiff(w.beta[k], {w.mac[k]})
    BY <1>2, <1>4 DEF updateNonConsDirIngressSegID, Acc
  <2>2. /\ Alike(p, q) /\ q.currHF = p.currHF /\ q.currINF = p.currINF
        /\ \A i \in 1 .. Len(p.infos) : q.infos[i].segID =
               IF i = p.currINF + 1 THEN SymDiff(p.infos[i].segID, {Hop(p).mac}) ELSE p.infos[i].segID
    BY <1>1, UpdateFacts
  <2> HIDE DEF q
  <2>3. Carries(q, w) /\ Pointed(q)
    BY <1>1, <2>2, AlikeCarries, AlikePointed DEF Moves
  <2>4. w.n \in Nat /\ \A h \in 1 .. w.n : w.sg[h] \in 1 .. Len(p.infos) /\ w.sg[h] \in Nat
    BY <1>1, SegmentOrder
  <2>5. q.infos[s].segID = w.beta[k]
    <3>1. q.infos[s].segID = SymDiff(SymDiff(w.beta[k], {w.mac[k]}), {w.mac[k]})
      <4>1. s \in 1 .. Len(p.infos) /\ s = p.currINF + 1
        BY <1>1, <1>2, <2>4
      <4>2. q.infos[s].segID = SymDiff(p.infos[s].segID, {Hop(p).mac})
        BY <2>2, <4>1
      <4> QED
        BY <1>1, <1>2, <2>1, <4>2
    <3> QED
      BY <3>1, SymDiffTwice
  <2>6. \A h \in 1 .. w.n : w.sg[h] # s => q.infos[w.sg[h]].segID = p.infos[w.sg[h]].segID
    BY <1>2, <2>2, <2>4
  <2>7. SegIDs(q, w, k, w.beta[k])
    <3>1. \A h \in 1 .. (w.n - 1) : h \in 1 .. w.n /\ (w.sg[h] < s => w.sg[h] # s)
      BY <1>1, <2>4
    <3>2. \A h \in 2 .. w.n : h \in 1 .. w.n /\ (w.sg[h] > s => w.sg[h] # s)
      BY <1>1, <2>4
    <3> QED
      BY <1>1, <2>5, <2>6, <3>1, <3>2 DEF SegIDs
  <2> QED
    BY <1>1, <2>1, <2>2, <2>3, <2>7 DEF At
<1> QED
  BY <1>3, <1>4

\* On to the next hop.  The segment of hop j holds the accumulator of j if it is
\* done, and otherwise that with which the next hop expects the packet.
LEMMA AtNext ==
  ASSUME NEW p, NEW w, NEW c, Walk(w, c), NEW j, NEW x, At(p, w, j, x), j < w.n, NEW y,
         w.sg[j + 1] = w.sg[j] => x = y,
         w.sg[j + 1] # w.sg[j] => x = w.beta[j] /\ y = w.beta[j + 1]
  PROVE  At(IncPath(p), w, j + 1, y)
<1> DEFINE q == IncPath(p)
           s == w.sg[j]
           t == w.sg[j + 1]
<1>1. /\ Carries(p, w) /\ j \in 1 .. w.n /\ p.currHF = j - 1 /\ Pointed(p) /\ IsPath(p) /\ Len(p.hops) = w.n
      /\ SegIDs(p, w, j, x)
  BY DEF At, Carries
<1>2. w.n \in Nat /\ \A h \in 1 .. w.n : w.sg[h] \in Nat
  BY <1>1, SegmentOrder
<1>3. /\ Alike(p, q) /\ Pointed(q) /\ q.infos = p.infos
      /\ q.currHF = IF p.currHF + 1 < Len(p.hops) THEN p.currHF + 1 ELSE p.currHF
  BY <1>1, IncFacts
<1> HIDE DEF q
<1>4. j + 1 \in 1 .. w.n /\ q.currHF = (j + 1) - 1 /\ j \in 1 .. (w.n - 1) /\ j + 1 \in 2 .. w.n /\ (j + 1) - 1 = j
  BY <1>1, <1>2, <1>3
<1>5. Carries(q, w)
  BY <1>1, <1>3, AlikeCarries
<1>6. (t = s \/ t = s + 1) /\ s \in Nat /\ t \in Nat
  BY <1>1, <1>2, <1>4 DEF Walk, Chained
<1>7. SegIDs(q, w, j + 1, y)
  <2>1. CASE t = s
    BY <1>1, <1>3, <2>1 DEF SegIDs
  <2>2. CASE t = s + 1
    <3>1. x = w.beta[j] /\ y = w.beta[j + 1]
      BY <1>6, <2>2
    <3>2. q.infos[t].segID = y
      <4> DEFINE i == j + 1
      <4>1. \A h \in 2 .. w.n : w.sg[h] > s /\ w.sg[h - 1] # w.sg[h] => p.infos[w.sg[h]].segID = w.beta[h]
        BY <1>1 DEF SegIDs
      <4>2. i \in 2 .. w.n /\ i - 1 = j /\ t > s /\ s # t
        BY <1>4, <1>6, <2>2
      <4>3. w.sg[i] = t
        OBVIOUS
      <4> HIDE DEF i, s, t
      <4>4. w.sg[i - 1] = s
        BY <4>2 DEF s
      <4>5. p.infos[t].segID = w.beta[i]
        BY <4>1, <4>2, <4>3, <4>4
      <4> QED
        BY <1>3, <3>1, <4>5 DEF i
    <3>3. ASSUME NEW h \in 1 .. (w.n - 1), w.sg[h] < t, w.sg[h + 1] # w.sg[h] PROVE p.infos[w.sg[h]].segID = w.beta[h]
      <4>1. h \in 1 .. w.n /\ h + 1 \in 1 .. w.n /\ h \in Nat
        BY <1>2
      <4>2. CASE w.sg[h] < s
        BY <1>1, <3>3, <4>2 DEF SegIDs
      <4>3. CASE ~(w.sg[h] < s)
        <5>1. w.sg[h] = s
          BY <1>2, <1>6, <2>2, <3>3, <4>1, <4>3
        <5>2. ~(h < j)
          <6> SUFFICES ASSUME h < j PROVE FALSE
            OBVIOUS
          <6>1. h + 1 \in h .. w.n /\ j \in (h + 1) .. w.n
            BY <1>1, <1>2, <4>1
          <6>2. w.sg[h] <= w.sg[h + 1] /\ w.sg[h + 1] <= s
            BY <1>1, <4>1, <6>1, SegmentOrder
          <6> QED
            BY <1>2, <3>3, <4>1, <5>1, <6>2
        <5>3. ~(j < h)
          <6> SUFFICES ASSUME j < h PROVE FALSE
            OBVIOUS
          <6>1. h \in (j + 1) .. w.n
            BY <1>1, <1>2, <4>1
          <6>2. t <= w.sg[h]
            BY <1>1, <1>4, <6>1, SegmentOrder
          <6> QED
            BY <1>6, <2>2, <5>1, <6>2
        <5>4. h = j
          BY <1>1, <1>2, <4>1, <5>2, <5>3
        <5> QED
          BY <1>1, <3>1, <5>4 DEF SegIDs
      <4> QED
        BY <4>2, <4>3
    <3>4. ASSUME NEW h \in 2 .. w.n, w.sg[h] > t, w.sg[h - 1] # w.sg[h] PROVE p.infos[w.sg[h]].segID = w.beta[h]
      <4>1. w.sg[h] > s
        BY <1>2, <1>6, <2>2, <3>4
      <4> QED
        BY <1>1, <3>4, <4>1 DEF SegIDs
    <3> QED
      BY <1>3, <3>2, <3>3, <3>4 DEF SegIDs
  <2> QED
    BY <1>6, <2>1, <2>2
<1> QED
  BY <1>3, <1>4, <1>5, <1>7 DEF At, q

\* The router at the egress prepares the accumulator for the next hop.
LEMMA AtEgress ==
  ASSUME NEW p, NEW w, NEW c, Walk(w, c), NEW j, At(p, w, j, w.beta[j]), j < w.n, Linked(w, j),
         NEW peering, peering <=> j \in w.pr
  PROVE  At(processEgress(p, peering), w, j + 1, Acc(w, j + 1))
<1>1. /\ Carries(p, w) /\ j \in 1 .. w.n /\ p.currHF = j - 1 /\ Pointed(p) /\ IsPath(p)
      /\ SegIDs(p, w, j, w.beta[j]) /\ w.n \in Nat
  BY SegmentOrder DEF At, Carries
<1>2. (Info(p).consDir <=> j \in w.cd) /\ p.currINF + 1 = w.sg[j] /\ Hop(p).mac = w.mac[j]
  BY <1>1, HopFacts
<1>3. Chained(w, j)
  <2>1. j \in 1 .. (w.n - 1)
    BY <1>1
  <2> QED
    BY <2>1 DEF Walk
<1>4. w.n \in Nat /\ \A h \in 1 .. w.n : w.sg[h] \in 1 .. Len(p.infos) /\ w.sg[h] \in Nat
  BY <1>1, SegmentOrder
<1>5. CASE j \in w.cd /\ j \notin w.pr
  <2> DEFINE q == UpdateSegID(p)
             x == SymDiff(w.beta[j], {w.mac[j]})
  <2>1. processEgress(p, peering) = IncPath(q)
    BY <1>2, <1>5 DEF processEgress
  <2>2. /\ Alike(p, q) /\ q.currHF = p.currHF /\ q.currINF = p.currINF
        /\ \A i \in 1 .. Len(p.infos) : q.infos[i].segID =
               IF i = p.currINF + 1 THEN SymDiff(p.infos[i].segID, {Hop(p).mac}) ELSE p.infos[i].segID
    BY <1>1, UpdateFacts
  <2> HIDE DEF q
  <2>3. Carries(q, w) /\ Pointed(q)
    BY <1>1, <2>2, AlikeCarries, AlikePointed DEF Moves
  <2>4. q.infos[w.sg[j]].segID = x
    <3>1. w.sg[j] \in 1 .. Len(p.infos) /\ w.sg[j] = p.currINF + 1
      BY <1>1, <1>2, <1>4
    <3>2. q.infos[w.sg[j]].segID = SymDiff(p.infos[w.sg[j]].segID, {Hop(p).mac})
      BY <2>2, <3>1
    <3> QED
      BY <1>1, <1>2, <3>2 DEF SegIDs
  <2>5. \A h \in 1 .. w.n : w.sg[h] # w.sg[j] => q.infos[w.sg[h]].segID = p.infos[w.sg[h]].segID
    BY <1>2, <1>4, <2>2
  <2>6. SegIDs(q, w, j, x)
    <3>1. \A h \in 1 .. (w.n - 1) : h \in 1 .. w.n /\ (w.sg[h] < w.sg[j] => w.sg[h] # w.sg[j])
      BY <1>1, <1>4
    <3>2. \A h \in 2 .. w.n : h \in 1 .. w.n /\ (w.sg[h] > w.sg[j] => w.sg[h] # w.sg[j])
      BY <1>1, <1>4
    <3> QED
      BY <1>1, <2>4, <2>5, <3>1, <3>2 DEF SegIDs
  <2>7. At(q, w, j, x)
    BY <1>1, <2>2, <2>3, <2>6 DEF At
  <2>8. w.sg[j + 1] = w.sg[j]
    BY <1>5 DEF Linked
  <2>9. Acc(w, j + 1) = x
    <3>1. w.sg[j + 1] # w.sg[j] + 1
      BY <1>1, <1>4, <2>8
    <3>2. j + 1 \in w.cd /\ w.beta[j + 1] = x
      BY <1>3, <1>5, <3>1 DEF Chained
    <3> QED
      BY <3>2 DEF Acc
  <2>10. At(IncPath(q), w, j + 1, Acc(w, j + 1))
    BY <2>7, <2>8, <2>9, AtNext
  <2> QED
    BY <2>1, <2>10
<1>6. CASE ~(j \in w.cd /\ j \notin w.pr)
  <2>1. processEgress(p, peering) = IncPath(p)
    BY <1>2, <1>6 DEF processEgress
  <2>2. CASE w.sg[j + 1] = w.sg[j]
    <3>1. w.sg[j + 1] # w.sg[j] + 1
      BY <1>1, <1>4, <2>2
    <3>2. Acc(w, j + 1) = w.beta[j]
      BY <1>3, <1>6, <3>1 DEF Chained, Acc
    <3>3. At(IncPath(p), w, j + 1, Acc(w, j + 1))
      BY <2>2, <3>2, AtNext
    <3> QED
      BY <2>1, <3>3
  <2>3. CASE w.sg[j + 1] # w.sg[j]
    <3>1. j \in w.pr /\ j + 1 \in w.pr
      BY <1>3, <2>3 DEF Linked, Chained
    <3>2. Acc(w, j + 1) = w.beta[j + 1]
      BY <3>1 DEF Acc
    <3>3. At(IncPath(p), w, j + 1, Acc(w, j + 1))
      BY <2>3, <3>2, AtNext
    <3> QED
      BY <2>1, <3>3
  <2> QED
    BY <2>2, <2>3
<1> QED
  BY <1>5, <1>6

\* Hops and their links.
LEMMA LinkFacts ==
  ASSUME NEW w, NEW c, Walk(w, c), NEW h, h \in 1 .. (w.n - 1), Linked(w, h)
  PROVE  /\ Eg(w, h) \in Interfaces /\ In(w, h + 1) \in Interfaces
         /\ Remote[Eg(w, h)] = In(w, h + 1) /\ Remote[In(w, h + 1)] = Eg(w, h)
         /\ w.eg[h] # 0 /\ w.in[h + 1] # 0 /\ w.ia[h + 1] # w.ia[h]
         /\ RouterOf[Eg(w, h)] \in Routers /\ IA(RouterOf[Eg(w, h)]) = w.ia[h]
         /\ RouterOf[In(w, h + 1)] \in Routers /\ IA(RouterOf[In(w, h + 1)]) = w.ia[h + 1]
         /\ w.pos[h] \in Nat /\ w.pos[h + 1] = w.pos[h] + 2
         /\ c[w.pos[h] + 1] = Eg(w, h) /\ c[w.pos[h] + 2] = In(w, h + 1)
<1>1. Link(w, c, h) /\ w.pos[h] \in Nat
  <2>1. h \in 1 .. w.n
    BY DEF Walk
  <2> QED
    BY <2>1 DEF Walk
<1>2. /\ Eg(w, h) \in Interfaces /\ Remote[Eg(w, h)] = In(w, h + 1) /\ w.pos[h + 1] = w.pos[h] + 2
      /\ c[w.pos[h] + 1] = Eg(w, h) /\ c[w.pos[h] + 2] = In(w, h + 1)
  BY <1>1 DEF Link
<1>3. /\ w.eg[h] # 0 /\ RouterOf[Eg(w, h)] \in Routers /\ IA(RouterOf[Eg(w, h)]) = w.ia[h]
      /\ Remote[Eg(w, h)] \in Interfaces /\ Remote[Remote[Eg(w, h)]] = Eg(w, h) /\ Remote[Eg(w, h)][1] # w.ia[h]
  <2>1. Eg(w, h)[1] = w.ia[h] /\ Eg(w, h)[2] = w.eg[h]
    BY DEF Eg
  <2> QED
    BY <1>2, <2>1, InterfaceFacts
<1>4. In(w, h + 1) \in Interfaces /\ Remote[In(w, h + 1)] = Eg(w, h) /\ In(w, h + 1)[1] # w.ia[h]
  BY <1>2, <1>3
<1>5. /\ w.in[h + 1] # 0 /\ RouterOf[In(w, h + 1)] \in Routers /\ IA(RouterOf[In(w, h + 1)]) = w.ia[h + 1]
  <2>1. In(w, h + 1)[1] = w.ia[h + 1] /\ In(w, h + 1)[2] = w.in[h + 1]
    BY DEF In
  <2> QED
    BY <1>4, <2>1, InterfaceFacts
<1>6. w.ia[h + 1] # w.ia[h]
  BY <1>4 DEF In
<1> QED
  BY <1>1, <1>2, <1>3, <1>4, <1>5, <1>6

\* What the place of a packet means for the router it is at.
LEMMA WhereFacts ==
  ASSUME NEW w, NEW c, NEW src, NEW dst, Trip(w, c, src, dst),
         NEW k \in 1 .. w.n, NEW in, NEW from, NEW r, Where(w, k, in, from, r)
  PROVE  /\ r \in Routers /\ IA(r) = w.ia[k] /\ w.n \in Nat
         /\ in # 0 => in = w.in[k] /\ k > 1 /\ Linked(w, k - 1) /\ In(w, k) \in Interfaces /\ r = RouterOf[In(w, k)]
         /\ in = 0 => k < w.n /\ Linked(w, k) /\ w.eg[k] \in external(r)
         /\ in = 0 /\ k > 1 => LET id == w.in[IF Linked(w, k - 1) THEN k ELSE k - 1]
                               IN  id \in internalNextHops(r) /\ from = SiblingFor(r, id)
         /\ (k = 1 <=> w.ia[k] = src) /\ (k = w.n <=> w.ia[k] = dst)
<1>1. Walk(w, c) /\ w.n \in Nat /\ w.n > 1
  BY DEF Trip, Walk
<1>2. (k = 1 <=> w.ia[k] = src) /\ (k = w.n <=> w.ia[k] = dst)
  <2>1. k # 1 => k \in 2 .. w.n
    BY <1>1
  <2>2. k # w.n => k \in 1 .. (w.n - 1)
    BY <1>1
  <2> QED
    BY <2>1, <2>2 DEF Trip
<1>3. CASE in # 0
  <2>1. k > 1 /\ Linked(w, k - 1) /\ in = w.in[k] /\ r = RouterOf[In(w, k)]
    BY <1>3 DEF Where
  <2>2. k - 1 \in 1 .. (w.n - 1) /\ (k - 1) + 1 = k
    BY <1>1, <2>1
  <2>3. In(w, k) \in Interfaces /\ RouterOf[In(w, k)] \in Routers /\ IA(RouterOf[In(w, k)]) = w.ia[k]
    BY <1>1, <2>1, <2>2, LinkFacts
  <2> QED
    BY <1>1, <1>2, <1>3, <2>1, <2>3
<1>4. CASE in = 0
  <2>1. k < w.n /\ Linked(w, k) /\ r = RouterOf[Eg(w, k)]
    <3>1. CASE k = 1
      <4>1. Linked(w, 1)
        <5>1. 1 \in 1 .. (w.n - 1)
          BY <1>1
        <5>2. ~Linked(w, 1) => Switch(w, 1)
          BY <1>1, <5>1 DEF Walk
        <5>3. ~Switch(w, 1)
          BY DEF Switch
        <5> QED
          BY <5>2, <5>3
      <4> QED
        BY <1>1, <1>4, <3>1, <4>1 DEF Where
    <3>2. CASE k # 1
      BY <1>4, <3>2 DEF Where
    <3> QED
      BY <3>1, <3>2
  <2>2. k \in 1 .. (w.n - 1)
    BY <1>1, <2>1
  <2>3. Eg(w, k) \in Interfaces /\ r \in Routers /\ IA(r) = w.ia[k]
    BY <1>1, <2>1, <2>2, LinkFacts
  <2>4. w.eg[k] \in external(r)
    <3>1. <<w.ia[k], w.eg[k]>> \in Interfaces /\ RouterOf[<<w.ia[k], w.eg[k]>>] = r
      BY <2>1, <2>3 DEF Eg
    <3> QED
      BY <2>3, <3>1, KnownInterfaces
  <2>5. ASSUME k > 1
        PROVE  LET id == w.in[IF Linked(w, k - 1) THEN k ELSE k - 1]
               IN  id \in internalNextHops(r) /\ from = SiblingFor(r, id)
    <3> DEFINE g == IF Linked(w, k - 1) THEN k ELSE k - 1
    <3>1. from = RouterOf[In(w, g)] /\ from # r
      BY <1>1, <1>4, <2>5 DEF Where
    <3>2. In(w, g) \in Interfaces /\ w.ia[g] = w.ia[k]
      <4>1. k - 1 \in 1 .. (w.n - 1) /\ (k - 1) + 1 = k
        BY <1>1, <2>5
      <4>2. CASE Linked(w, k - 1)
        <5>1. In(w, k) \in Interfaces
          BY <1>1, <4>1, <4>2, LinkFacts
        <5> QED
          BY <4>2, <5>1
      <4>3. CASE ~Linked(w, k - 1)
        <5>1. Switch(w, k - 1)
          BY <1>1, <4>1, <4>3 DEF Walk
        <5>2. 1 < k - 1 /\ Linked(w, (k - 1) - 1) /\ w.ia[k] = w.ia[k - 1]
          BY <4>1, <5>1 DEF Switch
        <5>3. (k - 1) - 1 \in 1 .. (w.n - 1) /\ ((k - 1) - 1) + 1 = k - 1
          BY <1>1, <5>2
        <5>4. In(w, k - 1) \in Interfaces
          BY <1>1, <5>2, <5>3, LinkFacts
        <5> QED
          BY <4>3, <5>2, <5>4
      <4> QED
        BY <4>2, <4>3
    <3> HIDE DEF g
    <3>3. <<w.ia[k], w.in[g]>> \in Interfaces /\ RouterOf[<<w.ia[k], w.in[g]>>] = from
      BY <3>1, <3>2 DEF In
    <3>4. w.in[g] \in internalNextHops(r)
      BY <2>3, <3>1, <3>3, KnownInterfaces
    <3>5. from = SiblingFor(r, w.in[g])
      BY <2>3, <3>3 DEF SiblingFor
    <3> QED
      BY <3>4, <3>5 DEF g
  <2> QED
    BY <1>1, <1>2, <1>4, <2>1, <2>3, <2>4, <2>5
<1> QED
  BY <1>3, <1>4

\* The updates of SegID and of the pointers leave the hop fields alone.
LEMMA HopsKept ==
  ASSUME NEW p, IsPath(p), Pointed(p), NEW in, NEW b
  PROVE  /\ updateNonConsDirIngressSegID(p, in, b).hops = p.hops
         /\ doXover(p, b).hops = p.hops /\ processEgress(p, b).hops = p.hops
<1>1. UpdateSegID(p).hops = p.hops
  BY UpdateFacts
<1>2. IncPath(p).hops = p.hops
  BY IncFacts
<1>3. IsPath(UpdateSegID(p)) /\ Pointed(UpdateSegID(p))
  BY RouterMoves DEF Moves, Alike
<1>4. IncPath(UpdateSegID(p)).hops = p.hops
  BY <1>1, <1>3, IncFacts
<1> QED
  BY <1>1, <1>2, <1>4 DEF updateNonConsDirIngressSegID, doXover, processEgress

\* No hop field asks for an answer.
Quiet(p) == \A h \in 1 .. Len(p.hops) : p.hops[h].inAlert = FALSE /\ p.hops[h].egAlert = FALSE

\* What the fast path makes of a packet that is on its way, at hop k.
Onward(w, k, r, pk, o) ==
  \/ o.do = "slow" /\ o.arg \in Excuses
  \/ o.do = "alert" /\ pk.kind = "request"
  \/ /\ o.do = "deliver" /\ o.path.hops = pk.path.hops
     /\ k = w.n /\ IA(r) = w.ia[w.n] /\ At(o.path, w, w.n, w.beta[w.n])
  \/ /\ o.do = "external" /\ o.path.hops = pk.path.hops
     /\ \E j \in 1 .. (w.n - 1) : /\ Linked(w, j) /\ w.pos[j] = w.pos[k] /\ IA(r) = w.ia[j] /\ o.arg = w.eg[j]
                                  /\ At(o.path, w, j + 1, Acc(w, j + 1))
  \/ /\ o.do = "internal" /\ o.path.hops = pk.path.hops
     /\ \E j \in 1 .. w.n : /\ w.pos[j] = w.pos[k] /\ At(o.path, w, j, w.beta[j])
                            /\ Where(w, j, 0, r, SiblingFor(r, o.arg))

\* The checks of the hop field with which the packet leaves: hop j is past the
\* change of segment, if there is one.
LEMMA OutboundOnward ==
  ASSUME NEW w, NEW c, NEW src, NEW dst, Trip(w, c, src, dst),
         NEW k \in 1 .. w.n, NEW in, NEW from, NEW r, Where(w, k, in, from, r), k < w.n,
         NEW pk, pk.kind # "request" => Quiet(pk.path), NEW now_, NEW down_,
         NEW j, j = (IF Linked(w, k) THEN k ELSE k + 1),
         NEW p, At(p, w, j, w.beta[j]), p.hops = pk.path.hops, NEW peering, peering <=> k \in w.pr,
         NEW xover, xover <=> ~Linked(w, k)
  PROVE  Onward(w, k, r, pk, outbound(r, in, now_, down_, peering, xover, p))
<1> DEFINE o == outbound(r, in, now_, down_, peering, xover, p)
<1>1. Walk(w, c) /\ w.n \in Nat /\ k \in 1 .. (w.n - 1)
  BY DEF Trip, Walk
<1>2. /\ r \in Routers /\ IA(r) = w.ia[k]
      /\ in # 0 => in = w.in[k] /\ k > 1 /\ Linked(w, k - 1) /\ In(w, k) \in Interfaces /\ r = RouterOf[In(w, k)]
      /\ in = 0 => Linked(w, k) /\ w.eg[k] \in external(r)
  BY WhereFacts
<1>3. /\ j \in 1 .. (w.n - 1) /\ j < w.n /\ Linked(w, j) /\ w.ia[j] = w.ia[k] /\ w.pos[j] = w.pos[k]
      /\ ~Linked(w, k) => <<LinkType[In(w, k)], LinkType[Eg(w, j)]>> \in acrossSegments
      /\ peering <=> j \in w.pr
  <2>1. CASE Linked(w, k)
    BY <1>1, <2>1
  <2>2. CASE ~Linked(w, k)
    <3>1. Switch(w, k) /\ Chained(w, k) /\ j = k + 1
      BY <1>1, <2>2 DEF Walk
    <3>2. /\ k + 1 < w.n /\ Linked(w, k + 1) /\ w.ia[k + 1] = w.ia[k] /\ w.pos[k + 1] = w.pos[k]
          /\ <<LinkType[In(w, k)], LinkType[Eg(w, k + 1)]>> \in acrossSegments
      BY <3>1 DEF Switch
    <3>3. k \notin w.pr /\ k + 1 \notin w.pr
      BY <2>2, <3>1 DEF Linked, Chained
    <3>4. k + 1 \in 1 .. (w.n - 1)
      BY <1>1, <3>2
    <3> QED
      BY <2>2, <3>1, <3>2, <3>3, <3>4
  <2> QED
    BY <2>1, <2>2
<1>4. /\ Eg(w, j) \in Interfaces /\ <<IA(r), w.eg[j]>> = Eg(w, j) /\ w.eg[j] # 0
      /\ w.eg[j] \in external(r) <=> RouterOf[Eg(w, j)] = r
      /\ w.eg[j] \in internalNextHops(r) <=> RouterOf[Eg(w, j)] # r
  <2>1. Eg(w, j) \in Interfaces /\ <<IA(r), w.eg[j]>> = Eg(w, j) /\ w.eg[j] # 0
    BY <1>1, <1>2, <1>3, LinkFacts DEF Eg
  <2>2. <<IA(r), w.eg[j]>> \in Interfaces
    BY <2>1
  <2>3. /\ w.eg[j] \in external(r) <=> RouterOf[<<IA(r), w.eg[j]>>] = r
        /\ w.eg[j] \in internalNextHops(r) <=> RouterOf[<<IA(r), w.eg[j]>>] # r
    BY <1>2, <2>2, KnownInterfaces
  <2> QED
    BY <2>1, <2>3
<1>5. /\ Carries(p, w) /\ j \in 1 .. w.n /\ p.currHF = j - 1 /\ Pointed(p) /\ IsPath(p) /\ Len(p.hops) = w.n
      /\ p.infos[w.sg[j]].segID = w.beta[j]
  BY DEF At, SegIDs, Carries
<1>6. /\ Info(p) = p.infos[w.sg[j]] /\ egressInterface(p) = w.eg[j] /\ Hop(p) = p.hops[j]
      /\ Hop(p).mac = MAC(w.ia[j], w.beta[j], Info(p).ts, Hop(p).exp, Hop(p).in, Hop(p).eg)
  BY <1>5, HopFacts
<1>7. verifyCurrentMAC(r, p)
  BY <1>2, <1>3, <1>5, <1>6 DEF verifyCurrentMAC
<1>8. ~unknownEgress(r, in, p)
  <2>1. in = 0 => j = k
    BY <1>2
  <2> QED
    BY <1>2, <1>4, <1>6, <2>1 DEF unknownEgress
<1>9. ~invalidPair(r, in, p, xover)
  <2>1. linkType(r, w.eg[j]) = LinkType[Eg(w, j)]
    BY <1>4 DEF linkType
  <2>2. in # 0 => linkType(r, in) = LinkType[In(w, k)]
    BY <1>2 DEF linkType, In
  <2>3. CASE xover
    BY <1>2, <1>3, <1>6, <2>1, <2>2, <2>3 DEF invalidPair
  <2>4. CASE ~xover /\ in = 0
    BY <2>4 DEF invalidPair
  <2>5. CASE ~xover /\ in # 0
    <3>1. k \in 2 .. (w.n - 1) /\ Linked(w, k - 1) /\ Linked(w, k) /\ j = k
      BY <1>1, <1>2, <2>5
    <3>2. <<LinkType[In(w, k)], LinkType[Eg(w, k)]>> \in withinSegment
      BY <1>1, <3>1 DEF Walk
    <3> QED
      BY <1>6, <2>1, <2>2, <2>5, <3>1, <3>2 DEF invalidPair
  <2> QED
    BY <2>3, <2>4, <2>5
<1> DEFINE id == egressInterface(p)
           last == IF id \in external(r) THEN Outcome("external", id, processEgress(p, peering))
                                         ELSE Outcome("internal", id, p)
<1>10. Onward(w, k, r, pk, last)
  <2>1. CASE id \in external(r)
    <3> DEFINE q == processEgress(p, peering)
    <3>1. At(q, w, j + 1, Acc(w, j + 1)) /\ q.hops = pk.path.hops
      BY <1>1, <1>3, <1>5, AtEgress, HopsKept
    <3> HIDE DEF q
    <3>2. last = Outcome("external", w.eg[j], q)
      BY <1>6, <2>1 DEF q
    <3> HIDE DEF last
    <3>3. last.do = "external" /\ last.arg = w.eg[j] /\ last.path = q
      BY <3>2 DEF Outcome
    <3> QED
      BY <1>2, <1>3, <3>1, <3>3 DEF Onward
  <2>2. CASE id \notin external(r)
    <3>1. last = Outcome("internal", w.eg[j], p)
      BY <1>6, <2>2
    <3> HIDE DEF last
    <3>2. last.do = "internal" /\ last.arg = w.eg[j] /\ last.path = p
      BY <3>1 DEF Outcome
    <3>3. in # 0 /\ RouterOf[Eg(w, j)] # r /\ SiblingFor(r, w.eg[j]) = RouterOf[Eg(w, j)]
      <4>1. in = 0 => j = k
        BY <1>2
      <4> QED
        BY <1>2, <1>4, <1>6, <2>2, <4>1 DEF SiblingFor
    <3>4. In(w, IF Linked(w, j - 1) THEN j ELSE j - 1) = In(w, k)
      <4>1. CASE Linked(w, k)
        BY <1>2, <3>3, <4>1
      <4>2. CASE ~Linked(w, k)
        <5>1. j = k + 1 /\ j - 1 = k
          BY <4>2
        <5> QED
          BY <4>2, <5>1
      <4> QED
        BY <4>1, <4>2
    <3>5. Where(w, j, 0, r, SiblingFor(r, w.eg[j]))
      <4>1. j > 1
        BY <1>1, <1>2, <3>3
      <4> QED
        BY <1>2, <1>3, <3>3, <3>4, <4>1 DEF Where
    <3> QED
      BY <1>3, <1>5, <3>2, <3>5 DEF Onward
  <2> QED
    BY <2>1, <2>2
<1> HIDE DEF last
<1>11. ASSUME NEW arg \in Excuses PROVE Onward(w, k, r, pk, Outcome("slow", arg, p))
  <2> DEFINE t == Outcome("slow", arg, p)
  <2>1. t.do = "slow" /\ t.arg = arg
    BY DEF Outcome
  <2> HIDE DEF t
  <2> QED
    BY <2>1 DEF Onward, t
<1>12. Onward(w, k, r, pk, validateEgressUp(r, p, down_, last))
  <2>1. "ExternalInterfaceDown" \in Excuses /\ "InternalConnectivityDown" \in Excuses
    BY DEF Excuses
  <2> QED
    BY <1>10, <1>11, <2>1 DEF validateEgressUp
<1>13. Onward(w, k, r, pk, egressChecks(r, p, down_, last))
  <2>1. CASE egressRouterAlert(p)
    <3> DEFINE t == Outcome("alert", id, clearEgressAlert(p))
    <3>1. pk.kind = "request"
      BY <1>5, <1>6, <2>1 DEF egressRouterAlert, Quiet
    <3>2. t.do = "alert"
      BY DEF Outcome
    <3> HIDE DEF t
    <3>3. Onward(w, k, r, pk, t)
      BY <3>1, <3>2 DEF Onward
    <3> QED
      BY <1>12, <3>3 DEF egressChecks, handleEgressRouterAlert, t
  <2>2. CASE ~egressRouterAlert(p)
    BY <1>12, <2>2 DEF egressChecks, handleEgressRouterAlert
  <2> QED
    BY <2>1, <2>2
<1>14. o = IF hopExpired(p, now_) THEN Outcome("slow", "PathExpired", p) ELSE egressChecks(r, p, down_, last)
  BY <1>7, <1>8, <1>9 DEF outbound, last
<1>15. "PathExpired" \in Excuses
  BY DEF Excuses
<1> QED
  BY <1>11, <1>13, <1>14, <1>15

\* The fast path moves a packet along its walk.
LEMMA ProcessOnward ==
  ASSUME NEW w, NEW c, NEW src, NEW dst, Trip(w, c, src, dst),
         NEW k \in 1 .. w.n, NEW in, NEW from, NEW r, Where(w, k, in, from, r),
         NEW pk, pk.src = src, pk.dst = dst, pk.kind # "request" => Quiet(pk.path), NEW now_, NEW down_,
         At(pk.path, w, k, IF in = 0 THEN w.beta[k] ELSE Acc(w, k))
  PROVE  Onward(w, k, r, pk, process(r, in, from, pk, now_, down_))
<1> DEFINE p == pk.path
           peering == determinePeer(p)
           p1 == updateNonConsDirIngressSegID(p, in, peering)
           p2 == doXover(p1, peering)
           xover == p2.currHF # p1.currHF
           rest == outbound(r, in, now_, down_, peering, xover, p2)
<1> HIDE DEF p
<1>1. Walk(w, c) /\ w.n \in Nat /\ w.n > 1
  BY DEF Trip, Walk
<1>2. /\ r \in Routers /\ IA(r) = w.ia[k]
      /\ in # 0 => in = w.in[k] /\ k > 1 /\ Linked(w, k - 1) /\ In(w, k) \in Interfaces /\ r = RouterOf[In(w, k)]
      /\ in = 0 => k < w.n /\ Linked(w, k) /\ w.eg[k] \in external(r)
      /\ in = 0 /\ k > 1 => LET id == w.in[IF Linked(w, k - 1) THEN k ELSE k - 1]
                            IN  id \in internalNextHops(r) /\ from = SiblingFor(r, id)
      /\ (k = 1 <=> w.ia[k] = src) /\ (k = w.n <=> w.ia[k] = dst)
  BY WhereFacts
<1>3. /\ Carries(p, w) /\ p.currHF = k - 1 /\ Pointed(p) /\ IsPath(p) /\ Len(p.hops) = w.n
  BY DEF At, Carries, p
<1>4. /\ peering <=> k \in w.pr
      /\ ~malformedPeering(p) /\ IngressOf(Info(p), Hop(p)) = w.in[k]
      /\ IsFirstHop(p) <=> k = 1
      /\ IsLastHop(p) <=> k = w.n
  BY <1>3, HopFacts
<1> HIDE DEF peering
<1>5. At(p1, w, k, w.beta[k]) /\ p1.hops = p.hops
  <2>1. CASE in = 0
    <3>1. p1 = p
      BY <2>1 DEF updateNonConsDirIngressSegID
    <3> QED
      BY <2>1, <3>1 DEF p
  <2>2. CASE in # 0
    <3>1. At(p, w, k, Acc(w, k))
      BY <2>2 DEF p
    <3> QED
      BY <1>3, <1>4, <2>2, <3>1, AtIngress, HopsKept
  <2> QED
    BY <2>1, <2>2
<1> HIDE DEF p1
<1>6. /\ Carries(p1, w) /\ p1.currHF = k - 1 /\ Pointed(p1) /\ IsPath(p1) /\ Len(p1.hops) = w.n
      /\ p1.infos[w.sg[k]].segID = w.beta[k]
  BY <1>5 DEF At, SegIDs, Carries
<1>7. /\ Info(p1) = p1.infos[w.sg[k]] /\ Hop(p1) = p1.hops[k]
      /\ Hop(p1).mac = MAC(w.ia[k], w.beta[k], Info(p1).ts, Hop(p1).exp, Hop(p1).in, Hop(p1).eg)
      /\ IsXover(p1) <=> k < w.n /\ w.sg[k + 1] # w.sg[k]
  BY <1>6, HopFacts
<1>8. in \in {0, IngressOf(Info(p), Hop(p))}
  BY <1>2, <1>4
<1>9. ~invalidTransitSrc(r, in, from, p, peering)
  <2>1. ASSUME in = 0, k # 1
        PROVE  LET id == ingressInterface(p, peering) IN id \in internalNextHops(r) /\ from = SiblingFor(r, id)
    <3>1. k \in 2 .. w.n /\ k > 1
      BY <1>1, <2>1
    <3>2. ingressInterface(p, peering) = w.in[IF Linked(w, k - 1) THEN k ELSE k - 1]
      BY <1>1, <1>3, <1>4, <3>1, TransitIngress
    <3> QED
      BY <1>2, <2>1, <3>1, <3>2
  <2> QED
    BY <1>4, <2>1 DEF invalidTransitSrc
<1>10. ~invalidSrcIA(r, in, pk)
  BY <1>2, <1>4 DEF invalidSrcIA, p
<1>11. ~invalidDstIA(r, in, pk)
  <2>1. in = 0 => w.ia[k] # dst
    BY <1>1, <1>2
  <2>2. IsLastHop(p) <=> pk.dst = IA(r)
    BY <1>2, <1>4
  <2>3. IsLastHop(p) = (pk.dst = IA(r))
    BY <2>2 DEF IsLastHop
  <2>4. pk.dst # IA(r) \/ in # 0
    BY <1>2, <2>1
  <2> QED
    BY <2>3, <2>4 DEF invalidDstIA, p
<1>12. verifyCurrentMAC(r, p1)
  BY <1>2, <1>6, <1>7 DEF verifyCurrentMAC
<1>13. ASSUME NEW arg \in Excuses, NEW q PROVE Onward(w, k, r, pk, Outcome("slow", arg, q))
  <2> DEFINE t == Outcome("slow", arg, q)
  <2>1. t.do = "slow" /\ t.arg = arg
    BY DEF Outcome
  <2> HIDE DEF t
  <2> QED
    BY <2>1 DEF Onward, t
<1>14. in # 0 /\ ingressRouterAlert(p1) => Onward(w, k, r, pk, Outcome("alert", in, clearIngressAlert(p1)))
  <2> SUFFICES ASSUME ingressRouterAlert(p1) PROVE Onward(w, k, r, pk, Outcome("alert", in, clearIngressAlert(p1)))
    OBVIOUS
  <2> DEFINE t == Outcome("alert", in, clearIngressAlert(p1))
  <2>1. pk.kind = "request"
    BY <1>3, <1>5, <1>7 DEF ingressRouterAlert, Quiet, p
  <2>2. t.do = "alert"
    BY DEF Outcome
  <2> HIDE DEF t
  <2>3. Onward(w, k, r, pk, t)
    BY <2>1, <2>2 DEF Onward
  <2> QED
    BY <2>3 DEF t
<1>15. k # w.n => Onward(w, k, r, pk, rest)
  <2> SUFFICES ASSUME k # w.n PROVE Onward(w, k, r, pk, rest)
    OBVIOUS
  <2> DEFINE j == IF Linked(w, k) THEN k ELSE k + 1
  <2>1. k < w.n
    BY <1>1
  <2>2. /\ At(p2, w, j, w.beta[j]) /\ p2.hops = p.hops
        /\ xover <=> ~Linked(w, k)
    <3>1. CASE Linked(w, k)
      <4>1. ~(IsXover(p1) /\ ~peering)
        BY <1>4, <1>7, <3>1 DEF Linked
      <4>2. p2 = p1
        BY <4>1 DEF doXover
      <4> QED
        BY <1>5, <3>1, <4>2
    <3>2. CASE ~Linked(w, k)
      <4>1. w.sg[k + 1] # w.sg[k] /\ k \notin w.pr
        BY <3>2 DEF Linked
      <4>2. p2 = IncPath(p1)
        BY <1>4, <1>7, <2>1, <4>1 DEF doXover
      <4>3. At(p2, w, k + 1, w.beta[k + 1])
        BY <1>1, <1>5, <2>1, <4>1, <4>2, AtNext
      <4>4. p2.hops = p.hops
        BY <1>5, <1>6, <4>2, IncFacts
      <4>5. p2.currHF = (k + 1) - 1
        BY <4>3 DEF At
      <4>6. p2.currHF # p1.currHF
        BY <1>6, <4>5
      <4> QED
        BY <3>2, <4>3, <4>4, <4>6
    <3> QED
      BY <3>1, <3>2
  <2> HIDE DEF j, p2, xover
  <2> QED
    BY <1>4, <2>1, <2>2, OutboundOnward DEF j, p
<1> HIDE DEF rest
<1>16. k = w.n => Onward(w, k, r, pk, Outcome("deliver", 0, p1))
  <2> DEFINE t == Outcome("deliver", 0, p1)
  <2>1. t.do = "deliver" /\ t.path = p1
    BY DEF Outcome
  <2> HIDE DEF t
  <2>2. k = w.n => Onward(w, k, r, pk, t)
    BY <1>2, <1>5, <2>1 DEF Onward, p
  <2> QED
    BY <2>2 DEF t
<1>17. "PathExpired" \in Excuses /\ "NoRoute" \in Excuses
  BY DEF Excuses
<1>18. pk.dst # IA(r) <=> k # w.n
  BY <1>2
<1>19. inbound(r, in, from, pk, now_, peering, p1, rest) =
         IF hopExpired(p, now_) THEN Outcome("slow", "PathExpired", p)
         ELSE IF in # 0 /\ ingressRouterAlert(p1) THEN Outcome("alert", in, clearIngressAlert(p1))
         ELSE IF pk.dst # IA(r) THEN rest
         ELSE IF pk.kind = "svc" /\ IA(r) \notin Backends THEN Outcome("slow", "NoRoute", p1)
         ELSE Outcome("deliver", 0, p1)
  BY <1>4, <1>8, <1>9, <1>10, <1>11, <1>12 DEF inbound, p
<1>20. Onward(w, k, r, pk, inbound(r, in, from, pk, now_, peering, p1, rest))
  BY <1>13, <1>14, <1>15, <1>16, <1>17, <1>18, <1>19
<1> QED
  BY <1>20 DEF process, p, peering, p1, p2, rest, xover

---------------------------------------------------------------------------
(* The way back.                                                             *)

Turn(w, c) ==
  [n |-> w.n, ia |-> [h \in 1 .. w.n |-> w.ia[w.n + 1 - h]],
   in |-> [h \in 1 .. w.n |-> w.eg[w.n + 1 - h]], eg |-> [h \in 1 .. w.n |-> w.in[w.n + 1 - h]],
   sg |-> [h \in 1 .. w.n |-> w.sg[w.n] + 1 - w.sg[w.n + 1 - h]],
   cd |-> {h \in 1 .. w.n : w.n + 1 - h \notin w.cd}, pr |-> {h \in 1 .. w.n : w.n + 1 - h \in w.pr},
   beta |-> [h \in 1 .. w.n |-> w.beta[w.n + 1 - h]], mac |-> [h \in 1 .. w.n |-> w.mac[w.n + 1 - h]],
   pos |-> [h \in 1 .. w.n |-> Len(c) - w.pos[w.n + 1 - h]]]

\* Hop h of v is hop g of w in the other direction.
Mirrors(v, w, c, h, g) ==
  /\ v.n = w.n /\ v.ia[h] = w.ia[g] /\ v.in[h] = w.eg[g] /\ v.eg[h] = w.in[g]
  /\ v.sg[h] = w.sg[w.n] + 1 - w.sg[g]
  /\ h \in v.cd <=> g \notin w.cd
  /\ h \in v.pr <=> g \in w.pr
  /\ v.beta[h] = w.beta[g] /\ v.mac[h] = w.mac[g] /\ v.pos[h] = Len(c) - w.pos[g]
  /\ In(v, h) = Eg(w, g) /\ Eg(v, h) = In(w, g)

\* Hop h of the walk back is hop n + 1 - h of the walk.
LEMMA TurnFields ==
  ASSUME NEW w, NEW c, NEW h \in 1 .. w.n, NEW g, g = w.n + 1 - h
  PROVE  Mirrors(Turn(w, c), w, c, h, g)
<1> DEFINE v == Turn(w, c)
<1>1. /\ v.n = w.n /\ v.ia[h] = w.ia[g] /\ v.in[h] = w.eg[g] /\ v.eg[h] = w.in[g]
  BY DEF Turn
<1>2. v.sg[h] = w.sg[w.n] + 1 - w.sg[g] /\ v.pos[h] = Len(c) - w.pos[g]
  BY DEF Turn
<1>3. v.cd = {i \in 1 .. w.n : w.n + 1 - i \notin w.cd} /\ v.pr = {i \in 1 .. w.n : w.n + 1 - i \in w.pr}
  BY DEF Turn
<1>4. (h \in v.cd <=> g \notin w.cd) /\ (h \in v.pr <=> g \in w.pr)
  BY <1>3
<1>5. v.beta[h] = w.beta[g] /\ v.mac[h] = w.mac[g]
  BY DEF Turn
<1> HIDE DEF v
<1>6. In(v, h) = Eg(w, g) /\ Eg(v, h) = In(w, g)
  BY <1>1 DEF In, Eg
<1>7. Mirrors(v, w, c, h, g)
  BY <1>1, <1>2, <1>4, <1>5, <1>6 DEF Mirrors
<1> QED
  BY <1>7 DEF v

\* Neighbours in the walk back are neighbours in the walk, and their accumulators are
\* chained.
LEMMA TurnLinked ==
  ASSUME NEW w, NEW c, Walk(w, c), NEW h \in 1 .. (w.n - 1), NEW g, g = w.n - h
  PROVE  /\ g \in 1 .. (w.n - 1) /\ (Linked(Turn(w, c), h) <=> Linked(w, g)) /\ Chained(w, g) /\ Chained(Turn(w, c), h)
         /\ Mirrors(Turn(w, c), w, c, h, g + 1) /\ Mirrors(Turn(w, c), w, c, h + 1, g)
<1> DEFINE v == Turn(w, c)
<1>1. w.n \in Nat /\ g \in 1 .. (w.n - 1) /\ h \in 1 .. w.n /\ h + 1 \in 1 .. w.n /\ g \in 1 .. w.n /\ g + 1 \in 1 .. w.n
      /\ w.n + 1 - h = g + 1 /\ w.n + 1 - (h + 1) = g /\ w.n \in 1 .. w.n
  <2>1. w.n \in Nat
    BY DEF Walk
  <2> QED
    BY <2>1
<1>2. Mirrors(v, w, c, h, g + 1)
  <2> DEFINE i == g + 1
  <2>1. i = w.n + 1 - h
    BY <1>1
  <2> HIDE DEF i
  <2>2. Mirrors(Turn(w, c), w, c, h, i)
    BY <1>1, <2>1, TurnFields
  <2> QED
    BY <2>2 DEF i
<1>3. Mirrors(v, w, c, h + 1, g)
  <2> DEFINE i == h + 1
  <2>1. g = w.n + 1 - i /\ i \in 1 .. w.n
    BY <1>1
  <2> HIDE DEF i
  <2>2. Mirrors(Turn(w, c), w, c, i, g)
    BY <1>1, <2>1, TurnFields
  <2> QED
    BY <2>2 DEF i
<1> HIDE DEF v
<1>4. Chained(w, g) /\ w.sg[g] \in Nat /\ w.sg[g + 1] \in Nat /\ w.sg[w.n] \in Nat
  BY <1>1 DEF Walk
<1> DEFINE a == w.sg[g]
           b == w.sg[g + 1]
           x == v.sg[h]
           y == v.sg[h + 1]
           z == w.sg[w.n]
<1>5. x = z + 1 - b /\ y = z + 1 - a /\ a \in Nat /\ b \in Nat /\ z \in Nat
  BY <1>2, <1>3, <1>4 DEF Mirrors
<1> HIDE DEF a, b, x, y, z
<1>6. (x = y <=> a = b) /\ (b = a + 1 => y = x + 1) /\ ~(a = b /\ b = a + 1)
  BY <1>5
<1>7. Linked(v, h) <=> Linked(w, g)
  <2>1. a # b => (g \in w.pr <=> g + 1 \in w.pr)
    BY <1>4 DEF Chained, a, b
  <2>2. Linked(w, g) <=> a = b \/ g \in w.pr
    BY DEF Linked, a, b
  <2>3. Linked(v, h) <=> x = y \/ h \in v.pr
    BY DEF Linked, x, y
  <2> QED
    BY <1>2, <1>6, <2>1, <2>2, <2>3 DEF Mirrors
<1>8. Chained(v, h)
  <2>1. CASE a = b
    <3>1. /\ g \in w.cd <=> g + 1 \in w.cd
          /\ g \in w.cd => w.beta[g + 1] = IF g \in w.pr THEN w.beta[g] ELSE SymDiff(w.beta[g], {w.mac[g]})
          /\ g \notin w.cd => w.beta[g] = IF g + 1 \in w.pr THEN w.beta[g + 1] ELSE SymDiff(w.beta[g + 1], {w.mac[g + 1]})
      <4>1. ~(w.sg[g + 1] = w.sg[g] + 1)
        BY <1>6, <2>1 DEF a, b
      <4> QED
        BY <1>4, <4>1 DEF Chained
    <3>2. y = x
      BY <1>6, <2>1
    <3> QED
      BY <1>2, <1>3, <3>1, <3>2 DEF Chained, Mirrors, x, y
  <2>2. CASE a # b
    <3>1. b = a + 1 /\ (g \in w.pr <=> g + 1 \in w.pr)
      BY <1>4, <2>2 DEF Chained, a, b
    <3>2. v.sg[h + 1] = v.sg[h] + 1
      BY <1>6, <3>1 DEF x, y
    <3> QED
      BY <1>2, <1>3, <3>1, <3>2 DEF Chained, Mirrors
  <2> QED
    BY <2>1, <2>2
<1> QED
  BY <1>1, <1>2, <1>3, <1>4, <1>7, <1>8 DEF v

\* A link of the walk back is one of the walk, taken from its other end.
LEMMA TurnLink ==
  ASSUME NEW w, NEW c, Walk(w, c), NEW h \in 1 .. (w.n - 1), Linked(Turn(w, c), h)
  PROVE  Link(Turn(w, c), Reverse(c), h)
<1> DEFINE v == Turn(w, c)
           g == w.n - h
           x == w.pos[g]
           y == w.pos[g + 1]
           m == Len(c)
           r == Reverse(c)
<1>1. /\ g \in 1 .. (w.n - 1) /\ Linked(w, g) /\ Mirrors(v, w, c, h, g + 1) /\ Mirrors(v, w, c, h + 1, g)
  BY TurnLinked
<1>2. /\ w.n \in Nat /\ g + 1 \in 1 .. w.n /\ g \in 1 .. w.n
  <2>1. w.n \in Nat
    BY DEF Walk
  <2> QED
    BY <1>1, <2>1
<1>3. c \in Seq(Interfaces) /\ m \in Nat /\ IsSeq(c)
  BY SeqTyped DEF Walk
<1> HIDE DEF v, g
<1>4. /\ Eg(w, g) \in Interfaces /\ In(w, g + 1) \in Interfaces
      /\ Remote[Eg(w, g)] = In(w, g + 1) /\ Remote[In(w, g + 1)] = Eg(w, g)
      /\ x \in Nat /\ y = x + 2
      /\ c[x + 1] = Eg(w, g) /\ c[x + 2] = In(w, g + 1)
  BY <1>1, LinkFacts
<1>5. y <= m
  BY <1>2 DEF Walk
<1>6. v.pos[h] = m - y /\ v.pos[h + 1] = m - x /\ Eg(v, h) = In(w, g + 1) /\ In(v, h + 1) = Eg(w, g)
  BY <1>1 DEF Mirrors
<1>7. \A j \in 1 .. m : r[j] = c[m + 1 - j]
  BY <1>3, SeqReverse
<1> DEFINE a == v.pos[h]
           b == v.pos[h + 1]
<1> HIDE DEF x, y, m, r, a, b
<1>8. a = m - y /\ b = m - x
  BY <1>6 DEF a, b
<1>9. a + 1 \in 1 .. m /\ a + 2 \in 1 .. m /\ b = a + 2 /\ m + 1 - (a + 1) = x + 2 /\ m + 1 - (a + 2) = x + 1
  BY ONLY <1>3, <1>4, <1>5, <1>8
<1>10. r[a + 1] = c[x + 2] /\ r[a + 2] = c[x + 1]
  <2> DEFINE i == a + 1
             j == a + 2
  <2>1. i \in 1 .. m /\ j \in 1 .. m /\ m + 1 - i = x + 2 /\ m + 1 - j = x + 1
    BY <1>9
  <2> HIDE DEF i, j
  <2>2. r[i] = c[x + 2] /\ r[j] = c[x + 1]
    BY <1>7, <2>1
  <2> QED
    BY <2>2 DEF i, j
<1>11. Link(v, r, h)
  <2>1. Eg(v, h) \in Interfaces /\ Remote[Eg(v, h)] = In(v, h + 1)
    BY <1>4, <1>6
  <2>2. v.pos[h + 1] = v.pos[h] + 2
    BY <1>9 DEF a, b
  <2>3. r[v.pos[h] + 1] = Eg(v, h) /\ r[v.pos[h] + 2] = In(v, h + 1)
    BY <1>4, <1>6, <1>10 DEF a
  <2> QED
    BY <2>1, <2>2, <2>3 DEF Link
<1> QED
  BY <1>11 DEF v, r

\* A change of segment on the walk back is allowed where it is on the walk.
LEMMA TurnSwitch ==
  ASSUME NEW w, NEW c, Walk(w, c), NEW h \in 1 .. (w.n - 1), ~Linked(Turn(w, c), h)
  PROVE  Switch(Turn(w, c), h)
<1> DEFINE v == Turn(w, c)
           g == w.n - h
<1>1. /\ g \in 1 .. (w.n - 1) /\ ~Linked(w, g) /\ Mirrors(v, w, c, h, g + 1) /\ Mirrors(v, w, c, h + 1, g)
  BY TurnLinked
<1>2. w.n \in Nat
  BY DEF Walk
<1>3. /\ 1 < g /\ g + 1 < w.n /\ Linked(w, g - 1) /\ Linked(w, g + 1)
      /\ w.ia[g + 1] = w.ia[g] /\ w.pos[g + 1] = w.pos[g]
      /\ <<LinkType[In(w, g)], LinkType[Eg(w, g + 1)]>> \in acrossSegments
  BY <1>1 DEF Walk, Switch
<1> DEFINE i == h - 1
           j == h + 1
<1>4. /\ i \in 1 .. (w.n - 1) /\ j \in 1 .. (w.n - 1) /\ w.n - i = g + 1 /\ w.n - j = g - 1 /\ 1 < h /\ h + 1 < w.n
  BY <1>2, <1>3
<1> HIDE DEF i, j
<1>5. (Linked(v, i) <=> Linked(w, w.n - i)) /\ (Linked(v, j) <=> Linked(w, w.n - j))
  BY <1>4, TurnLinked
<1>6. Linked(v, h - 1) /\ Linked(v, h + 1)
  BY <1>3, <1>4, <1>5 DEF i, j
<1>7. /\ v.ia[h + 1] = v.ia[h] /\ v.pos[h + 1] = v.pos[h] /\ v.n = w.n
      /\ In(v, h) = Eg(w, g + 1) /\ Eg(v, h + 1) = In(w, g)
  BY <1>1, <1>3 DEF Mirrors
<1>8. <<LinkType[In(v, h)], LinkType[Eg(v, h + 1)]>> \in acrossSegments
  BY <1>3, <1>7 DEF acrossSegments
<1> HIDE DEF v
<1>9. Switch(v, h)
  BY <1>4, <1>6, <1>7, <1>8 DEF Switch
<1> QED
  BY <1>9 DEF v

\* Pairs of links within a segment are allowed in both directions.
LEMMA TurnWithin ==
  ASSUME NEW w, NEW c, Walk(w, c), NEW h \in 2 .. (w.n - 1), Linked(Turn(w, c), h - 1), Linked(Turn(w, c), h)
  PROVE  <<LinkType[In(Turn(w, c), h)], LinkType[Eg(Turn(w, c), h)]>> \in withinSegment
<1> DEFINE v == Turn(w, c)
           g == w.n + 1 - h
           i == h - 1
<1>1. w.n \in Nat
  BY DEF Walk
<1>2. /\ i \in 1 .. (w.n - 1) /\ h \in 1 .. (w.n - 1) /\ h \in 1 .. w.n /\ w.n - i = g /\ w.n - h = g - 1
      /\ g \in 2 .. (w.n - 1)
  BY <1>1
<1>3. Linked(v, i) /\ Linked(v, h)
  OBVIOUS
<1>4. Mirrors(v, w, c, h, g)
  BY <1>2, TurnFields
<1> HIDE DEF v, g, i
<1>5. Linked(w, w.n - i) /\ Linked(w, w.n - h)
  BY <1>2, <1>3, TurnLinked DEF v
<1>6. <<LinkType[In(w, g)], LinkType[Eg(w, g)]>> \in withinSegment
  BY <1>2, <1>5 DEF Walk
<1>7. In(v, h) = Eg(w, g) /\ Eg(v, h) = In(w, g)
  BY <1>4 DEF Mirrors
<1>8. <<LinkType[In(v, h)], LinkType[Eg(v, h)]>> \in withinSegment
  BY <1>6, <1>7 DEF withinSegment
<1> QED
  BY <1>8 DEF v

\* A walk can be taken the other way.
LEMMA TurnWalk ==
  ASSUME NEW w, NEW c, Walk(w, c)
  PROVE  Walk(Turn(w, c), Reverse(c)) /\ Turn(w, c).sg[w.n] = w.sg[w.n] /\ Turn(w, c).n = w.n
         /\ Turn(w, c).pos[1] = Len(c) - w.pos[w.n] /\ Turn(w, c).pos[w.n] = Len(c) - w.pos[1]
<1> DEFINE v == Turn(w, c)
           r == Reverse(c)
           m == Len(c)
           n == w.n
           z == w.sg[n]
<1>1. /\ n \in Nat /\ n > 0 /\ c \in Seq(Interfaces) /\ m \in Nat /\ IsSeq(c)
      /\ \A h \in 1 .. n : /\ w.pos[h] \in Nat /\ w.pos[h] <= m
                           /\ w.sg[h] \in Nat /\ 1 <= w.sg[h] /\ w.sg[h] <= z
      /\ w.sg[1] = 1 /\ w.pos[1] \in {0, 1} /\ m \in {w.pos[n], w.pos[n] + 1}
      /\ w.pos[1] = 1 => c[1] = In(w, 1)
      /\ m = w.pos[n] + 1 => c[m] = Eg(w, n)
  BY SeqTyped DEF Walk
<1>2. 1 \in 1 .. n /\ n \in 1 .. n /\ n + 1 - 1 = n /\ n + 1 - n = 1
  BY <1>1
<1>3. Mirrors(v, w, c, 1, n) /\ Mirrors(v, w, c, n, 1)
  BY <1>2, TurnFields
<1>4. r \in Seq(Interfaces) /\ Len(r) = m /\ \A j \in 1 .. m : r[j] = c[m + 1 - j]
  <2>1. Len(r) = m /\ \A j \in 1 .. m : r[j] = c[m + 1 - j]
    BY <1>1, SeqReverse
  <2>2. r = [j \in 1 .. m |-> c[(m - j) + 1]]
    BY DEF Reverse
  <2>3. \A j \in 1 .. m : (m - j) + 1 \in 1 .. m
    BY <1>1
  <2>4. c \in [1 .. m -> Interfaces]
    BY <1>1
  <2> HIDE DEF m, r
  <2>5. r \in [1 .. m -> Interfaces]
    BY <2>2, <2>3, <2>4
  <2> QED
    BY <1>1, <2>1, <2>5
<1> HIDE DEF v, r, m, n
<1>5. v.n = n /\ v.sg[1] = z + 1 - z /\ v.sg[n] = z + 1 - 1 /\ v.pos[1] = m - w.pos[n] /\ v.pos[n] = m - w.pos[1]
      /\ In(v, 1) = Eg(w, n) /\ Eg(v, n) = In(w, 1)
  BY <1>1, <1>3 DEF Mirrors, m, n
<1>6. z \in Nat /\ w.pos[n] \in Nat /\ v.sg[1] = 1 /\ v.sg[n] = z
  BY <1>1, <1>2, <1>5
<1>7. ASSUME NEW h \in 1 .. n
      PROVE  /\ v.pos[h] \in Nat /\ v.pos[h] <= m
             /\ v.sg[h] \in Nat /\ 1 <= v.sg[h] /\ v.sg[h] <= z
  <2> DEFINE g == n + 1 - h
             x == w.pos[g]
             y == w.sg[g]
  <2>1. g \in 1 .. n
    BY <1>1
  <2>2. Mirrors(v, w, c, h, g)
    BY TurnFields DEF v, n
  <2> HIDE DEF g
  <2>3. v.pos[h] = m - x /\ v.sg[h] = z + 1 - y
    BY <2>2 DEF Mirrors, m, n
  <2>4. x \in Nat /\ x <= m /\ y \in Nat /\ 1 <= y /\ y <= z
    BY <1>1, <2>1
  <2> DEFINE d == v.pos[h]
             e == v.sg[h]
  <2>5. m \in Nat /\ z \in Nat /\ d = m - x /\ e = z + 1 - y
    BY <1>1, <1>6, <2>3
  <2> HIDE DEF x, y, z, d, e
  <2>6. d \in Nat /\ d <= m /\ e \in Nat /\ 1 <= e /\ e <= z
    BY ONLY <2>4, <2>5
  <2> QED
    BY <2>6 DEF d, e
<1>8. v.pos[1] \in {0, 1} /\ m \in {v.pos[n], v.pos[n] + 1}
  <2> DEFINE a == v.pos[1]
             b == v.pos[n]
             x == w.pos[1]
             y == w.pos[n]
  <2>1. a = m - y /\ b = m - x /\ x \in {0, 1} /\ m \in {y, y + 1} /\ m \in Nat /\ y \in Nat
    BY <1>1, <1>5, <1>6
  <2> HIDE DEF a, b, x, y
  <2>2. a \in {0, 1} /\ m \in {b, b + 1}
    BY ONLY <2>1
  <2> QED
    BY <2>2 DEF a, b
<1>9. v.pos[1] = 1 => r[1] = In(v, 1)
  <2> SUFFICES ASSUME v.pos[1] = 1 PROVE r[1] = In(v, 1)
    OBVIOUS
  <2>1. m = w.pos[n] + 1
    BY <1>1, <1>5, <1>6
  <2>2. 1 \in 1 .. m /\ m + 1 - 1 = m
    BY <1>1, <1>6, <2>1
  <2>3. r[1] = c[m]
    BY <1>4, <2>2
  <2> QED
    BY <1>1, <1>5, <2>1, <2>3
<1>10. m = v.pos[n] + 1 => r[m] = Eg(v, n)
  <2> SUFFICES ASSUME m = v.pos[n] + 1 PROVE r[m] = Eg(v, n)
    OBVIOUS
  <2>1. w.pos[1] = 1
    BY <1>1, <1>5
  <2>2. m \in 1 .. m /\ m + 1 - m = 1
    BY <1>1, <1>2, <2>1
  <2>3. r[m] = c[1]
    BY <1>4, <2>2
  <2> QED
    BY <1>1, <1>5, <2>1, <2>3
<1>11. \A h \in 1 .. (n - 1) : Chained(v, h) /\ (Linked(v, h) => Link(v, r, h)) /\ (~Linked(v, h) => Switch(v, h))
  <2> TAKE h \in 1 .. (n - 1)
  <2>1. Chained(v, h)
    BY TurnLinked DEF v, n
  <2>2. Linked(v, h) => Link(v, r, h)
    BY TurnLink DEF v, n, r
  <2>3. ~Linked(v, h) => Switch(v, h)
    BY TurnSwitch DEF v, n
  <2> QED
    BY <2>1, <2>2, <2>3
<1>12. \A h \in 2 .. (n - 1) :
          Linked(v, h - 1) /\ Linked(v, h) => <<LinkType[In(v, h)], LinkType[Eg(v, h)]>> \in withinSegment
  BY TurnWithin DEF v, n
<1>13. Walk(v, r)
  BY <1>1, <1>4, <1>5, <1>6, <1>7, <1>8, <1>9, <1>10, <1>11, <1>12 DEF Walk
<1> QED
  BY <1>5, <1>6, <1>13 DEF v, r, m, n

\* A trip from src to dst can be taken from dst to src.
LEMMA TurnTrip ==
  ASSUME NEW w, NEW c, NEW src, NEW dst, Trip(w, c, src, dst)
  PROVE  Trip(Turn(w, c), Reverse(c), dst, src)
<1> DEFINE v == Turn(w, c)
           n == w.n
<1>1. /\ Walk(w, c) /\ n > 1 /\ w.pos[1] = 0 /\ Len(c) = w.pos[n] /\ w.ia[1] = src /\ w.ia[n] = dst
      /\ \A h \in 2 .. n : w.ia[h] # src
      /\ \A h \in 1 .. (n - 1) : w.ia[h] # dst
  BY DEF Trip
<1>2. n \in Nat /\ Len(c) \in Nat /\ IsSeq(c) /\ w.pos[n] \in Nat
  BY <1>1, SeqTyped DEF Walk
<1>3. /\ Walk(v, Reverse(c)) /\ v.n = n /\ v.pos[1] = 0 /\ v.pos[n] = Len(c) /\ Len(Reverse(c)) = Len(c)
  BY <1>1, <1>2, TurnWalk, SeqReverse
<1> HIDE DEF v, n
<1>4. ASSUME NEW h \in 1 .. n, NEW g, g = n + 1 - h PROVE g \in 1 .. n /\ v.ia[h] = w.ia[g]
  <2>1. Mirrors(v, w, c, h, g)
    BY <1>4, TurnFields DEF v, n
  <2> QED
    BY <1>2, <1>4, <2>1 DEF Mirrors
<1>5. v.ia[1] = dst /\ v.ia[n] = src
  BY <1>1, <1>2, <1>4
<1>6. ASSUME NEW h \in 2 .. n PROVE v.ia[h] # dst
  <2> DEFINE g == n + 1 - h
  <2>1. g \in 1 .. (n - 1) /\ h \in 1 .. n
    BY <1>2
  <2>2. v.ia[h] = w.ia[g]
    BY <1>4, <2>1
  <2> QED
    BY <1>1, <2>1, <2>2
<1>7. ASSUME NEW h \in 1 .. (n - 1) PROVE v.ia[h] # src
  <2> DEFINE g == n + 1 - h
  <2>1. g \in 2 .. n /\ h \in 1 .. n
    BY <1>2
  <2>2. v.ia[h] = w.ia[g]
    BY <1>4, <2>1
  <2> QED
    BY <1>1, <2>1, <2>2
<1>8. Trip(v, Reverse(c), dst, src)
  BY <1>1, <1>2, <1>3, <1>5, <1>6, <1>7 DEF Trip
<1> QED
  BY <1>8 DEF v

\* The last hop is in the last segment.
LEMMA LastSegment ==
  ASSUME NEW p, NEW w, Carries(p, w), Pointed(p)
  PROVE  w.sg[w.n] = Len(p.infos) /\ w.n \in Nat /\ w.n > 0 /\ w.n = Len(p.hops)
<1> DEFINE q == ReversePath(p)
           n == Len(p.hops)
           m == Len(p.infos)
           x == infIndexForHF(p, n - 1)
<1>1. IsPath(p) /\ w.n = n /\ n \in Nat /\ m \in 1 .. 3 /\ n > 0
  BY PointedFacts DEF Carries
<1>2. /\ IsPath(q) /\ \A hf \in 0 .. (n - 1) : infIndexForHF(q, hf) = m - 1 - infIndexForHF(p, n - 1 - hf)
  BY <1>1, ReverseFacts
<1>3. infIndexForHF(q, 0) = 0
  <2>1. q.segLen[1] \in Nat /\ q.segLen[1] > 0
    BY <1>2 DEF IsPath, Measured
  <2> QED
    BY <2>1 DEF infIndexForHF
<1>4. x \in 0 .. 2
  <2> DEFINE k == n - 1
  <2>1. k \in 0 .. (n - 1)
    BY <1>1
  <2> HIDE DEF k
  <2>2. infIndexForHF(p, k) \in 0 .. (m - 1)
    BY <1>1, <2>1, IndexFacts
  <2> HIDE DEF m
  <2>3. \A y \in 0 .. (m - 1) : y \in 0 .. 2
    BY <1>1
  <2>4. infIndexForHF(p, k) \in 0 .. 2
    BY <2>2, <2>3
  <2> QED
    BY <2>4 DEF k
<1> HIDE DEF q, n, m
<1>5. 0 \in 0 .. (n - 1) /\ n - 1 - 0 = n - 1
  BY <1>1
<1>6. 0 = m - 1 - x
  BY <1>2, <1>3, <1>5
<1>7. w.sg[n] = x + 1
  <2>1. n \in 1 .. w.n
    BY <1>1
  <2> QED
    BY <1>1, <2>1 DEF Carries, Content
<1> HIDE DEF x
<1>8. x + 1 = m
  BY <1>1, <1>4, <1>6
<1> QED
  BY <1>1, <1>7, <1>8 DEF m, n

\* The reversed path carries the walk back, hop by hop.
LEMMA TurnContent ==
  ASSUME NEW p, NEW w, NEW c, Carries(p, w), Pointed(p), NEW h \in 1 .. w.n, NEW g, g = w.n + 1 - h
  PROVE  /\ Content(ReversePath(p), Turn(w, c), h) /\ ReversePath(p).infos[Turn(w, c).sg[h]].segID = p.infos[w.sg[g]].segID
         /\ w.sg[g] \in 1 .. Len(p.infos) /\ Mirrors(Turn(w, c), w, c, h, g)
<1> DEFINE q == ReversePath(p)
           v == Turn(w, c)
           n == w.n
           m == Len(p.infos)
           s == w.sg[g]
           t == v.sg[h]
<1>1. IsPath(p) /\ n = Len(p.hops) /\ n \in Nat /\ m \in 1 .. 3 /\ n > 0 /\ w.sg[n] = m
  BY PointedFacts, LastSegment DEF Carries
<1>2. /\ IsPath(q) /\ Len(q.infos) = m
      /\ \A i \in 1 .. n : q.hops[i] = p.hops[n + 1 - i]
      /\ \A i \in 1 .. m : q.infos[i] = Flip(p.infos[m + 1 - i])
      /\ \A hf \in 0 .. (n - 1) : infIndexForHF(q, hf) = m - 1 - infIndexForHF(p, n - 1 - hf)
      /\ m = 2 => q.segLen[1] = p.segLen[2] /\ q.segLen[2] = p.segLen[1] /\ q.segLen[3] = 0
  BY <1>1, ReverseFacts
<1>3. Mirrors(v, w, c, h, g)
  BY TurnFields
<1> HIDE DEF q, v, n, m
<1>4. g \in 1 .. n /\ n + 1 - h = g /\ h - 1 \in 0 .. (n - 1) /\ n - 1 - (h - 1) = g - 1 /\ g - 1 \in 0 .. (n - 1)
  BY <1>1 DEF n
<1>5. Content(p, w, g)
  BY <1>4 DEF Carries, n
<1>6. t = m + 1 - s
  BY <1>1, <1>3 DEF Mirrors, n
<1>7. s = infIndexForHF(p, g - 1) + 1 /\ s \in 1 .. m
  <2> DEFINE x == infIndexForHF(p, g - 1)
  <2>1. x \in 0 .. (m - 1)
    BY <1>1, <1>4, IndexFacts DEF m
  <2>2. s = x + 1
    BY <1>5 DEF Content
  <2> HIDE DEF x
  <2>3. s \in 1 .. m
    BY <1>1, <2>1, <2>2
  <2> QED
    BY <2>2, <2>3 DEF x
<1>8. t = infIndexForHF(q, h - 1) + 1 /\ t \in 1 .. m /\ m + 1 - t = s
  <2> DEFINE x == infIndexForHF(p, g - 1)
             y == infIndexForHF(q, h - 1)
             k == h - 1
  <2>1. k \in 0 .. (n - 1) /\ n - 1 - k = g - 1
    BY <1>4
  <2> HIDE DEF k
  <2>2. infIndexForHF(q, k) = m - 1 - x
    BY <1>2, <2>1
  <2>3. y = m - 1 - x /\ s = x + 1
    BY <1>7, <2>2 DEF k
  <2> HIDE DEF x, y, s, t
  <2>4. s \in 1 .. m /\ m \in 1 .. 3 /\ t = m + 1 - s
    BY <1>1, <1>6, <1>7
  <2>5. x \in Int
    <3>1. infIndexForHF(p, g - 1) \in 0 .. (m - 1)
      BY <1>1, <1>4, IndexFacts DEF m
    <3> QED
      BY <3>1 DEF x
  <2>6. t = y + 1 /\ t \in 1 .. m /\ m + 1 - t = s
    BY ONLY <2>3, <2>4, <2>5
  <2> QED
    BY <2>6 DEF y
<1> DEFINE i == p.infos[s]
           j == q.infos[t]
           f == p.hops[g]
<1>9. j = Flip(i) /\ IsInfo(i)
  <2> HIDE DEF t, s
  <2>1. q.infos[t] = Flip(p.infos[s])
    BY <1>2, <1>8
  <2>2. IsInfo(p.infos[s])
    BY <1>1, <1>7 DEF IsPath, m
  <2> QED
    BY <2>1, <2>2
<1>10. q.hops[h] = f
  BY <1>2, <1>4 DEF n
<1>11. /\ IsInfo(j) /\ j.segID = i.segID /\ j.ts = i.ts /\ j.consDir = ~i.consDir /\ j.peer = i.peer /\ i.consDir \in BOOLEAN
  <2>1. IsInfo(i) /\ j = Flip(i)
    BY <1>9
  <2> HIDE DEF i, j
  <2>2. IsInfo(Flip(i)) /\ Flip(i).segID = i.segID /\ Flip(i).ts = i.ts /\ Flip(i).consDir = ~i.consDir /\ Flip(i).peer = i.peer
    BY ONLY <2>1, FlipFacts
  <2>3. i.consDir \in BOOLEAN
    BY ONLY <2>1 DEF IsInfo
  <2> QED
    BY ONLY <2>1, <2>2, <2>3
<1>12. /\ i.consDir <=> g \in w.cd
       /\ IngressOf(i, f) = w.in[g] /\ EgressOf(i, f) = w.eg[g]
       /\ f.mac = w.mac[g] /\ f.mac = MAC(w.ia[g], w.beta[g], i.ts, f.exp, f.in, f.eg)
       /\ g \in w.pr <=> (i.peer /\ g - 1 \in {p.segLen[1] - 1, p.segLen[1]})
       /\ i.peer => p.segLen[2] # 0 /\ p.segLen[3] = 0
  BY <1>5 DEF Content
<1>13. /\ v.ia[h] = w.ia[g] /\ v.in[h] = w.eg[g] /\ v.eg[h] = w.in[g] /\ v.beta[h] = w.beta[g] /\ v.mac[h] = w.mac[g]
       /\ h \in v.cd <=> g \notin w.cd
       /\ h \in v.pr <=> g \in w.pr
  BY <1>3 DEF Mirrors
<1> DEFINE a == p.segLen[1]
           b == p.segLen[2]
           d == p.segLen[3]
<1>14. a \in Nat /\ b \in Nat /\ d \in Nat /\ a > 0 /\ n = a + b + d /\ (b > 0 <=> m > 1) /\ (d > 0 <=> m > 2)
  BY <1>1 DEF IsPath, Measured, m
<1> HIDE DEF i, j, f
<1>15. j.peer => q.segLen[2] # 0 /\ q.segLen[3] = 0 /\ q.segLen[1] = b /\ n = a + b
  <2> HIDE DEF a, b, d
  <2>1. j.peer => b # 0 /\ d = 0
    BY <1>11, <1>12 DEF b, d
  <2>2. b # 0 /\ d = 0 => m = 2 /\ n = a + b
    BY <1>1, <1>14
  <2>3. m = 2 => q.segLen[1] = b /\ q.segLen[2] = a /\ q.segLen[3] = 0
    BY <1>2 DEF a, b
  <2> QED
    BY <1>14, <2>1, <2>2, <2>3
<1>16. h \in v.pr <=> (j.peer /\ h - 1 \in {q.segLen[1] - 1, q.segLen[1]})
  <2> HIDE DEF a, b, d
  <2>1. CASE j.peer
    <3>1. q.segLen[1] = b /\ n = a + b
      BY <1>15, <2>1
    <3>2. g - 1 \in {a - 1, a} <=> h - 1 \in {b - 1, b}
      BY <1>4, <1>14, <3>1 DEF n
    <3> QED
      BY <1>11, <1>12, <1>13, <2>1, <3>1, <3>2 DEF a
  <2>2. CASE ~j.peer
    BY <1>11, <1>12, <1>13, <2>2
  <2> QED
    BY <2>1, <2>2
<1>17. IngressOf(j, f) = v.in[h] /\ EgressOf(j, f) = v.eg[h] /\ (j.consDir <=> h \in v.cd)
  BY <1>11, <1>12, <1>13 DEF IngressOf, EgressOf
<1>18. Content(q, v, h)
  <2>1. t = infIndexForHF(q, h - 1) + 1
    BY <1>8
  <2>2. f.mac = v.mac[h] /\ f.mac = MAC(v.ia[h], v.beta[h], j.ts, f.exp, f.in, f.eg)
    BY <1>11, <1>12, <1>13
  <2> QED
    BY <1>10, <1>15, <1>16, <1>17, <2>1, <2>2 DEF Content, j
<1> QED
  BY <1>3, <1>7, <1>11, <1>18 DEF q, v, m, i, j

\* At the last hop the reversed path leads back.
LEMMA TurnAt ==
  ASSUME NEW p, NEW w, NEW c, Walk(w, c), At(p, w, w.n, w.beta[w.n])
  PROVE  At(ReversePath(p), Turn(w, c), 1, Turn(w, c).beta[1])
<1> DEFINE q == ReversePath(p)
           v == Turn(w, c)
           n == w.n
<1>1. Carries(p, w) /\ Pointed(p) /\ IsPath(p) /\ p.currHF = n - 1 /\ SegIDs(p, w, n, w.beta[n])
  BY DEF At, Carries
<1>2. n \in Nat /\ n > 0 /\ n = Len(p.hops) /\ w.sg[n] = Len(p.infos)
  BY <1>1, LastSegment
<1>3. IsPath(q) /\ Pointed(q) /\ Len(q.hops) = n /\ q.currHF = n - p.currHF - 1
  BY <1>1, <1>2, ReverseFacts
<1>4. v.n = n
  BY TurnWalk
<1>5. \A h \in 1 .. n : Content(q, v, h)
  BY <1>1, TurnContent
<1>6. \A h \in 1 .. n : \A g : g = n + 1 - h => /\ q.infos[v.sg[h]].segID = p.infos[w.sg[g]].segID
                                                /\ w.sg[g] \in 1 .. Len(p.infos) /\ Mirrors(v, w, c, h, g)
  BY <1>1, TurnContent
<1> HIDE DEF q, v, n
<1>7. Carries(q, v)
  BY <1>3, <1>4, <1>5 DEF Carries
<1> DEFINE z == w.sg[n]
<1>8. z \in Nat
  BY <1>1, <1>2, PointedFacts
<1>9. 1 \in 1 .. n /\ n = n + 1 - 1
  BY <1>2
<1>10. /\ q.infos[v.sg[1]].segID = p.infos[z].segID /\ v.beta[1] = w.beta[n] /\ v.sg[1] = 1
  <2>1. Mirrors(v, w, c, 1, n) /\ q.infos[v.sg[1]].segID = p.infos[z].segID
    BY <1>6, <1>9
  <2>2. v.sg[1] = z + 1 - z /\ v.beta[1] = w.beta[n]
    BY <2>1 DEF Mirrors, n
  <2> QED
    BY <1>8, <2>1, <2>2
<1>11. q.infos[v.sg[1]].segID = v.beta[1]
  BY <1>1, <1>10 DEF SegIDs
<1>12. ASSUME NEW h \in 1 .. (n - 1), v.sg[h] < v.sg[1] PROVE FALSE
  <2> DEFINE g == n + 1 - h
  <2>1. h \in 1 .. n
    BY <1>2
  <2>2. w.sg[g] \in 1 .. Len(p.infos) /\ Mirrors(v, w, c, h, g)
    BY <1>6, <2>1
  <2> HIDE DEF g
  <2>3. v.sg[h] = z + 1 - w.sg[g]
    BY <2>2 DEF Mirrors, n
  <2>4. w.sg[g] \in 1 .. z
    BY <1>2, <2>2
  <2> QED
    BY <1>8, <1>10, <1>12, <2>3, <2>4
<1>13. ASSUME NEW h \in 2 .. n, v.sg[h] > v.sg[1], v.sg[h - 1] # v.sg[h] PROVE q.infos[v.sg[h]].segID = v.beta[h]
  <2> DEFINE g == n + 1 - h
             i == h - 1
             k == g + 1
  <2>1. h \in 1 .. n /\ i \in 1 .. n /\ k = n + 1 - i /\ g \in 1 .. (n - 1)
    BY <1>2
  <2>2. /\ w.sg[g] \in 1 .. z /\ Mirrors(v, w, c, h, g) /\ q.infos[v.sg[h]].segID = p.infos[w.sg[g]].segID
    BY <1>2, <1>6, <2>1
  <2> HIDE DEF g, i, k
  <2>3. w.sg[k] \in 1 .. z /\ Mirrors(v, w, c, i, k)
    BY <1>2, <1>6, <2>1
  <2>4. v.sg[h] = z + 1 - w.sg[g] /\ v.sg[i] = z + 1 - w.sg[k] /\ v.beta[h] = w.beta[g]
    BY <2>2, <2>3 DEF Mirrors, n
  <2>5. v.sg[i] # v.sg[h] /\ v.sg[h] > 1
    BY <1>10, <1>13 DEF i
  <2>6. w.sg[g] < z /\ w.sg[k] # w.sg[g]
    BY <1>8, <2>2, <2>3, <2>4, <2>5
  <2>7. p.infos[w.sg[g]].segID = w.beta[g]
    BY <1>1, <2>1, <2>6 DEF SegIDs, k, n
  <2> QED
    BY <2>2, <2>4, <2>7
<1>14. SegIDs(q, v, 1, v.beta[1])
  BY <1>4, <1>11, <1>12, <1>13 DEF SegIDs
<1>15. q.currHF = 1 - 1
  BY <1>1, <1>2, <1>3
<1>16. At(q, v, 1, v.beta[1])
  BY <1>3, <1>4, <1>7, <1>9, <1>14, <1>15 DEF At
<1> QED
  BY <1>16 DEF q, v

\* The reversed path has no router alerts either.
LEMMA TurnQuiet ==
  ASSUME NEW p, IsPath(p), Pointed(p), Quiet(p)
  PROVE  Quiet(ReversePath(p))
<1> DEFINE n == Len(p.hops)
           q == ReversePath(p)
<1>1. n \in Nat /\ Len(q.hops) = n /\ \A h \in 1 .. n : q.hops[h] = p.hops[n + 1 - h]
  BY ReverseFacts, PointedFacts
<1> HIDE DEF q, n
<1>2. \A h \in 1 .. n : n + 1 - h \in 1 .. n
  BY <1>1
<1>3. Quiet(q)
  BY <1>1, <1>2 DEF Quiet, n
<1> QED
  BY <1>3 DEF q

---------------------------------------------------------------------------
(* Beacons.                                                                  *)

\* f holds the accumulators of the first n entries.
IsBeta(f, s, n) ==
  /\ f = [k \in 0 .. n |-> f[k]] /\ f[0] = {[seg |-> s.id]}
  /\ \A k \in 1 .. n : f[k] = SymDiff(f[k - 1], {s.entries[k].hop.mac})

\* The recursion of calculateBeta has a solution.
LEMMA BetaExists ==
  ASSUME NEW s, NEW n \in Nat
  PROVE  \E f : IsBeta(f, s, n)
<1> DEFINE base == {[seg |-> s.id]}
           mac(k) == s.entries[k].hop.mac
           P == {m \in Nat : \E f : IsBeta(f, s, m)}
<1> HIDE DEF base, mac
<1>1. 0 \in P
  <2> DEFINE f == [k \in 0 .. 0 |-> base]
  <2>1. f = [k \in 0 .. 0 |-> f[k]] /\ f[0] = base /\ 1 .. 0 = {}
    OBVIOUS
  <2> HIDE DEF f
  <2>2. IsBeta(f, s, 0)
    BY <2>1 DEF IsBeta, base
  <2> QED
    BY <2>2
<1>2. ASSUME NEW m \in Nat, m \in P PROVE m + 1 \in P
  <2>1. PICK f : IsBeta(f, s, m)
    BY <1>2
  <2> DEFINE g == [k \in 0 .. (m + 1) |-> IF k <= m THEN f[k] ELSE SymDiff(f[m], {mac(m + 1)})]
  <2>2. \A k \in 0 .. m : g[k] = f[k]
    BY <1>2
  <2>3. g[m + 1] = SymDiff(f[m], {mac(m + 1)}) /\ g = [k \in 0 .. (m + 1) |-> g[k]]
    BY <1>2
  <2> HIDE DEF g
  <2>4. f[0] = base /\ \A k \in 1 .. m : f[k] = SymDiff(f[k - 1], {mac(k)})
    BY <2>1 DEF IsBeta, mac, base
  <2>5. g[0] = base
    BY <1>2, <2>2, <2>4
  <2>6. ASSUME NEW k \in 1 .. (m + 1) PROVE g[k] = SymDiff(g[k - 1], {mac(k)})
    <3>1. k - 1 \in 0 .. m /\ (k \in 1 .. m \/ k = m + 1) /\ (k \in 1 .. m => k \in 0 .. m)
      BY <1>2
    <3>2. CASE k \in 1 .. m
      BY <2>2, <2>4, <3>1, <3>2
    <3>3. CASE k = m + 1
      <4>1. k - 1 = m /\ m \in 0 .. m
        BY <1>2, <3>3
      <4> QED
        BY <2>2, <2>3, <3>3, <4>1
    <3> QED
      BY <3>1, <3>2, <3>3
  <2>7. IsBeta(g, s, m + 1)
    BY <2>3, <2>5, <2>6 DEF IsBeta, base, mac
  <2> QED
    BY <2>7
<1> HIDE DEF P
<1>3. Nat \subseteq P
  BY <1>1, <1>2, SetInduction
<1> QED
  BY <1>3 DEF P

\* Accumulators depend on the entries before them only.
LEMMA BetaUnique ==
  ASSUME NEW s, NEW t, NEW n \in Nat, NEW m \in Nat, NEW f, IsBeta(f, s, n), NEW g, IsBeta(g, t, m),
         NEW i \in Nat, i <= n, i <= m, s.id = t.id, \A k \in 1 .. i : s.entries[k] = t.entries[k]
  PROVE  f[i] = g[i]
<1> DEFINE P == {k \in 0 .. i : f[k] = g[k]}
<1>1. 0 \in P
  <2>1. f[0] = {[seg |-> s.id]} /\ g[0] = {[seg |-> t.id]}
    BY DEF IsBeta
  <2>2. 0 \in 0 .. i
    OBVIOUS
  <2> QED
    BY <2>1, <2>2
<1>2. ASSUME NEW k \in 1 .. i, k - 1 \in P PROVE k \in P
  <2>1. k \in 1 .. n /\ k \in 1 .. m /\ k \in 0 .. i
    OBVIOUS
  <2>2. f[k] = SymDiff(f[k - 1], {s.entries[k].hop.mac}) /\ g[k] = SymDiff(g[k - 1], {t.entries[k].hop.mac})
    BY <2>1 DEF IsBeta
  <2>3. f[k - 1] = g[k - 1]
    BY <1>2
  <2> QED
    BY <2>1, <2>2, <2>3
<1> HIDE DEF P
<1>3. \A k \in 0 .. i : k \in P
  BY <1>1, <1>2, LoopInduction
<1>4. i \in P
  BY <1>3
<1> QED
  BY <1>4 DEF P

\* BetaAfter is the last value of that solution.
LEMMA BetaIs ==
  ASSUME NEW s, NEW n \in Nat, NEW f, IsBeta(f, s, n)
  PROVE  BetaAfter(s, n) = f[n]
<1> DEFINE F(g) == [k \in 0 .. n |-> IF k = 0 THEN {[seg |-> s.id]} ELSE SymDiff(g[k - 1], {s.entries[k].hop.mac})]
           b == CHOOSE g : g = F(g)
<1>1. BetaAfter(s, n) = b[n]
  BY DEF BetaAfter
<1>2. f = F(f)
  <2>1. /\ f = [k \in 0 .. n |-> f[k]] /\ f[0] = {[seg |-> s.id]}
        /\ \A k \in 1 .. n : f[k] = SymDiff(f[k - 1], {s.entries[k].hop.mac})
    BY DEF IsBeta
  <2>2. \A k \in 0 .. n : f[k] = F(f)[k]
    <3> TAKE k \in 0 .. n
    <3>1. CASE k = 0
      BY <2>1, <3>1
    <3>2. CASE k # 0
      <4>1. k \in 1 .. n
        BY <3>2
      <4> QED
        BY <2>1, <3>2, <4>1
    <3> QED
      BY <3>1, <3>2
  <2> QED
    BY <2>1, <2>2
<1>3. b = F(b)
  BY <1>2
<1> HIDE DEF b
<1>4. IsBeta(b, s, n)
  <2>1. DOMAIN b = 0 .. n /\ b = [k \in 0 .. n |-> b[k]]
    BY <1>3
  <2>2. b[0] = {[seg |-> s.id]}
    BY <1>3
  <2>3. ASSUME NEW k \in 1 .. n PROVE b[k] = SymDiff(b[k - 1], {s.entries[k].hop.mac})
    <3>1. k \in 0 .. n /\ k # 0
      OBVIOUS
    <3>2. b[k] = F(b)[k]
      BY <1>3
    <3> QED
      BY <3>1, <3>2
  <2> QED
    BY <2>1, <2>2, <2>3 DEF IsBeta
<1>5. b[n] = f[n]
  BY <1>4, BetaUnique
<1> QED
  BY <1>1, <1>5

\* The accumulator absorbs one MAC after the other.
LEMMA BetaSteps ==
  ASSUME NEW s, NEW n \in Nat
  PROVE  BetaAfter(s, n + 1) = SymDiff(BetaAfter(s, n), {s.entries[n + 1].hop.mac})
<1>1. PICK f : IsBeta(f, s, n + 1)
  BY BetaExists
<1>2. PICK g : IsBeta(g, s, n)
  BY BetaExists
<1>3. f[n] = g[n]
  BY <1>1, <1>2, BetaUnique
<1>4. BetaAfter(s, n + 1) = f[n + 1] /\ BetaAfter(s, n) = g[n]
  BY <1>1, <1>2, BetaIs
<1>5. f[n + 1] = SymDiff(f[n], {s.entries[n + 1].hop.mac})
  <2> DEFINE k == n + 1
  <2>1. k \in 1 .. (n + 1) /\ k - 1 = n
    OBVIOUS
  <2> HIDE DEF k
  <2>2. f[k] = SymDiff(f[k - 1], {s.entries[k].hop.mac})
    BY <1>1, <2>1 DEF IsBeta
  <2> QED
    BY <2>1, <2>2 DEF k
<1> QED
  BY <1>3, <1>4, <1>5

\* It depends on the entries it absorbed only.
LEMMA BetaSame ==
  ASSUME NEW s, NEW t, NEW n \in Nat, s.id = t.id, \A k \in 1 .. n : s.entries[k] = t.entries[k]
  PROVE  BetaAfter(s, n) = BetaAfter(t, n)
<1>1. PICK f : IsBeta(f, s, n)
  BY BetaExists
<1>2. PICK g : IsBeta(g, t, n)
  BY BetaExists
<1>3. BetaAfter(s, n) = f[n] /\ BetaAfter(t, n) = g[n]
  BY <1>1, <1>2, BetaIs
<1>4. \A k \in 1 .. n : s.entries[k] = t.entries[k]
  OBVIOUS
<1>5. n <= n /\ n \in Nat /\ s.id = t.id
  OBVIOUS
<1>6. f[n] = g[n]
  BY ONLY <1>1, <1>2, <1>4, <1>5, BetaUnique
<1> QED
  BY <1>3, <1>6

\* What Append returns, element by element.
LEMMA SeqAppend ==
  ASSUME NEW s, IsSeq(s), NEW x
  PROVE  /\ IsSeq(Append(s, x)) /\ Len(Append(s, x)) = Len(s) + 1
         /\ Append(s, x)[Len(s) + 1] = x
         /\ \A j \in 1 .. Len(s) : Append(s, x)[j] = s[j]
<1> DEFINE T == {s[i] : i \in 1 .. Len(s)} \cup {x}
           t == Append(s, x)
<1>1. s \in Seq(T)
  <2>1. Len(s) \in Nat /\ s = [i \in 1 .. Len(s) |-> s[i]]
    BY DEF IsSeq
  <2>2. s \in [1 .. Len(s) -> T]
    BY <2>1
  <2> HIDE DEF T
  <2> QED
    BY <2>1, <2>2
<1>2. x \in T
  OBVIOUS
<1> HIDE DEF T
<1>3. t \in Seq(T) /\ Len(t) = Len(s) + 1 /\ t[Len(s) + 1] = x /\ \A j \in 1 .. Len(s) : t[j] = s[j]
  BY <1>1, <1>2
<1> HIDE DEF t
<1>4. IsSeq(t)
  BY <1>3, SeqTyped
<1> QED
  BY <1>3, <1>4 DEF t

IsPseg(s) == s = [id |-> s.id, ts |-> s.ts, entries |-> s.entries] /\ IsSeq(s.entries)

\* Entry k of beacon s was made by ia, for a beacon that came through in and left through eg.
Entry(s, k, ia, in, eg) ==
  /\ s.entries[k].local = ia
  /\ s.entries[k].hop = createHopF(ia, in, eg, s.ts, BetaAfter(s, k - 1))
  /\ s.entries[k].peers = {createPeerEntry(i, eg, s.ts, BetaAfter(s, k)) : i \in PeersOf(ia)}

\* An entry and its MAC stay valid when the beacon is extended.
LEMMA EntryKept ==
  ASSUME NEW s, NEW t, NEW n \in Nat, s.id = t.id, s.ts = t.ts, \A k \in 1 .. n : s.entries[k] = t.entries[k],
         NEW k \in 1 .. n, NEW ia, NEW in, NEW eg, Entry(s, k, ia, in, eg)
  PROVE  Entry(t, k, ia, in, eg)
<1>1. BetaAfter(s, k) = BetaAfter(t, k)
  <2>1. k \in Nat /\ \A j \in 1 .. k : s.entries[j] = t.entries[j]
    OBVIOUS
  <2> QED
    BY <2>1, BetaSame
<1>2. BetaAfter(s, k - 1) = BetaAfter(t, k - 1)
  <2> DEFINE m == k - 1
  <2>1. m \in Nat /\ \A j \in 1 .. m : s.entries[j] = t.entries[j]
    OBVIOUS
  <2> HIDE DEF m
  <2>2. BetaAfter(s, m) = BetaAfter(t, m)
    BY <2>1, BetaSame
  <2> QED
    BY <2>2 DEF m
<1>3. s.entries[k] = t.entries[k]
  OBVIOUS
<1> QED
  BY <1>1, <1>2, <1>3 DEF Entry

\* Extend adds one valid entry and keeps the others.
LEMMA ExtendFacts ==
  ASSUME NEW s, IsPseg(s), NEW ia, NEW in, NEW eg
  PROVE  LET t == Extend(s, ia, in, eg)
             n == Len(s.entries)
         IN  /\ IsPseg(t) /\ t.id = s.id /\ t.ts = s.ts /\ Len(t.entries) = n + 1
             /\ Entry(t, n + 1, ia, in, eg)
             /\ \A k \in 1 .. n : \A a, b, c : Entry(s, k, a, b, c) => Entry(t, k, a, b, c)
<1> DEFINE t == Extend(s, ia, in, eg)
           n == Len(s.entries)
           beta == BetaAfter(s, n)
           hop == createHopF(ia, in, eg, s.ts, beta)
           x == [local |-> ia, hop |-> hop,
                 peers |-> {createPeerEntry(i, eg, s.ts, SymDiff(beta, {hop.mac})) : i \in PeersOf(ia)}]
           es == Append(s.entries, x)
<1>1. t = [s EXCEPT !.entries = es]
  BY DEF Extend, extractBeta
<1>2. IsSeq(s.entries) /\ n \in Nat
  BY SeqIs DEF IsPseg
<1> HIDE DEF t
<1>3. IsSeq(es) /\ Len(es) = n + 1 /\ es[n + 1] = x /\ \A j \in 1 .. n : es[j] = s.entries[j]
  BY <1>2, SeqAppend
<1> HIDE DEF es
<1>4. t = [id |-> s.id, ts |-> s.ts, entries |-> es]
  BY <1>1 DEF IsPseg
<1>5. t.id = s.id /\ t.ts = s.ts /\ t.entries = es /\ IsPseg(t)
  BY <1>3, <1>4 DEF IsPseg
<1>6. \A k \in 1 .. n : s.entries[k] = t.entries[k]
  BY <1>3, <1>5
<1>7. BetaAfter(t, n) = beta
  BY <1>2, <1>5, <1>6, BetaSame
<1>8. t.entries[n + 1] = x
  BY <1>3, <1>5
<1>9. BetaAfter(t, n + 1) = SymDiff(beta, {hop.mac})
  <2>1. BetaAfter(t, n + 1) = SymDiff(BetaAfter(t, n), {t.entries[n + 1].hop.mac})
    BY <1>2, BetaSteps
  <2>2. t.entries[n + 1].hop = hop
    BY <1>8
  <2> QED
    BY <1>7, <2>1, <2>2
<1>10. Entry(t, n + 1, ia, in, eg)
  <2>1. (n + 1) - 1 = n
    BY <1>2
  <2>2. x.local = ia /\ x.hop = hop /\ x.peers = {createPeerEntry(i, eg, s.ts, SymDiff(beta, {hop.mac})) : i \in PeersOf(ia)}
    OBVIOUS
  <2> HIDE DEF x, hop, beta
  <2>3. hop = createHopF(ia, in, eg, t.ts, BetaAfter(t, (n + 1) - 1))
    BY <1>5, <1>7, <2>1 DEF hop
  <2> QED
    BY <1>5, <1>8, <1>9, <2>2, <2>3 DEF Entry
<1>11. \A k \in 1 .. n : \A a, b, c : Entry(s, k, a, b, c) => Entry(t, k, a, b, c)
  BY <1>2, <1>5, <1>6, EntryKept
<1> QED
  BY <1>3, <1>5, <1>10, <1>11 DEF t

\* Where the beacon is for the j-th time extended, and between which interfaces.
Site(exits, j) == IF j = 1 THEN exits[1][1] ELSE Remote[exits[j - 1]][1]
Came(exits, j) == IF j = 1 THEN 0 ELSE Remote[exits[j - 1]][2]
Leaves(exits, j) == IF j <= Len(exits) THEN exits[j][2] ELSE 0

Sends(s, exits, j) == Extend(s, Site(exits, j), Came(exits, j), Leaves(exits, j))
Origin(id) == [id |-> id, ts |-> 0, entries |-> <<>>]

\* f[k] is the beacon after k links.
IsSent(f, id, exits, n) ==
  /\ f = [k \in 0 .. n |-> f[k]] /\ f[0] = Sends(Origin(id), exits, 1)
  /\ \A k \in 1 .. n : f[k] = Sends(f[k - 1], exits, k + 1)

\* The recursion over the ASes of a beacon has a solution.
LEMMA SentExists ==
  ASSUME NEW id, NEW exits, NEW n \in Nat
  PROVE  \E f : IsSent(f, id, exits, n)
<1> DEFINE P == {m \in Nat : \E f : IsSent(f, id, exits, m)}
<1>1. 0 \in P
  <2> DEFINE f == [k \in 0 .. 0 |-> Sends(Origin(id), exits, 1)]
  <2>1. f = [k \in 0 .. 0 |-> f[k]] /\ f[0] = Sends(Origin(id), exits, 1) /\ 1 .. 0 = {}
    OBVIOUS
  <2> HIDE DEF f
  <2>2. IsSent(f, id, exits, 0)
    BY <2>1 DEF IsSent
  <2> QED
    BY <2>2
<1>2. ASSUME NEW m \in Nat, m \in P PROVE m + 1 \in P
  <2>1. PICK f : IsSent(f, id, exits, m)
    BY <1>2
  <2> DEFINE g == [k \in 0 .. (m + 1) |-> IF k <= m THEN f[k] ELSE Sends(f[m], exits, m + 2)]
  <2>2. \A k \in 0 .. m : g[k] = f[k]
    BY <1>2
  <2>3. g[m + 1] = Sends(f[m], exits, m + 2) /\ g = [k \in 0 .. (m + 1) |-> g[k]]
    BY <1>2
  <2> HIDE DEF g
  <2>4. f[0] = Sends(Origin(id), exits, 1) /\ \A k \in 1 .. m : f[k] = Sends(f[k - 1], exits, k + 1)
    BY <2>1 DEF IsSent
  <2>5. g[0] = Sends(Origin(id), exits, 1)
    BY <1>2, <2>2, <2>4
  <2>6. ASSUME NEW k \in 1 .. (m + 1) PROVE g[k] = Sends(g[k - 1], exits, k + 1)
    <3>1. k - 1 \in 0 .. m /\ (k \in 1 .. m \/ k = m + 1) /\ (k \in 1 .. m => k \in 0 .. m)
      BY <1>2
    <3>2. CASE k \in 1 .. m
      BY <2>2, <2>4, <3>1, <3>2
    <3>3. CASE k = m + 1
      <4>1. k - 1 = m /\ m \in 0 .. m /\ k + 1 = m + 2
        BY <1>2, <3>3
      <4> QED
        BY <2>2, <2>3, <3>3, <4>1
    <3> QED
      BY <3>1, <3>2, <3>3
  <2>7. IsSent(g, id, exits, m + 1)
    BY <2>3, <2>5, <2>6 DEF IsSent
  <2> QED
    BY <2>7
<1> HIDE DEF P
<1>3. Nat \subseteq P
  BY <1>1, <1>2, SetInduction
<1> QED
  BY <1>3 DEF P

\* A beacon is the last value of that solution.
LEMMA BeaconIs ==
  ASSUME NEW id, NEW exits, Len(exits) \in Nat, Len(exits) > 0
  PROVE  \E f : IsSent(f, id, exits, Len(exits)) /\ Beacon(id, exits) = f[Len(exits)]
<1> DEFINE n == Len(exits)
           F(g) == [k \in 0 .. n |->
                     IF k = 0 THEN Extend([id |-> id, ts |-> 0, entries |-> <<>>], exits[1][1], 0, exits[1][2])
                     ELSE Extend(g[k - 1], Remote[exits[k]][1], Remote[exits[k]][2],
                                 IF k < n THEN exits[k + 1][2] ELSE 0)]
           b == CHOOSE g : g = F(g)
<1>1. Beacon(id, exits) = b[n]
  BY DEF Beacon
<1>2. PICK f : IsSent(f, id, exits, n)
  BY SentExists
<1>3. Sends(Origin(id), exits, 1) = Extend([id |-> id, ts |-> 0, entries |-> <<>>], exits[1][1], 0, exits[1][2])
  BY DEF Sends, Site, Came, Leaves, Origin
<1>4. ASSUME NEW s, NEW k \in 1 .. n
      PROVE  Sends(s, exits, k + 1) = Extend(s, Remote[exits[k]][1], Remote[exits[k]][2],
                                             IF k < n THEN exits[k + 1][2] ELSE 0)
  <2> DEFINE j == k + 1
  <2>1. j # 1 /\ j - 1 = k /\ (j <= n <=> k < n)
    OBVIOUS
  <2> HIDE DEF j
  <2>2. Site(exits, j) = Remote[exits[k]][1] /\ Came(exits, j) = Remote[exits[k]][2]
    BY <2>1 DEF Site, Came
  <2>3. Leaves(exits, j) = IF k < n THEN exits[j][2] ELSE 0
    BY <2>1 DEF Leaves
  <2>4. Sends(s, exits, j) = Extend(s, Remote[exits[k]][1], Remote[exits[k]][2], IF k < n THEN exits[j][2] ELSE 0)
    BY <2>2, <2>3 DEF Sends
  <2> QED
    BY <2>4 DEF j
<1> HIDE DEF n
<1>5. n \in Nat
  BY DEF n
<1>6. f = F(f)
  <2>1. /\ f = [k \in 0 .. n |-> f[k]] /\ f[0] = Sends(Origin(id), exits, 1)
        /\ \A k \in 1 .. n : f[k] = Sends(f[k - 1], exits, k + 1)
    BY <1>2 DEF IsSent
  <2>2. \A k \in 0 .. n : f[k] = F(f)[k]
    <3> TAKE k \in 0 .. n
    <3>1. CASE k = 0
      BY <1>3, <2>1, <3>1
    <3>2. CASE k # 0
      <4>1. k \in 1 .. n
        BY <3>2
      <4>2. f[k] = Sends(f[k - 1], exits, k + 1)
        BY <2>1, <4>1
      <4> QED
        BY <1>4, <3>2, <4>1, <4>2
    <3> QED
      BY <3>1, <3>2
  <2> QED
    BY <2>1, <2>2
<1>7. b = F(b)
  BY <1>6
<1> HIDE DEF b
<1>8. IsSent(b, id, exits, n)
  <2>1. DOMAIN b = 0 .. n /\ b = [k \in 0 .. n |-> b[k]]
    BY <1>7
  <2>2. b[0] = Sends(Origin(id), exits, 1)
    <3>1. b[0] = F(b)[0] /\ 0 \in 0 .. n
      BY <1>5, <1>7
    <3> QED
      BY <1>3, <3>1
  <2>3. ASSUME NEW k \in 1 .. n PROVE b[k] = Sends(b[k - 1], exits, k + 1)
    <3>1. k \in 0 .. n /\ k # 0
      BY <1>5
    <3>2. b[k] = F(b)[k]
      BY <1>7
    <3> QED
      BY <1>4, <3>1, <3>2
  <2> QED
    BY <2>1, <2>2, <2>3 DEF IsSent
<1> QED
  BY <1>1, <1>8 DEF n

\* What the combinator may rely on: every entry is signed over the accumulator
\* of those before it, and links of one type join the entries.
IsSegment(s, type) ==
  /\ IsPseg(s) /\ Len(s.entries) >= 2
  /\ \A k \in 1 .. Len(s.entries) : Entry(s, k, s.entries[k].local, s.entries[k].hop.in, s.entries[k].hop.eg)
  /\ s.entries[1].hop.in = 0 /\ s.entries[Len(s.entries)].hop.eg = 0
  /\ \A k \in 1 .. (Len(s.entries) - 1) :
        LET i == <<s.entries[k].local, s.entries[k].hop.eg>>
        IN  i \in Interfaces /\ LinkType[i] = type /\ Remote[i] = <<s.entries[k + 1].local, s.entries[k + 1].hop.in>>

\* AS and interfaces of an entry.
LEMMA EntryFields ==
  ASSUME NEW s, NEW k, NEW ia, NEW in, NEW eg, Entry(s, k, ia, in, eg)
  PROVE  s.entries[k].local = ia /\ s.entries[k].hop.in = in /\ s.entries[k].hop.eg = eg
BY DEF Entry, createHopF, HopField

\* Every entry of a beacon on its way names the AS it was made in and the two interfaces
\* used there.
LEMMA SentEntries ==
  ASSUME NEW id, NEW exits, NEW n \in Nat, NEW f, IsSent(f, id, exits, n)
  PROVE  /\ IsPseg(f[n]) /\ Len(f[n].entries) = n + 1
         /\ \A j \in 1 .. (n + 1) : Entry(f[n], j, Site(exits, j), Came(exits, j), Leaves(exits, j))
<1> DEFINE Good(k) == /\ IsPseg(f[k]) /\ Len(f[k].entries) = k + 1
                      /\ \A j \in 1 .. (k + 1) : Entry(f[k], j, Site(exits, j), Came(exits, j), Leaves(exits, j))
           P == {k \in 0 .. n : Good(k)}
<1>1. /\ f[0] = Sends(Origin(id), exits, 1)
      /\ \A k \in 1 .. n : f[k] = Sends(f[k - 1], exits, k + 1)
  BY DEF IsSent
<1>2. 0 \in P
  <2> DEFINE o == Origin(id)
  <2>1. IsPseg(o) /\ Len(o.entries) = 0
    <3>1. o.entries = <<>> /\ o.id = id /\ o.ts = 0
      BY DEF Origin
    <3>2. IsSeq(<<>>) /\ Len(<<>>) = 0
      BY DEF IsSeq
    <3> QED
      BY <3>1, <3>2 DEF IsPseg, Origin
  <2>2. f[0] = Extend(o, Site(exits, 1), Came(exits, 1), Leaves(exits, 1))
    BY <1>1 DEF Sends
  <2> HIDE DEF o
  <2> DEFINE m == Len(o.entries)
  <2>7. /\ IsPseg(f[0]) /\ Len(f[0].entries) = m + 1
        /\ Entry(f[0], m + 1, Site(exits, 1), Came(exits, 1), Leaves(exits, 1))
    <3> DEFINE a == Site(exits, 1)
               b == Came(exits, 1)
               c == Leaves(exits, 1)
    <3> HIDE DEF a, b, c
    <3>2. IsPseg(o)
      BY <2>1
    <3>1. LET t == Extend(o, a, b, c) IN IsPseg(t) /\ Len(t.entries) = m + 1 /\ Entry(t, m + 1, a, b, c)
      BY ONLY <3>2, ExtendFacts
    <3> QED
      BY <2>2, <3>1 DEF a, b, c
  <2>8. m = 0
    BY <2>1
  <2> HIDE DEF m
  <2>3. /\ IsPseg(f[0]) /\ Len(f[0].entries) = 0 + 1
        /\ Entry(f[0], 0 + 1, Site(exits, 1), Came(exits, 1), Leaves(exits, 1))
    BY <2>7, <2>8
  <2>4. \A j \in 1 .. (0 + 1) : j = 1
    OBVIOUS
  <2>5. 0 + 1 = 1 /\ 0 \in 0 .. n
    OBVIOUS
  <2>6. \A j \in 1 .. (0 + 1) : Entry(f[0], j, Site(exits, j), Came(exits, j), Leaves(exits, j))
    BY <2>3, <2>4, <2>5
  <2> QED
    BY <2>3, <2>5, <2>6
<1>3. ASSUME NEW k \in 1 .. n, k - 1 \in P PROVE k \in P
  <2> DEFINE i == k - 1
             j == k + 1
             s == f[i]
  <2>1. k \in Nat /\ i \in Nat /\ i + 1 = k /\ k \in 0 .. n
    OBVIOUS
  <2>2. Good(i)
    BY <1>3
  <2>3. f[k] = Extend(s, Site(exits, j), Came(exits, j), Leaves(exits, j))
    BY <1>1 DEF Sends
  <2>4. IsPseg(s) /\ Len(s.entries) = k
    BY <2>1, <2>2
  <2> HIDE DEF i
  <2>5. \A h \in 1 .. k : Entry(s, h, Site(exits, h), Came(exits, h), Leaves(exits, h))
    BY <2>1, <2>2
  <2> HIDE DEF s, j
  <2>6. /\ IsPseg(f[k]) /\ Len(f[k].entries) = k + 1
        /\ Entry(f[k], k + 1, Site(exits, j), Came(exits, j), Leaves(exits, j))
        /\ \A h \in 1 .. k : \A a, b, c : Entry(s, h, a, b, c) => Entry(f[k], h, a, b, c)
    BY <2>3, <2>4, ExtendFacts
  <2>7. Entry(f[k], j, Site(exits, j), Came(exits, j), Leaves(exits, j))
    BY <2>6 DEF j
  <2>8. \A h \in 1 .. (k + 1) : h \in 1 .. k \/ h = j
    BY <2>1 DEF j
  <2>9. \A h \in 1 .. (k + 1) : Entry(f[k], h, Site(exits, h), Came(exits, h), Leaves(exits, h))
    BY <2>5, <2>6, <2>7, <2>8
  <2> QED
    BY <2>1, <2>6, <2>9
<1> HIDE DEF P
<1>4. \A k \in 0 .. n : k \in P
  BY <1>2, <1>3, LoopInduction
<1>5. n \in P
  BY <1>4
<1> QED
  BY <1>5 DEF P

\* Beacons along a trail make segments.
LEMMA BeaconSegment ==
  ASSUME NEW id, NEW exits, NEW type, IsTrail(exits, type)
  PROVE  IsSegment(Beacon(id, exits), type)
<1> DEFINE n == Len(exits)
           s == Beacon(id, exits)
<1>1. /\ exits \in Seq(Interfaces) /\ exits # <<>>
      /\ \A k \in 1 .. n : LinkType[exits[k]] = type
      /\ \A k \in 1 .. (n - 1) : exits[k + 1][1] = Remote[exits[k]][1]
  BY DEF IsTrail
<1>2. n \in Nat /\ n > 0 /\ \A k \in 1 .. n : exits[k] \in Interfaces
  BY <1>1
<1>3. PICK f : IsSent(f, id, exits, n) /\ s = f[n]
  BY <1>2, BeaconIs
<1> HIDE DEF s, n
<1>4. /\ IsPseg(s) /\ Len(s.entries) = n + 1
      /\ \A j \in 1 .. (n + 1) : Entry(s, j, Site(exits, j), Came(exits, j), Leaves(exits, j))
  <2>1. /\ IsPseg(f[n]) /\ Len(f[n].entries) = n + 1
        /\ \A j \in 1 .. (n + 1) : Entry(f[n], j, Site(exits, j), Came(exits, j), Leaves(exits, j))
    BY <1>2, <1>3, SentEntries
  <2> QED
    BY <1>3, <2>1
<1>5. \A j \in 1 .. (n + 1) : /\ s.entries[j].local = Site(exits, j) /\ s.entries[j].hop.in = Came(exits, j)
                              /\ s.entries[j].hop.eg = Leaves(exits, j)
  BY <1>4, EntryFields
<1>6. \A k \in 1 .. (n + 1) : Entry(s, k, s.entries[k].local, s.entries[k].hop.in, s.entries[k].hop.eg)
  BY <1>4, <1>5
<1>7. s.entries[1].hop.in = 0
  <2>1. 1 \in 1 .. (n + 1)
    BY <1>2
  <2> QED
    BY <1>5, <2>1 DEF Came
<1>8. s.entries[n + 1].hop.eg = 0
  <2>1. n + 1 \in 1 .. (n + 1) /\ ~(n + 1 <= n)
    BY <1>2
  <2> QED
    BY <1>5, <2>1 DEF Leaves, n
<1>9. ASSUME NEW k \in 1 .. n
      PROVE  LET i == <<s.entries[k].local, s.entries[k].hop.eg>>
             IN  i \in Interfaces /\ LinkType[i] = type /\ Remote[i] = <<s.entries[k + 1].local, s.entries[k + 1].hop.in>>
  <2> DEFINE i == exits[k]
             j == k + 1
  <2>1. i \in Interfaces /\ i = <<i[1], i[2]>> /\ LinkType[i] = type /\ Remote[i] \in Interfaces
    BY <1>1, <1>2, InterfaceFacts DEF n
  <2>2. Remote[i] = <<Remote[i][1], Remote[i][2]>>
    BY <2>1, InterfaceFacts
  <2>3. k \in 1 .. (n + 1) /\ j \in 1 .. (n + 1) /\ j # 1 /\ j - 1 = k /\ k <= n
    BY <1>2
  <2>4. Site(exits, k) = i[1]
    <3>1. CASE k = 1
      BY <3>1 DEF Site
    <3>2. CASE k # 1
      <4> DEFINE m == k - 1
      <4>1. m \in 1 .. (n - 1) /\ m + 1 = k
        BY <1>2, <3>2
      <4> HIDE DEF m
      <4>2. exits[m + 1][1] = Remote[exits[m]][1]
        BY <1>1, <4>1 DEF n
      <4>3. exits[k][1] = Remote[exits[k - 1]][1]
        BY <4>1, <4>2 DEF m
      <4> QED
        BY <3>2, <4>3 DEF Site
    <3> QED
      BY <3>1, <3>2
  <2>5. Leaves(exits, k) = i[2]
    BY <2>3 DEF Leaves, n
  <2> HIDE DEF j
  <2>6. Site(exits, j) = Remote[i][1] /\ Came(exits, j) = Remote[i][2]
    BY <2>3 DEF Site, Came
  <2>7. <<s.entries[k].local, s.entries[k].hop.eg>> = i
    BY <1>5, <2>1, <2>3, <2>4, <2>5
  <2>8. <<s.entries[j].local, s.entries[j].hop.in>> = Remote[i]
    BY <1>5, <2>2, <2>3, <2>6
  <2> QED
    BY <2>1, <2>7, <2>8 DEF j
<1>10. (n + 1) - 1 = n /\ n + 1 >= 2
  BY <1>2
<1>11. IsSegment(s, type)
  BY <1>4, <1>6, <1>7, <1>8, <1>9, <1>10 DEF IsSegment
<1> QED
  BY <1>11 DEF s

---------------------------------------------------------------------------
(* From segments to walks.                                                   *)

\* One element of the list of interfaces of a hop.
Maybe(b, x) == IF b THEN <<x>> ELSE <<>>

\* The interfaces of n hops: the first is not entered, the last may not be left.
Zig(a, b, n, m) == [h \in 1 .. n |-> Maybe(h > 1, a[h]) \o Maybe(h <= m, b[h])]

ZigIn(S, a, b, n, m) ==
  n \in Nat /\ n >= 1 /\ m \in {n - 1, n} /\ (\A h \in 2 .. n : a[h] \in S) /\ \A h \in 1 .. m : b[h] \in S

\* Flattening pairs of interfaces of consecutive hops puts ingress and egress in turn.
LEMMA Zigzag ==
  ASSUME NEW S, NEW n, NEW m, NEW a, NEW b, ZigIn(S, a, b, n, m), NEW seqs, seqs = Zig(a, b, n, m)
  PROVE  /\ FlattenSeq(seqs) \in Seq(S) /\ Len(FlattenSeq(seqs)) = (n - 1) + m
         /\ \A h \in 2 .. n : FlattenSeq(seqs)[2 * h - 2] = a[h]
         /\ \A h \in 1 .. m : FlattenSeq(seqs)[2 * h - 1] = b[h]
<1> SUFFICES ASSUME n \in Nat, n >= 1, m \in {n - 1, n}, \A h \in 2 .. n : a[h] \in S, \A h \in 1 .. m : b[h] \in S
             PROVE  /\ FlattenSeq(seqs) \in Seq(S) /\ Len(FlattenSeq(seqs)) = (n - 1) + m
                    /\ \A h \in 2 .. n : FlattenSeq(seqs)[2 * h - 2] = a[h]
                    /\ \A h \in 1 .. m : FlattenSeq(seqs)[2 * h - 1] = b[h]
  BY DEF ZigIn
<1> USE DEF Maybe
<1>1. m \in Nat /\ n - 1 <= m /\ m <= n
  OBVIOUS
<1>2. ASSUME NEW h \in 1 .. n
      PROVE  /\ seqs[h] \in Seq(S) /\ Len(seqs[h]) = (IF h > 1 THEN 1 ELSE 0) + (IF h <= m THEN 1 ELSE 0)
             /\ h > 1 => seqs[h][1] = a[h]
             /\ h <= m => seqs[h][Len(seqs[h])] = b[h]
  <2>1. seqs[h] = Maybe(h > 1, a[h]) \o Maybe(h <= m, b[h])
    BY DEF Zig
  <2>2. h > 1 => a[h] \in S
    BY <1>1
  <2>3. h <= m => b[h] \in S
    BY <1>1
  <2> DEFINE x == a[h]
             y == b[h]
             t == seqs[h]
  <2>4. t = (IF h > 1 THEN <<x>> ELSE <<>>) \o (IF h <= m THEN <<y>> ELSE <<>>)
    BY <2>1
  <2>5. (h > 1 => x \in S) /\ (h <= m => y \in S)
    BY <2>2, <2>3
  <2> HIDE DEF x, y, t
  <2>6. CASE h > 1 /\ h <= m
    <3>1. t = <<x>> \o <<y>> /\ x \in S /\ y \in S
      BY <2>4, <2>5, <2>6
    <3>2. <<x>> \in Seq(S) /\ <<y>> \in Seq(S) /\ Len(<<x>>) = 1 /\ Len(<<y>>) = 1 /\ <<x>>[1] = x /\ <<y>>[1] = y
      BY <3>1
    <3>3. t \in Seq(S) /\ Len(t) = 2 /\ t[1] = x /\ t[2] = y
      BY <3>1, <3>2
    <3> QED
      BY <2>6, <3>3 DEF t, x, y
  <2>7. CASE h > 1 /\ ~(h <= m)
    <3>1. t = <<x>> \o <<>> /\ x \in S
      BY <2>4, <2>5, <2>7
    <3>2. t = <<x>>
      BY <3>1
    <3>3. t \in Seq(S) /\ Len(t) = 1 /\ t[1] = x
      BY <3>1, <3>2
    <3> QED
      BY <2>7, <3>3 DEF t, x, y
  <2>8. CASE ~(h > 1) /\ h <= m
    <3>1. t = <<>> \o <<y>> /\ y \in S
      BY <2>4, <2>5, <2>8
    <3>2. t = <<y>>
      BY <3>1
    <3>3. t \in Seq(S) /\ Len(t) = 1 /\ t[1] = y
      BY <3>1, <3>2
    <3> QED
      BY <2>8, <3>3 DEF t, x, y
  <2>9. CASE ~(h > 1) /\ ~(h <= m)
    <3>1. t = <<>> \o <<>>
      BY <2>4, <2>9
    <3>2. t = <<>>
      BY <3>1
    <3>3. t \in Seq(S) /\ Len(t) = 0
      BY <3>2
    <3> QED
      BY <2>9, <3>3 DEF t
  <2> QED
    BY <2>6, <2>7, <2>8, <2>9
<1>3. seqs \in Seq(Seq(S)) /\ Len(seqs) = n
  <2>1. seqs \in [1 .. n -> Seq(S)]
    BY <1>2 DEF Zig
  <2> QED
    BY <2>1
<1>4. PICK f : IsFlat(f, seqs, S)
  BY <1>3, FlatExists
<1>5. FlattenSeq(seqs) = f[n] /\ FlattenSeq(seqs) \in Seq(S)
  BY <1>3, <1>4, FlattenIs
<1>6. f \in [0 .. n -> Seq(S)] /\ f[0] = <<>> /\ \A k \in 1 .. n : f[k] = f[k - 1] \o seqs[k]
  BY <1>3, <1>4 DEF IsFlat, Cat
<1> DEFINE len(k) == IF k = 0 THEN 0 ELSE IF k <= m THEN 2 * k - 1 ELSE 2 * k - 2
           Good(k) == /\ Len(f[k]) = len(k)
                      /\ \A h \in 2 .. k : f[k][2 * h - 2] = a[h]
                      /\ \A h \in 1 .. k : h <= m => f[k][2 * h - 1] = b[h]
           P == {k \in 0 .. n : Good(k)}
<1>7. 0 \in P
  <2>1. Len(f[0]) = 0 /\ 2 .. 0 = {} /\ 1 .. 0 = {} /\ 0 \in 0 .. n
    BY <1>6
  <2> QED
    BY <2>1
<1>8. ASSUME NEW k \in 1 .. n, k - 1 \in P PROVE k \in P
  <2> DEFINE j == k - 1
             s == f[j]
             t == seqs[k]
             u == f[k]
             l == Len(s)
  <2>1. j \in 0 .. n /\ k \in 0 .. n /\ j <= m /\ k <= n /\ j \in Nat /\ (j = 0 <=> k = 1) /\ k \in Nat
    BY <1>1
  <2>2. Good(j)
    BY <1>8
  <2>3. u = s \o t /\ s \in Seq(S) /\ t \in Seq(S)
    BY <1>2, <1>6, <2>1
  <2>4. /\ Len(t) = (IF k > 1 THEN 1 ELSE 0) + (IF k <= m THEN 1 ELSE 0)
        /\ k > 1 => t[1] = a[k]
        /\ k <= m => t[Len(t)] = b[k]
    BY <1>2
  <2>5. l = IF k = 1 THEN 0 ELSE 2 * k - 3
    BY <2>1, <2>2
  <2> HIDE DEF s, t, u, l
  <2>6. /\ Len(u) = l + Len(t) /\ l \in Nat /\ Len(t) \in Nat
        /\ \A i \in 1 .. (l + Len(t)) : u[i] = IF i <= l THEN s[i] ELSE t[i - l]
    BY <2>3, ConcatProperties DEF l
  <2>7. Len(u) = len(k)
    <3>1. CASE k = 1
      BY <2>1, <2>4, <2>5, <2>6, <3>1
    <3>2. CASE k # 1
      BY <1>1, <2>1, <2>4, <2>5, <2>6, <3>2
    <3> QED
      BY <3>1, <3>2
  <2>8. ASSUME NEW h \in 2 .. k PROVE u[2 * h - 2] = a[h]
    <3> DEFINE i == 2 * h - 2
    <3>1. i \in Nat /\ i >= 1 /\ k > 1 /\ (h < k => i <= l) /\ (h = k => i = l + 1) /\ l = 2 * k - 3
      BY <2>1, <2>5
    <3>2. CASE h < k
      <4>1. h \in 2 .. j /\ i \in 1 .. (l + Len(t)) /\ i <= l
        BY <2>1, <2>6, <3>1, <3>2
      <4>2. s[2 * h - 2] = a[h]
        BY <2>2, <4>1 DEF s
      <4> HIDE DEF i
      <4>3. u[i] = s[i]
        BY <2>6, <4>1
      <4> QED
        BY <4>2, <4>3 DEF i
    <3>3. CASE h = k
      <4>1. Len(t) >= 1
        BY <2>4, <3>1
      <4>2. i \in 1 .. (l + Len(t)) /\ ~(i <= l) /\ i - l = 1
        BY <2>6, <3>1, <3>3, <4>1
      <4> HIDE DEF i
      <4>3. u[i] = t[1]
        BY <2>6, <4>2
      <4> QED
        BY <2>4, <3>1, <3>3, <4>3 DEF i
    <3> QED
      BY <2>1, <3>2, <3>3
  <2>9. ASSUME NEW h \in 1 .. k, h <= m PROVE u[2 * h - 1] = b[h]
    <3> DEFINE i == 2 * h - 1
    <3>1. CASE h < k
      <4>1. h \in 1 .. j /\ i \in 1 .. (l + Len(t)) /\ i <= l
        BY <2>1, <2>5, <2>6, <3>1
      <4>2. s[2 * h - 1] = b[h]
        BY <2>2, <2>9, <4>1 DEF s
      <4> HIDE DEF i
      <4>3. u[i] = s[i]
        BY <2>6, <4>1
      <4> QED
        BY <4>2, <4>3 DEF i
    <3>2. CASE h = k
      <4>1. Len(t) = IF k > 1 THEN 2 ELSE 1
        BY <2>4, <2>9, <3>2
      <4>2. i \in 1 .. (l + Len(t)) /\ ~(i <= l) /\ i - l = Len(t)
        BY <2>1, <2>5, <2>6, <3>2, <4>1
      <4> HIDE DEF i
      <4>3. u[i] = t[Len(t)]
        BY <2>6, <4>2
      <4> QED
        BY <2>4, <2>9, <3>2, <4>3 DEF i
    <3> QED
      BY <2>1, <3>1, <3>2
  <2> QED
    BY <2>1, <2>7, <2>8, <2>9 DEF u
<1> HIDE DEF P
<1>9. \A k \in 0 .. n : k \in P
  BY <1>7, <1>8, LoopInduction
<1>10. n \in P
  BY <1>9
<1>11. Good(n)
  BY <1>10 DEF P
<1>12. len(n) = (n - 1) + m
  BY <1>1
<1>13. \A h \in 1 .. m : h \in 1 .. n /\ h <= m
  BY <1>1
<1> QED
  BY <1>5, <1>11, <1>12, <1>13

\* The hop fields and interfaces of an edge from the end of the beacon to its origin.
UpHops(e) ==
  LET last == Len(e.seg.entries) - 1
  IN  [k \in 1 .. (last - e.shortcut + 1) |-> SegmentHop(e, last + 1 - k)]
UpIntfs(e) ==
  LET last == Len(e.seg.entries) - 1
  IN  FlattenSeq([k \in 1 .. (last - e.shortcut + 1) |-> SegmentHopInterfaces(e, last + 1 - k)])

\* An edge is a way to use a segment up to an entry, or to a peer of that entry.
IsUse(e, type) ==
  /\ IsSegment(e.seg, type) /\ type \in {"child", "core"}
  /\ e.shortcut \in 0 .. (Len(e.seg.entries) - 1)
  /\ e.peer = NoPeer => e.shortcut < Len(e.seg.entries) - 1
  /\ e.peer # NoPeer =>
        /\ type = "child"
        /\ \E j \in PeersOf(e.seg.entries[e.shortcut + 1].local) :
              e.peer = createPeerEntry(j, e.seg.entries[e.shortcut + 1].hop.eg, e.seg.ts, BetaAfter(e.seg, e.shortcut + 1))

UpWalk(e) ==
  LET s == e.seg
      m == Len(s.entries)
      n == m - e.shortcut
      hop(h) == SegmentHop(e, m - h)
  IN  [n |-> n, ia |-> [h \in 1 .. n |-> s.entries[m + 1 - h].local],
       in |-> [h \in 1 .. n |-> hop(h).eg], eg |-> [h \in 1 .. n |-> hop(h).in],
       sg |-> [h \in 1 .. n |-> 1], cd |-> {}, pr |-> IF e.peer # NoPeer THEN {n} ELSE {},
       beta |-> [h \in 1 .. n |-> BetaAfter(s, IF h = n /\ e.peer # NoPeer THEN m + 1 - h ELSE m - h)],
       mac |-> [h \in 1 .. n |-> hop(h).mac], pos |-> [h \in 1 .. n |-> 2 * (h - 1)]]

\* Hop h of w is made of entry k of the segment.
UpHop(e, w, h, k) ==
  /\ w.ia[h] = e.seg.entries[k].local /\ w.in[h] = e.seg.entries[k].hop.eg
  /\ w.sg[h] = 1 /\ w.pos[h] = 2 * (h - 1) /\ (h \in w.pr <=> h = w.n /\ e.peer # NoPeer)
  /\ h \notin w.pr => w.eg[h] = e.seg.entries[k].hop.in /\ w.beta[h] = BetaAfter(e.seg, k - 1)
  /\ h \in w.pr => /\ Eg(w, h) \in Interfaces /\ LinkType[Eg(w, h)] = "peer" /\ w.beta[h] = BetaAfter(e.seg, k)
                   /\ Eg(w, h) = <<e.seg.entries[k].local, e.peer.hop.in>>
                   /\ Remote[Eg(w, h)] = <<e.peer.peer, e.peer.peerIf>>
  /\ UpHops(e)[h] = createHopF(w.ia[h], w.eg[h], w.in[h], e.seg.ts, w.beta[h])
  /\ w.mac[h] = UpHops(e)[h].mac
  /\ h \notin w.pr => w.mac[h] = e.seg.entries[k].hop.mac

\* Hop h of a segment used upwards is the entry k counted from its other end.
LEMMA UpHopFacts ==
  ASSUME NEW e, NEW type, IsUse(e, type), NEW h \in 1 .. UpWalk(e).n, NEW k, k = Len(e.seg.entries) + 1 - h
  PROVE  /\ k \in 1 .. Len(e.seg.entries) /\ (h = UpWalk(e).n <=> k = e.shortcut + 1)
         /\ Len(e.seg.entries) \in Nat /\ e.shortcut \in Nat
         /\ UpWalk(e).n = Len(e.seg.entries) - e.shortcut /\ UpWalk(e).n \in Nat /\ UpWalk(e).n >= 1
         /\ UpHop(e, UpWalk(e), h, k)
<1> DEFINE w == UpWalk(e)
           s == e.seg
           m == Len(s.entries)
           n == w.n
           z == e.shortcut
           x == s.entries[k]
           f == SegmentHop(e, m - h)
           beta == BetaAfter(s, IF h = n /\ e.peer # NoPeer THEN m + 1 - h ELSE m - h)
<1>1. n = m - z
  BY DEF UpWalk
<1>2. m \in Nat /\ m >= 2 /\ z \in 0 .. (m - 1)
  BY SeqIs DEF IsUse, IsSegment, IsPseg
<1>3. /\ w.ia[h] = s.entries[m + 1 - h].local /\ w.in[h] = f.eg /\ w.eg[h] = f.in
      /\ w.sg[h] = 1 /\ w.mac[h] = f.mac /\ w.pos[h] = 2 * (h - 1)
  BY DEF UpWalk
<1>4. w.beta[h] = beta
  BY <1>1 DEF UpWalk
<1>5. w.pr = IF e.peer # NoPeer THEN {n} ELSE {}
  BY <1>1 DEF UpWalk
<1> HIDE DEF w, n
<1>6. /\ k \in 1 .. m /\ (h = n <=> k = z + 1) /\ n \in Nat /\ n >= 1 /\ k - 1 = m - h /\ (m - h) + 1 = k
      /\ (m - h = z <=> h = n) /\ z \in Nat /\ h \in 1 .. n /\ m - 1 - z + 1 = n /\ m - 1 + 1 - h = m - h
  <2>1. h \in 1 .. n /\ k = m + 1 - h
    BY DEF n, w
  <2> HIDE DEF m, z
  <2> QED
    BY ONLY <1>1, <1>2, <2>1
<1>7. UpHops(e)[h] = f
  <2>1. UpHops(e) = [i \in 1 .. (m - 1 - z + 1) |-> SegmentHop(e, m - 1 + 1 - i)]
    BY DEF UpHops
  <2> QED
    BY <1>6, <2>1
<1>8. Entry(s, k, x.local, x.hop.in, x.hop.eg)
  BY <1>6 DEF IsUse, IsSegment
<1>9. h \in w.pr <=> h = n /\ e.peer # NoPeer
  BY <1>5
<1>10. f = IF h \in w.pr THEN e.peer.hop ELSE x.hop
  <2>1. f = IF m - h = z /\ e.peer # NoPeer THEN e.peer.hop ELSE s.entries[(m - h) + 1].hop
    BY DEF SegmentHop
  <2> QED
    BY <1>6, <1>9, <2>1
<1>11. beta = IF h \in w.pr THEN BetaAfter(s, k) ELSE BetaAfter(s, k - 1)
  BY <1>6, <1>9
<1>12. x.hop = createHopF(x.local, x.hop.in, x.hop.eg, s.ts, BetaAfter(s, k - 1))
  BY <1>8 DEF Entry
<1>13. w.ia[h] = x.local
  BY <1>3
<1> HIDE DEF f, beta, x
<1>14. CASE h \notin w.pr
  <2>1. f = x.hop /\ w.in[h] = x.hop.eg /\ w.eg[h] = x.hop.in /\ w.mac[h] = x.hop.mac /\ w.beta[h] = BetaAfter(s, k - 1)
    BY <1>3, <1>4, <1>10, <1>11, <1>14
  <2>2. UpHops(e)[h] = createHopF(w.ia[h], w.eg[h], w.in[h], s.ts, w.beta[h]) /\ w.mac[h] = UpHops(e)[h].mac
    BY <1>7, <1>12, <1>13, <2>1
  <2>3. UpHop(e, w, h, k)
    BY <1>3, <1>9, <1>13, <1>14, <2>1, <2>2 DEF UpHop, x, n
  <2> QED
    BY <1>1, <1>2, <1>6, <2>3 DEF n, w
<1>15. CASE h \in w.pr
  <2>1. z + 1 = k /\ e.peer # NoPeer
    BY <1>6, <1>9, <1>15
  <2>2. PICK j \in PeersOf(x.local) : e.peer = createPeerEntry(j, x.hop.eg, s.ts, BetaAfter(s, k))
    BY <2>1 DEF IsUse, x
  <2>3. j \in Interfaces /\ j[1] = x.local /\ LinkType[j] = "peer"
    BY DEF PeersOf
  <2>4. j = <<j[1], j[2]>> /\ Remote[j] \in Interfaces
    BY <2>3, InterfaceFacts
  <2>5. Remote[j] = <<Remote[j][1], Remote[j][2]>>
    BY <2>4, InterfaceFacts
  <2>6. /\ e.peer.peer = Remote[j][1] /\ e.peer.peerIf = Remote[j][2]
        /\ e.peer.hop = createHopF(x.local, j[2], x.hop.eg, s.ts, BetaAfter(s, k))
    BY <2>2, <2>3 DEF createPeerEntry
  <2>7. e.peer.hop.in = j[2] /\ e.peer.hop.eg = x.hop.eg
    BY <2>6 DEF createHopF, HopField
  <2>8. f = e.peer.hop /\ w.in[h] = x.hop.eg /\ w.eg[h] = j[2] /\ w.mac[h] = f.mac /\ w.beta[h] = BetaAfter(s, k)
    BY <1>3, <1>4, <1>10, <1>11, <1>15, <2>7
  <2>9. Eg(w, h) = j
    BY <1>13, <2>3, <2>4, <2>8 DEF Eg
  <2>10. UpHops(e)[h] = createHopF(w.ia[h], w.eg[h], w.in[h], s.ts, w.beta[h]) /\ w.mac[h] = UpHops(e)[h].mac
    BY <1>7, <1>13, <2>6, <2>8
  <2>11. Eg(w, h) = <<x.local, e.peer.hop.in>> /\ Remote[Eg(w, h)] = <<e.peer.peer, e.peer.peerIf>>
    BY <2>3, <2>4, <2>5, <2>6, <2>7, <2>9
  <2>12. UpHop(e, w, h, k)
    BY <1>3, <1>9, <1>13, <1>15, <2>3, <2>8, <2>9, <2>10, <2>11 DEF UpHop, x, n
  <2> QED
    BY <1>1, <1>2, <1>6, <2>12 DEF n, w
<1> QED
  BY <1>14, <1>15

Opposite(type) == IF type = "child" THEN "parent" ELSE type

\* The other end of a link has the opposite type.
LEMMA OppositeType ==
  ASSUME NEW i \in Interfaces, LinkType[i] \in {"child", "core"}
  PROVE  LinkType[Remote[i]] = Opposite(LinkType[i])
BY TopologyAssumption DEF Opposite

\* Consecutive hops of a segment used upwards are the two ends of one link and are
\* chained.
LEMMA UpLinks ==
  ASSUME NEW e, NEW type, IsUse(e, type), NEW h \in 1 .. (UpWalk(e).n - 1)
  PROVE  LET w == UpWalk(e)
         IN  /\ h \notin w.pr /\ Chained(w, h) /\ Linked(w, h)
             /\ Eg(w, h) \in Interfaces /\ Remote[Eg(w, h)] = In(w, h + 1) /\ LinkType[Eg(w, h)] = Opposite(type)
             /\ In(w, h + 1) \in Interfaces /\ LinkType[In(w, h + 1)] = type
<1> DEFINE w == UpWalk(e)
           s == e.seg
           m == Len(s.entries)
           n == w.n
           g == h + 1
           k == m + 1 - h
           j == m - h
<1>1. n \in Nat /\ n = m - e.shortcut /\ m \in Nat /\ e.shortcut \in Nat
  <2>1. n = m - e.shortcut
    BY DEF UpWalk
  <2>2. m \in Nat /\ e.shortcut \in 0 .. (m - 1)
    BY SeqIs DEF IsUse, IsSegment, IsPseg
  <2> QED
    BY <2>1, <2>2
<1> HIDE DEF w, n
<1>2. h \in 1 .. (n - 1)
  BY DEF n, w
<1> HIDE DEF m
<1>3. /\ h \in 1 .. n /\ g \in 1 .. n /\ j = m + 1 - g /\ h # n /\ j \in 1 .. (m - 1) /\ j + 1 = k /\ k - 1 = j
  BY <1>1, <1>2
<1> HIDE DEF g, k, j
<1>4. UpHop(e, w, h, k)
  BY <1>3, UpHopFacts DEF m, n, w, k
<1>5. UpHop(e, w, g, j)
  BY <1>3, UpHopFacts DEF m, n, w
<1> DEFINE i == <<s.entries[j].local, s.entries[j].hop.eg>>
<1>6. i \in Interfaces /\ LinkType[i] = type /\ Remote[i] = <<s.entries[j + 1].local, s.entries[j + 1].hop.in>>
  BY <1>3 DEF IsUse, IsSegment, m
<1>7. h \notin w.pr
  BY <1>3, <1>4 DEF UpHop, n
<1>8. Eg(w, h) = <<s.entries[k].local, s.entries[k].hop.in>> /\ w.beta[h] = BetaAfter(s, k - 1)
  BY <1>4, <1>7 DEF UpHop, Eg
<1>9. In(w, g) = i
  BY <1>5 DEF UpHop, In
<1> HIDE DEF i
<1>10. Eg(w, h) = Remote[i]
  BY <1>3, <1>6, <1>8
<1>11. Remote[i] \in Interfaces /\ Remote[Remote[i]] = i
  BY <1>6, InterfaceFacts
<1>12. LinkType[Remote[i]] = Opposite(type)
  BY <1>6, OppositeType DEF IsUse
<1>13. w.sg[g] = w.sg[h] /\ w.cd = {}
  <2>1. w.sg[g] = 1 /\ w.sg[h] = 1
    BY <1>4, <1>5 DEF UpHop
  <2>2. w.cd = {}
    BY DEF w, UpWalk
  <2> QED
    BY <2>1, <2>2
<1>14. w.beta[h] = IF g \in w.pr THEN w.beta[g] ELSE SymDiff(w.beta[g], {w.mac[g]})
  <2>1. w.beta[h] = BetaAfter(s, j)
    BY <1>3, <1>8
  <2>2. CASE g \in w.pr
    BY <1>5, <2>1, <2>2 DEF UpHop
  <2>3. CASE g \notin w.pr
    <3> DEFINE l == j - 1
    <3>1. w.beta[g] = BetaAfter(s, l) /\ w.mac[g] = s.entries[j].hop.mac
      BY <1>5, <2>3 DEF UpHop
    <3>2. l \in Nat /\ l + 1 = j
      BY <1>1, <1>3
    <3> HIDE DEF l
    <3>3. BetaAfter(s, l + 1) = SymDiff(BetaAfter(s, l), {s.entries[l + 1].hop.mac})
      BY <3>2, BetaSteps
    <3> QED
      BY <2>1, <2>3, <3>1, <3>2, <3>3
  <2> QED
    BY <2>2, <2>3
<1>15. Chained(w, h) /\ Linked(w, h)
  BY <1>13, <1>14 DEF Chained, Linked, g
<1> QED
  BY <1>6, <1>7, <1>9, <1>10, <1>11, <1>12, <1>15 DEF g, w

\* The interface list of a segment used upwards: the interfaces of its hops, in turn,
\* with the peering interface at a peering end.
LEMMA UpInterfaces ==
  ASSUME NEW e, NEW type, IsUse(e, type)
  PROVE  LET w == UpWalk(e)
             n == w.n
             m == IF e.peer = NoPeer THEN n - 1 ELSE n
             c == UpIntfs(e)
         IN  /\ c \in Seq(Interfaces) /\ Len(c) = (n - 1) + m
             /\ \A h \in 2 .. n : c[2 * h - 2] = In(w, h)
             /\ \A h \in 1 .. m : c[2 * h - 1] = Eg(w, h)
<1> DEFINE w == UpWalk(e)
           s == e.seg
           l == Len(s.entries)
           z == e.shortcut
           n == w.n
           m == IF e.peer = NoPeer THEN n - 1 ELSE n
           a == [h \in 1 .. n |-> In(w, h)]
           b == [h \in 1 .. n |-> Eg(w, h)]
           seqs == [k \in 1 .. (l - 1 - z + 1) |-> SegmentHopInterfaces(e, l - 1 + 1 - k)]
           tidy == Zig(a, b, n, m)
<1>1. n \in Nat /\ n = l - z /\ l \in Nat /\ z \in Nat /\ n >= 1
  <2>1. n = l - z
    BY DEF UpWalk
  <2>2. l \in Nat /\ z \in 0 .. (l - 1)
    BY SeqIs DEF IsUse, IsSegment, IsPseg
  <2> HIDE DEF l, z, n
  <2> QED
    BY <2>1, <2>2
<1>2. UpIntfs(e) = FlattenSeq(seqs)
  BY DEF UpIntfs
<1> HIDE DEF w, n
<1>3. m \in {n - 1, n} /\ m <= n /\ m \in Nat /\ n - 1 <= m
  BY <1>1
<1>4. \A h \in 2 .. n : In(w, h) \in Interfaces /\ w.in[h] # 0
  <2> TAKE h \in 2 .. n
  <2> DEFINE g == h - 1
  <2>1. g \in 1 .. (n - 1) /\ g + 1 = h
    BY <1>1
  <2> HIDE DEF g
  <2>2. In(w, g + 1) \in Interfaces
    BY <2>1, UpLinks DEF w, n
  <2>3. In(w, h) \in Interfaces
    BY <2>1, <2>2
  <2> QED
    BY <2>3, InterfaceFacts DEF In
<1>5. \A h \in 1 .. m : Eg(w, h) \in Interfaces /\ w.eg[h] # 0
  <2> TAKE h \in 1 .. m
  <2>1. Eg(w, h) \in Interfaces
    <3>1. CASE h <= n - 1
      <4>1. h \in 1 .. (n - 1)
        BY <1>1, <1>3, <3>1
      <4> QED
        BY <4>1, UpLinks DEF w, n
    <3>2. CASE ~(h <= n - 1)
      <4>1. h = n /\ e.peer # NoPeer /\ h \in 1 .. n
        BY <1>1, <1>3, <3>2
      <4> DEFINE k == l + 1 - h
      <4>2. UpHop(e, w, h, k)
        BY <4>1, UpHopFacts DEF w, n
      <4> QED
        BY <4>1, <4>2 DEF UpHop, n
    <3> QED
      BY <3>1, <3>2
  <2> QED
    BY <2>1, InterfaceFacts DEF Eg
<1>6. seqs = tidy
  <2>1. l - 1 - z + 1 = n
    BY <1>1
  <2>2. ASSUME NEW h \in 1 .. n PROVE SegmentHopInterfaces(e, l - 1 + 1 - h) = Maybe(h > 1, a[h]) \o Maybe(h <= m, b[h])
    <3> DEFINE k == l + 1 - h
               i == l - h
               f == SegmentHop(e, i)
               x == s.entries[k].local
               short == i = z /\ z # 0
               isPeer == i = z /\ e.peer # NoPeer
    <3>1. UpHop(e, w, h, k) /\ k \in 1 .. l
      BY UpHopFacts DEF w, n
    <3>2. /\ l - 1 + 1 - h = i /\ i + 1 = k /\ (i = z <=> h = n) /\ (h = 1 => k = l) /\ (h = n => k = z + 1)
          /\ (h > 1 => h \in 2 .. n) /\ (h <= m => h \in 1 .. m) /\ (h # n => h <= m) /\ h \in Nat
      <4> HIDE DEF l, z, m
      <4> QED
        BY <1>1, <1>3
    <3> HIDE DEF k
    <3>3. UpHops(e)[h] = f
      <4>1. UpHops(e) = [y \in 1 .. (l - 1 - z + 1) |-> SegmentHop(e, l - 1 + 1 - y)]
        BY DEF UpHops
      <4> QED
        BY <2>1, <3>2, <4>1
    <3> HIDE DEF i
    <3>4. f.in = w.eg[h] /\ f.eg = w.in[h] /\ w.ia[h] = x
      BY <3>1, <3>3 DEF UpHop, createHopF, HopField
    <3>5. SegmentHopInterfaces(e, i) = (IF f.eg # 0 THEN <<<<x, f.eg>>>> ELSE <<>>)
                                       \o (IF f.in # 0 /\ (~short \/ isPeer) THEN <<<<x, f.in>>>> ELSE <<>>)
      BY <3>2 DEF SegmentHopInterfaces
    <3>6. f.eg # 0 <=> h > 1
      <4>1. h = 1 => w.in[h] = 0
        BY <3>1, <3>2 DEF UpHop, IsUse, IsSegment
      <4> QED
        BY <1>4, <3>2, <3>4, <4>1
    <3>7. (f.in # 0 /\ (~short \/ isPeer)) <=> h <= m
      <4>1. CASE h # n
        BY <1>5, <3>2, <3>4, <4>1
      <4>2. CASE h = n /\ e.peer # NoPeer
        <5>1. h <= m /\ isPeer
          BY <1>1, <3>2, <4>2
        <5> QED
          BY <1>5, <3>2, <3>4, <5>1
      <4>3. CASE h = n /\ e.peer = NoPeer
        <5>3. m = n - 1 /\ i = z
          BY <3>2, <4>3
        <5>4. ~(h <= m)
          <6> HIDE DEF m
          <6> QED
            BY <1>1, <4>3, <5>3
        <5>1. ~(h <= m) /\ ~isPeer /\ (short <=> z # 0)
          BY <4>3, <5>3, <5>4
        <5>2. z = 0 => f.in = 0
          <6> SUFFICES ASSUME z = 0 PROVE f.in = 0
            OBVIOUS
          <6>1. k = 1
            BY <3>2, <4>3
          <6>2. h \notin w.pr
            BY <3>1, <4>3 DEF UpHop
          <6>3. w.eg[h] = s.entries[1].hop.in
            BY <3>1, <6>1, <6>2 DEF UpHop
          <6> QED
            BY <3>4, <6>3 DEF IsUse, IsSegment
        <5> QED
          BY <5>1, <5>2
      <4> QED
        BY <4>1, <4>2, <4>3
    <3>8. <<x, f.eg>> = In(w, h) /\ <<x, f.in>> = Eg(w, h)
      BY <3>4 DEF In, Eg
    <3>9. a[h] = In(w, h) /\ b[h] = Eg(w, h)
      OBVIOUS
    <3> HIDE DEF a, b, m, f, short, isPeer
    <3> QED
      BY <3>2, <3>5, <3>6, <3>7, <3>8, <3>9 DEF Maybe, i
  <2> HIDE DEF a, b, m, l, z
  <2> QED
    BY <2>1, <2>2 DEF Zig
<1>7. \A h \in 1 .. n : a[h] = In(w, h) /\ b[h] = Eg(w, h)
  OBVIOUS
<1>8. (\A h \in 2 .. n : h \in 1 .. n) /\ (\A h \in 1 .. m : h \in 1 .. n)
  BY <1>1, <1>3
<1> HIDE DEF a, b, seqs, m
<1>9. (\A h \in 2 .. n : a[h] \in Interfaces) /\ (\A h \in 1 .. m : b[h] \in Interfaces)
  BY <1>4, <1>5, <1>7, <1>8
<1>10. /\ FlattenSeq(seqs) \in Seq(Interfaces) /\ Len(FlattenSeq(seqs)) = (n - 1) + m
       /\ \A h \in 2 .. n : FlattenSeq(seqs)[2 * h - 2] = a[h]
       /\ \A h \in 1 .. m : FlattenSeq(seqs)[2 * h - 1] = b[h]
  <2>1. seqs = Zig(a, b, n, m)
    BY <1>6
  <2>2. ZigIn(Interfaces, a, b, n, m)
    BY <1>1, <1>3, <1>9 DEF ZigIn
  <2> QED
    BY <2>1, <2>2, Zigzag
<1> QED
  BY <1>2, <1>7, <1>8, <1>10 DEF m, n, w

\* A segment used upwards, cut at a shortcut or a peering, is a walk with its interface
\* list.
LEMMA UpWalkIs ==
  ASSUME NEW e, NEW type, IsUse(e, type)
  PROVE  LET w == UpWalk(e)
             c == UpIntfs(e)
         IN  /\ Walk(w, c) /\ w.pos[1] = 0 /\ Len(c) = IF e.peer = NoPeer THEN w.pos[w.n] ELSE w.pos[w.n] + 1
             /\ \A h \in 1 .. w.n : w.sg[h] = 1
             /\ w.cd = {} /\ w.pr = IF e.peer = NoPeer THEN {} ELSE {w.n}
             /\ w.n = Len(e.seg.entries) - e.shortcut /\ w.n \in Nat /\ w.n >= 1 /\ (e.peer = NoPeer => w.n > 1)
             /\ w.ia[1] = LastIA(e.seg) /\ w.ia[w.n] = e.seg.entries[e.shortcut + 1].local
             /\ w.n > 1 => LinkType[Eg(w, 1)] = Opposite(type) /\ LinkType[In(w, w.n)] = type
<1> DEFINE w == UpWalk(e)
           c == UpIntfs(e)
           n == w.n
           l == Len(e.seg.entries)
           z == e.shortcut
           m == IF e.peer = NoPeer THEN n - 1 ELSE n
<1>1. n \in Nat /\ n = l - z /\ l \in Nat /\ l >= 2 /\ z \in Nat /\ n >= 1 /\ (e.peer = NoPeer => n > 1)
  <2>1. n = l - z
    BY DEF UpWalk
  <2>2. l \in Nat /\ l >= 2 /\ z \in 0 .. (l - 1) /\ (e.peer = NoPeer => z < l - 1)
    BY SeqIs DEF IsUse, IsSegment, IsPseg
  <2> HIDE DEF l, z, n
  <2> QED
    BY <2>1, <2>2
<1>2. /\ c \in Seq(Interfaces) /\ Len(c) = (n - 1) + m
      /\ \A h \in 2 .. n : c[2 * h - 2] = In(w, h)
      /\ \A h \in 1 .. m : c[2 * h - 1] = Eg(w, h)
  BY UpInterfaces
<1>3. w.cd = {} /\ w.pr = IF e.peer = NoPeer THEN {} ELSE {n}
  BY DEF UpWalk
<1> HIDE DEF w, n, c, l, z
<1>4. \A h \in 1 .. n : UpHop(e, w, h, l + 1 - h)
  BY UpHopFacts DEF w, n, l
<1>5. \A h \in 1 .. n : w.sg[h] = 1 /\ w.pos[h] = 2 * (h - 1)
  BY <1>4 DEF UpHop
<1>6. m \in Nat /\ n - 1 <= m /\ m <= n
  BY <1>1
<1>7. 1 \in 1 .. n /\ n \in 1 .. n
  BY <1>1
<1>8. w.pos[1] = 0 /\ w.pos[n] = 2 * (n - 1) /\ Len(c) = IF e.peer = NoPeer THEN w.pos[n] ELSE w.pos[n] + 1
  BY <1>1, <1>2, <1>5, <1>7
<1>9. ASSUME NEW h \in 1 .. n PROVE w.pos[h] \in Nat /\ w.pos[h] <= Len(c)
  <2>1. w.pos[h] = 2 * (h - 1)
    BY <1>5
  <2> HIDE DEF m
  <2> QED
    BY <1>1, <1>2, <1>6, <2>1
<1>10. ASSUME NEW h \in 1 .. (n - 1)
       PROVE  /\ h \notin w.pr /\ Chained(w, h) /\ Linked(w, h)
              /\ Eg(w, h) \in Interfaces /\ Remote[Eg(w, h)] = In(w, h + 1) /\ LinkType[Eg(w, h)] = Opposite(type)
              /\ In(w, h + 1) \in Interfaces /\ LinkType[In(w, h + 1)] = type
  BY UpLinks DEF w, n
<1>11. ASSUME NEW h \in 1 .. (n - 1) PROVE Link(w, c, h)
  <2> DEFINE x == w.pos[h]
             g == h + 1
  <2>1. h \in 1 .. n /\ g \in 2 .. n /\ g \in 1 .. n /\ h \in 1 .. m
    <3> HIDE DEF m
    <3> QED
      BY <1>1, <1>6
  <2>2. x = 2 * (h - 1) /\ w.pos[g] = 2 * (g - 1)
    BY <1>5, <2>1
  <2>3. x + 1 = 2 * h - 1 /\ x + 2 = 2 * g - 2 /\ w.pos[g] = x + 2
    BY <1>1, <2>2
  <2> HIDE DEF g, x
  <2>4. c[x + 1] = Eg(w, h) /\ c[x + 2] = In(w, g)
    BY <1>2, <2>1, <2>3
  <2> QED
    BY <1>10, <2>3, <2>4 DEF Link, g, x
<1>12. ASSUME NEW h \in 2 .. (n - 1) PROVE <<LinkType[In(w, h)], LinkType[Eg(w, h)]>> \in withinSegment
  <2> DEFINE g == h - 1
  <2>1. g \in 1 .. (n - 1) /\ g + 1 = h /\ h \in 1 .. (n - 1)
    BY <1>1
  <2> HIDE DEF g
  <2>2. LinkType[In(w, g + 1)] = type /\ LinkType[Eg(w, h)] = Opposite(type)
    BY <1>10, <2>1
  <2>3. type \in {"child", "core"}
    BY DEF IsUse
  <2> QED
    BY <2>1, <2>2, <2>3 DEF Opposite, withinSegment
<1>13. Len(c) = w.pos[n] + 1 => c[Len(c)] = Eg(w, n)
  <2> SUFFICES ASSUME Len(c) = w.pos[n] + 1 PROVE c[Len(c)] = Eg(w, n)
    OBVIOUS
  <2>1. m = n /\ Len(c) = 2 * n - 1
    BY <1>1, <1>2, <1>8
  <2> HIDE DEF m
  <2> QED
    BY <1>2, <1>7, <2>1
<1>14. Walk(w, c)
  <2>1. w.pos[1] \in {0, 1} /\ w.pos[1] # 1 /\ Len(c) \in {w.pos[n], w.pos[n] + 1}
    BY <1>8
  <2>2. \A h \in 1 .. n : w.sg[h] \in Nat /\ 1 <= w.sg[h] /\ w.sg[h] <= w.sg[n]
    BY <1>5, <1>7
  <2> QED
    BY <1>1, <1>2, <1>5, <1>7, <1>9, <1>10, <1>11, <1>12, <1>13, <2>1, <2>2 DEF Walk, n
<1>15. w.ia[1] = LastIA(e.seg)
  <2>1. UpHop(e, w, 1, l + 1 - 1) /\ l + 1 - 1 = l
    BY <1>1, <1>4, <1>7
  <2> QED
    BY <2>1 DEF UpHop, LastIA, Last, l
<1>16. w.ia[n] = e.seg.entries[z + 1].local
  <2> DEFINE k == l + 1 - n
  <2>1. k = z + 1
    BY <1>1
  <2>2. UpHop(e, w, n, k)
    BY <1>4, <1>7
  <2> HIDE DEF k
  <2>3. w.ia[n] = e.seg.entries[k].local
    BY <2>2 DEF UpHop
  <2> QED
    BY <2>1, <2>3
<1>17. n > 1 => LinkType[Eg(w, 1)] = Opposite(type) /\ LinkType[In(w, n)] = type
  <2> SUFFICES ASSUME n > 1 PROVE LinkType[Eg(w, 1)] = Opposite(type) /\ LinkType[In(w, n)] = type
    OBVIOUS
  <2> DEFINE g == n - 1
  <2>1. 1 \in 1 .. (n - 1) /\ g \in 1 .. (n - 1) /\ g + 1 = n
    BY <1>1
  <2> HIDE DEF g
  <2>2. LinkType[Eg(w, 1)] = Opposite(type) /\ LinkType[In(w, g + 1)] = type
    BY <1>10, <2>1
  <2> QED
    BY <2>1, <2>2
<1>18. w.n = n
  BY DEF n
<1> QED
  BY <1>1, <1>3, <1>5, <1>8, <1>14, <1>15, <1>16, <1>17, <1>18 DEF w, c, l, z

\* The info field and the hop fields of g say what the walk w, of one segment, does.
BearsHop(info, hop, w, h) ==
  /\ IsHop(hop) /\ hop.inAlert = FALSE /\ hop.egAlert = FALSE
  /\ IngressOf(info, hop) = w.in[h] /\ EgressOf(info, hop) = w.eg[h]
  /\ hop.mac = w.mac[h] /\ hop.mac = MAC(w.ia[h], w.beta[h], info.ts, hop.exp, hop.in, hop.eg)
  /\ w.sg[h] = 1 /\ (info.consDir <=> h \in w.cd)

Bears(g, w) ==
  /\ IsInfo(g.info) /\ IsSeq(g.hops) /\ Len(g.hops) = w.n /\ g.info.segID = w.beta[1]
  /\ \A h \in 1 .. w.n : BearsHop(g.info, g.hops[h], w, h)

\* The hop fields the combinator takes from a segment say what the walk does, in both
\* directions.
LEMMA UpBears ==
  ASSUME NEW e, NEW type, IsUse(e, type), NEW h \in 1 .. UpWalk(e).n,
         NEW info, info.ts = e.seg.ts
  PROVE  /\ info.consDir = FALSE => BearsHop(info, UpHops(e)[h], UpWalk(e), h)
         /\ \A g : /\ info.consDir = TRUE /\ g \in 1 .. UpWalk(e).n /\ h = UpWalk(e).n + 1 - g
                   => BearsHop(info, UpHops(e)[h], Turn(UpWalk(e), UpIntfs(e)), g)
<1> DEFINE w == UpWalk(e)
           k == Len(e.seg.entries) + 1 - h
           f == UpHops(e)[h]
           v == Turn(w, UpIntfs(e))
<1>1. UpHop(e, w, h, k)
  BY UpHopFacts
<1>2. w.cd = {} /\ w.sg[h] = 1 /\ w.sg[w.n] = 1
  <2>1. w.cd = {} /\ (\A i \in 1 .. w.n : w.sg[i] = 1) /\ w.n \in Nat /\ w.n >= 1
    BY UpWalkIs
  <2> QED
    BY <2>1
<1> HIDE DEF w, k, v
<1>3. f = createHopF(w.ia[h], w.eg[h], w.in[h], e.seg.ts, w.beta[h]) /\ w.mac[h] = f.mac
  BY <1>1 DEF UpHop
<1> DEFINE a == w.ia[h]
           i == w.in[h]
           o == w.eg[h]
           b == w.beta[h]
<1> HIDE DEF f
<1>4. f = createHopF(a, o, i, e.seg.ts, b)
  BY <1>3
<1> HIDE DEF a, i, o, b
<1>5. /\ f.in = o /\ f.eg = i /\ f.exp = ExpTime[a] /\ f.mac = MAC(a, b, e.seg.ts, ExpTime[a], o, i)
      /\ f.inAlert = FALSE /\ f.egAlert = FALSE
  BY <1>4 DEF createHopF, HopField
<1>6. IsHop(f)
  BY <1>4 DEF createHopF, HopField, IsHop
<1>7. f.mac = MAC(a, b, info.ts, f.exp, f.in, f.eg)
  BY <1>5
<1>8. info.consDir = FALSE => BearsHop(info, f, w, h)
  <2> SUFFICES ASSUME info.consDir = FALSE PROVE BearsHop(info, f, w, h)
    OBVIOUS
  <2>1. IngressOf(info, f) = w.in[h] /\ EgressOf(info, f) = w.eg[h]
    BY <1>5 DEF IngressOf, EgressOf, i, o
  <2>2. info.consDir <=> h \in w.cd
    BY <1>2
  <2> QED
    BY <1>2, <1>3, <1>5, <1>6, <1>7, <2>1, <2>2 DEF BearsHop, a, b
<1>9. ASSUME NEW g, info.consDir = TRUE, g \in 1 .. w.n, h = w.n + 1 - g PROVE BearsHop(info, f, v, g)
  <2>1. Mirrors(v, w, UpIntfs(e), g, h)
    BY <1>9, TurnFields DEF v
  <2>2. /\ v.ia[g] = a /\ v.in[g] = o /\ v.eg[g] = i /\ v.beta[g] = b /\ v.mac[g] = f.mac /\ v.sg[g] = 1 + 1 - 1
        /\ g \in v.cd
    BY <1>2, <1>3, <2>1 DEF Mirrors, a, i, o, b
  <2>3. IngressOf(info, f) = v.in[g] /\ EgressOf(info, f) = v.eg[g]
    BY <1>5, <1>9, <2>2 DEF IngressOf, EgressOf
  <2> QED
    BY <1>5, <1>6, <1>7, <1>9, <2>2, <2>3 DEF BearsHop
<1> QED
  BY <1>8, <1>9 DEF f, w, v

\* The parts of Segment.
LEMMA SegmentIs ==
  ASSUME NEW e
  PROVE  /\ Segment(e).info = InfoField(calculateBeta(e), e.seg.ts, e.typ = "down", e.peer # NoPeer)
         /\ Segment(e).hops = IF e.typ = "down" THEN Reverse(UpHops(e)) ELSE UpHops(e)
         /\ Segment(e).intfs = IF e.typ = "down" THEN Reverse(UpIntfs(e)) ELSE UpIntfs(e)
BY DEF Segment, UpHops, UpIntfs

\* The info field of a segment: SegID from calculateBeta, direction and peering flag.
LEMMA SegmentInfo ==
  ASSUME NEW e
  PROVE  LET i == Segment(e).info
         IN  /\ IsInfo(i) /\ i.segID = calculateBeta(e) /\ i.ts = e.seg.ts
             /\ e.typ = "down" => i.consDir = TRUE
             /\ e.typ # "down" => i.consDir = FALSE
             /\ i.peer <=> e.peer # NoPeer
<1> DEFINE i == Segment(e).info
           c == e.typ = "down"
           d == e.peer # NoPeer
           b == calculateBeta(e)
           t == e.seg.ts
<1>1. i = InfoField(b, t, c, d)
  BY SegmentIs
<1>2. c \in BOOLEAN /\ d \in BOOLEAN
  OBVIOUS
<1>3. (e.typ = "down" => c = TRUE) /\ (e.typ # "down" => c = FALSE) /\ (d <=> e.peer # NoPeer)
  OBVIOUS
<1> HIDE DEF i, b, t, c, d
<1>4. i = [segID |-> b, ts |-> t, consDir |-> c, peer |-> d]
  BY <1>1 DEF InfoField
<1>5. i.segID = b /\ i.ts = t /\ i.consDir = c /\ i.peer = d
  BY <1>4
<1>6. IsInfo(i)
  BY <1>2, <1>4, <1>5 DEF IsInfo
<1> QED
  BY <1>3, <1>5, <1>6 DEF i, b, t

\* As many hop fields as the walk has hops.
LEMMA UpHopsSeq ==
  ASSUME NEW e, NEW type, IsUse(e, type)
  PROVE  IsSeq(UpHops(e)) /\ Len(UpHops(e)) = UpWalk(e).n /\ UpWalk(e).n \in Nat
<1> DEFINE l == Len(e.seg.entries)
           z == e.shortcut
           n == UpWalk(e).n
           s == UpHops(e)
<1>1. n \in Nat /\ n = l - z /\ l - 1 - z + 1 = n
  <2>1. n \in Nat /\ n = l - z
    BY UpWalkIs
  <2>2. l \in Nat /\ z \in 0 .. (l - 1)
    BY SeqIs DEF IsUse, IsSegment, IsPseg
  <2> HIDE DEF l, z, n
  <2> QED
    BY <2>1, <2>2
<1>2. s = [k \in 1 .. (l - 1 - z + 1) |-> SegmentHop(e, l - 1 + 1 - k)]
  BY DEF UpHops
<1> HIDE DEF s, l, z, n
<1>3. s = [k \in 1 .. n |-> s[k]]
  BY <1>1, <1>2
<1>4. IsSeq(s) /\ Len(s) = n
  BY <1>1, <1>3, SeqFun
<1> QED
  BY <1>1, <1>4 DEF s, n

\* A segment that is used from its end towards its origin.
LEMMA UpPiece ==
  ASSUME NEW e, NEW type, IsUse(e, type), e.typ # "down"
  PROVE  Bears(Segment(e), UpWalk(e)) /\ Segment(e).intfs = UpIntfs(e)
<1> DEFINE g == Segment(e)
           w == UpWalk(e)
           l == Len(e.seg.entries)
           z == e.shortcut
           n == w.n
<1>1. g.hops = UpHops(e) /\ g.intfs = UpIntfs(e)
  BY SegmentIs
<1>2. IsInfo(g.info) /\ g.info.segID = calculateBeta(e) /\ g.info.ts = e.seg.ts /\ g.info.consDir = FALSE
  BY SegmentInfo
<1>3. IsSeq(g.hops) /\ Len(g.hops) = n /\ n \in Nat
  BY <1>1, UpHopsSeq
<1>4. n = l - z /\ n >= 1
  BY UpWalkIs
<1>5. l \in Nat /\ z \in 0 .. (l - 1)
  BY SeqIs DEF IsUse, IsSegment, IsPseg
<1>6. \A h \in 1 .. n : BearsHop(g.info, g.hops[h], w, h)
  BY <1>1, <1>2, UpBears
<1>7. calculateBeta(e) = BetaAfter(e.seg, IF e.peer # NoPeer /\ l - 1 = z THEN l ELSE l - 1)
  <2>1. (l - 1) + 1 = l /\ (l - 1) + 0 = l - 1
    BY <1>5
  <2>2. calculateBeta(e) = BetaAfter(e.seg, (l - 1) + (IF e.peer # NoPeer /\ l - 1 = z THEN 1 ELSE 0))
    BY DEF calculateBeta
  <2> QED
    BY <2>1, <2>2
<1> HIDE DEF g, w, n
<1>8. 1 \in 1 .. n /\ l = l + 1 - 1 /\ (n = 1 <=> l - 1 = z)
  <2> HIDE DEF l, z
  <2> QED
    BY <1>3, <1>4, <1>5
<1>9. UpHop(e, w, 1, l)
  BY <1>8, UpHopFacts DEF w, n
<1>10. w.beta[1] = BetaAfter(e.seg, IF e.peer # NoPeer /\ l - 1 = z THEN l ELSE l - 1)
  <2>1. 1 \in w.pr <=> e.peer # NoPeer /\ l - 1 = z
    BY <1>8, <1>9 DEF UpHop, n
  <2> QED
    BY <1>9, <2>1 DEF UpHop
<1>11. Bears(g, w)
  BY <1>2, <1>3, <1>6, <1>7, <1>10 DEF Bears, n
<1> QED
  BY <1>1, <1>11 DEF g, w

\* A segment that is used from its origin, or a later entry, to its end.
LEMMA DownPiece ==
  ASSUME NEW e, NEW type, IsUse(e, type), e.typ = "down"
  PROVE  Bears(Segment(e), Turn(UpWalk(e), UpIntfs(e))) /\ Segment(e).intfs = Reverse(UpIntfs(e))
<1> DEFINE g == Segment(e)
           w == UpWalk(e)
           c == UpIntfs(e)
           v == Turn(w, c)
           l == Len(e.seg.entries)
           z == e.shortcut
           n == w.n
<1>1. g.hops = Reverse(UpHops(e)) /\ g.intfs = Reverse(c)
  BY SegmentIs
<1>2. IsInfo(g.info) /\ g.info.segID = calculateBeta(e) /\ g.info.ts = e.seg.ts /\ g.info.consDir = TRUE
  BY SegmentInfo
<1>3. IsSeq(UpHops(e)) /\ Len(UpHops(e)) = n /\ n \in Nat
  BY UpHopsSeq
<1>4. n = l - z /\ n >= 1 /\ Walk(w, c)
  BY UpWalkIs
<1>5. l \in Nat /\ z \in 0 .. (l - 1)
  BY SeqIs DEF IsUse, IsSegment, IsPseg
<1>6. calculateBeta(e) = BetaAfter(e.seg, IF e.peer # NoPeer THEN z + 1 ELSE z)
  <2>1. z + 0 = z
    BY <1>5
  <2>2. calculateBeta(e) = BetaAfter(e.seg, z + (IF e.peer # NoPeer THEN 1 ELSE 0))
    BY DEF calculateBeta
  <2> QED
    BY <2>1, <2>2
<1> HIDE DEF g, w, n, c, v
<1>7. IsSeq(g.hops) /\ Len(g.hops) = n /\ \A h \in 1 .. n : g.hops[h] = UpHops(e)[n + 1 - h]
  BY <1>1, <1>3, SeqReverse
<1>8. v.n = n
  BY <1>4, TurnWalk DEF v, n
<1>9. ASSUME NEW h \in 1 .. n PROVE BearsHop(g.info, g.hops[h], v, h)
  <2> DEFINE j == n + 1 - h
  <2>1. j \in 1 .. n /\ j = n + 1 - h
    BY <1>3
  <2> HIDE DEF j
  <2>2. BearsHop(g.info, UpHops(e)[j], v, h)
    BY <1>2, <2>1, UpBears DEF v, w, n, c
  <2> QED
    BY <1>7, <2>1, <2>2
<1>10. 1 \in 1 .. n /\ n \in 1 .. n /\ n = n + 1 - 1
  BY <1>3, <1>4
<1> DEFINE k == l + 1 - n
<1>11. UpHop(e, w, n, k)
  BY <1>10, UpHopFacts DEF w, n
<1>12. k = z + 1 /\ k - 1 = z
  <2> HIDE DEF l, z
  <2> QED
    BY <1>3, <1>4, <1>5
<1> HIDE DEF k
<1>13. v.beta[1] = w.beta[n]
  <2>1. Mirrors(v, w, c, 1, n)
    BY <1>10, TurnFields DEF v, n
  <2> QED
    BY <2>1 DEF Mirrors
<1>14. w.beta[n] = BetaAfter(e.seg, IF e.peer # NoPeer THEN z + 1 ELSE z)
  <2>1. n \in w.pr <=> e.peer # NoPeer
    BY <1>11 DEF UpHop, n
  <2> QED
    BY <1>11, <1>12, <2>1 DEF UpHop
<1>15. Bears(g, v)
  BY <1>2, <1>6, <1>7, <1>8, <1>9, <1>13, <1>14 DEF Bears
<1> QED
  BY <1>1, <1>15 DEF g, v, w, c

---------------------------------------------------------------------------
(* Walks of several segments.                                                *)

Glue(f, g, m, n) == [h \in 1 .. n |-> IF h <= m THEN f[h] ELSE g[h - m]]

\* First w, with the interfaces c, then v.
Join(w, c, v) ==
  LET m == w.n
      n == w.n + v.n
      z == w.sg[w.n]
      l == Len(c)
  IN  [n |-> n, ia |-> Glue(w.ia, v.ia, m, n), in |-> Glue(w.in, v.in, m, n), eg |-> Glue(w.eg, v.eg, m, n),
       sg |-> [h \in 1 .. n |-> IF h <= m THEN w.sg[h] ELSE v.sg[h - m] + z],
       cd |-> {h \in 1 .. n : IF h <= m THEN h \in w.cd ELSE h - m \in v.cd},
       pr |-> {h \in 1 .. n : IF h <= m THEN h \in w.pr ELSE h - m \in v.pr},
       beta |-> Glue(w.beta, v.beta, m, n), mac |-> Glue(w.mac, v.mac, m, n),
       pos |-> [h \in 1 .. n |-> IF h <= m THEN w.pos[h] ELSE v.pos[h - m] + l]]

\* Hop h of u is hop g of w, s segments and l interfaces later.
SameHop(u, h, w, g, s, l) ==
  /\ u.ia[h] = w.ia[g] /\ u.in[h] = w.in[g] /\ u.eg[h] = w.eg[g] /\ u.beta[h] = w.beta[g] /\ u.mac[h] = w.mac[g]
  /\ h \in u.cd <=> g \in w.cd
  /\ h \in u.pr <=> g \in w.pr
  /\ u.sg[h] = w.sg[g] + s /\ u.pos[h] = w.pos[g] + l
  /\ In(u, h) = In(w, g) /\ Eg(u, h) = Eg(w, g)

\* The first hops of two walks joined are those of the first one.
LEMMA JoinLeft ==
  ASSUME NEW w, NEW c, NEW v, w.n \in Nat, v.n \in Nat, NEW h \in 1 .. w.n, w.sg[h] \in Nat, w.pos[h] \in Nat
  PROVE  SameHop(Join(w, c, v), h, w, h, 0, 0)
<1> DEFINE u == Join(w, c, v)
           m == w.n
           n == w.n + v.n
<1>1. h \in 1 .. n /\ h <= m
  OBVIOUS
<1>2. /\ u.ia = Glue(w.ia, v.ia, m, n) /\ u.in = Glue(w.in, v.in, m, n) /\ u.eg = Glue(w.eg, v.eg, m, n)
      /\ u.beta = Glue(w.beta, v.beta, m, n) /\ u.mac = Glue(w.mac, v.mac, m, n)
  BY DEF Join
<1>3. /\ u.cd = {i \in 1 .. n : IF i <= m THEN i \in w.cd ELSE i - m \in v.cd}
      /\ u.pr = {i \in 1 .. n : IF i <= m THEN i \in w.pr ELSE i - m \in v.pr}
  BY DEF Join
<1>4. u.sg[h] = w.sg[h] /\ u.pos[h] = w.pos[h]
  BY <1>1 DEF Join
<1> HIDE DEF u, m, n
<1>5. u.ia[h] = w.ia[h] /\ u.in[h] = w.in[h] /\ u.eg[h] = w.eg[h] /\ u.beta[h] = w.beta[h] /\ u.mac[h] = w.mac[h]
  BY <1>1, <1>2 DEF Glue
<1>6. (h \in u.cd <=> h \in w.cd) /\ (h \in u.pr <=> h \in w.pr)
  BY <1>1, <1>3
<1>7. u.sg[h] = w.sg[h] + 0 /\ u.pos[h] = w.pos[h] + 0
  BY <1>4
<1>8. In(u, h) = In(w, h) /\ Eg(u, h) = Eg(w, h)
  BY <1>5 DEF In, Eg
<1>9. SameHop(u, h, w, h, 0, 0)
  BY <1>5, <1>6, <1>7, <1>8 DEF SameHop
<1> QED
  BY <1>9 DEF u

\* The other hops are those of the second one, with segments and positions shifted.
LEMMA JoinRight ==
  ASSUME NEW w, NEW c, NEW v, w.n \in Nat, v.n \in Nat, NEW g \in 1 .. v.n, NEW h, h = w.n + g
  PROVE  SameHop(Join(w, c, v), h, v, g, w.sg[w.n], Len(c))
<1> DEFINE u == Join(w, c, v)
           m == w.n
           n == w.n + v.n
<1>1. h \in 1 .. n /\ ~(h <= m) /\ h - m = g
  OBVIOUS
<1>2. /\ u.ia = Glue(w.ia, v.ia, m, n) /\ u.in = Glue(w.in, v.in, m, n) /\ u.eg = Glue(w.eg, v.eg, m, n)
      /\ u.beta = Glue(w.beta, v.beta, m, n) /\ u.mac = Glue(w.mac, v.mac, m, n)
  BY DEF Join
<1>3. /\ u.cd = {i \in 1 .. n : IF i <= m THEN i \in w.cd ELSE i - m \in v.cd}
      /\ u.pr = {i \in 1 .. n : IF i <= m THEN i \in w.pr ELSE i - m \in v.pr}
  BY DEF Join
<1>4. /\ u.sg = [i \in 1 .. n |-> IF i <= m THEN w.sg[i] ELSE v.sg[i - m] + w.sg[m]]
      /\ u.pos = [i \in 1 .. n |-> IF i <= m THEN w.pos[i] ELSE v.pos[i - m] + Len(c)]
  BY DEF Join
<1> HIDE DEF u, m, n
<1>5. u.ia[h] = v.ia[g] /\ u.in[h] = v.in[g] /\ u.eg[h] = v.eg[g] /\ u.beta[h] = v.beta[g] /\ u.mac[h] = v.mac[g]
  BY <1>1, <1>2 DEF Glue
<1>6. (h \in u.cd <=> g \in v.cd) /\ (h \in u.pr <=> g \in v.pr)
  BY <1>1, <1>3
<1>7. u.sg[h] = v.sg[g] + w.sg[m] /\ u.pos[h] = v.pos[g] + Len(c)
  BY <1>1, <1>4
<1>8. In(u, h) = In(v, g) /\ Eg(u, h) = Eg(v, g)
  BY <1>5 DEF In, Eg
<1>9. SameHop(u, h, v, g, w.sg[w.n], Len(c))
  BY <1>5, <1>6, <1>7, <1>8 DEF SameHop, m
<1> QED
  BY <1>9 DEF u

\* A step between two hops that are kept is kept.
LEMMA SameStep ==
  ASSUME NEW u, NEW w, NEW h, NEW g, NEW s \in Nat, NEW l \in Nat,
         SameHop(u, h, w, g, s, l), SameHop(u, h + 1, w, g + 1, s, l),
         w.sg[g] \in Nat, w.sg[g + 1] \in Nat
  PROVE  /\ Linked(u, h) <=> Linked(w, g)
         /\ Chained(w, g) => Chained(u, h)
<1> DEFINE a == w.sg[g]
           b == w.sg[g + 1]
           x == u.sg[h]
           y == u.sg[h + 1]
<1>1. x = a + s /\ y = b + s /\ a \in Nat /\ b \in Nat
  BY DEF SameHop
<1> HIDE DEF a, b, x, y
<1>2. (x = y <=> a = b) /\ (y = x + 1 <=> b = a + 1)
  BY <1>1
<1>3. Linked(u, h) <=> Linked(w, g)
  <2>1. h \in u.pr <=> g \in w.pr
    BY DEF SameHop
  <2> QED
    BY <1>2, <2>1 DEF Linked, a, b, x, y
<1>4. ASSUME Chained(w, g) PROVE Chained(u, h)
  <2>1. /\ u.beta[h] = w.beta[g] /\ u.mac[h] = w.mac[g] /\ u.beta[h + 1] = w.beta[g + 1] /\ u.mac[h + 1] = w.mac[g + 1]
        /\ h \in u.cd <=> g \in w.cd
        /\ h \in u.pr <=> g \in w.pr
        /\ h + 1 \in u.cd <=> g + 1 \in w.cd
        /\ h + 1 \in u.pr <=> g + 1 \in w.pr
    BY DEF SameHop
  <2>2. CASE b = a
    <3>1. ~(b = a + 1)
      BY <1>1, <2>2
    <3>2. /\ g \in w.cd <=> g + 1 \in w.cd
          /\ g \in w.cd => w.beta[g + 1] = IF g \in w.pr THEN w.beta[g] ELSE SymDiff(w.beta[g], {w.mac[g]})
          /\ g \notin w.cd => w.beta[g] = IF g + 1 \in w.pr THEN w.beta[g + 1] ELSE SymDiff(w.beta[g + 1], {w.mac[g + 1]})
      BY <1>4, <3>1 DEF Chained, a, b
    <3>3. u.sg[h + 1] = u.sg[h]
      BY <1>2, <2>2 DEF x, y
    <3> QED
      BY <2>1, <3>2, <3>3 DEF Chained
  <2>3. CASE b # a
    <3>1. b = a + 1 /\ (g \in w.pr <=> g + 1 \in w.pr)
      BY <1>4, <2>3 DEF Chained, a, b
    <3>2. u.sg[h + 1] = u.sg[h] + 1
      BY <1>2, <3>1 DEF x, y
    <3> QED
      BY <2>1, <3>1, <3>2 DEF Chained
  <2> QED
    BY <2>2, <2>3
<1> QED
  BY <1>3, <1>4

\* The interfaces c, l places later in d.
Shifted(d, c, l) == \A i \in 1 .. Len(c) : d[i + l] = c[i]

\* A link stays one when a walk becomes part of a longer one.
LEMMA SameLink ==
  ASSUME NEW u, NEW w, NEW h, NEW g, NEW s \in Nat, NEW l \in Nat,
         SameHop(u, h, w, g, s, l), SameHop(u, h + 1, w, g + 1, s, l),
         NEW c, Link(w, c, g), w.pos[g] \in Nat, Len(c) \in Nat, w.pos[g + 1] <= Len(c),
         NEW d, Shifted(d, c, l)
  PROVE  Link(u, d, h)
<1> DEFINE x == w.pos[g]
           y == u.pos[h]
           m == Len(c)
<1>1. /\ Eg(w, g) \in Interfaces /\ Remote[Eg(w, g)] = In(w, g + 1) /\ w.pos[g + 1] = x + 2
      /\ c[x + 1] = Eg(w, g) /\ c[x + 2] = In(w, g + 1)
  BY DEF Link
<1>2. y = x + l /\ u.pos[h + 1] = w.pos[g + 1] + l /\ Eg(u, h) = Eg(w, g) /\ In(u, h + 1) = In(w, g + 1)
  BY DEF SameHop
<1>3. x \in Nat /\ x + 2 <= m /\ m \in Nat
  BY <1>1
<1>4. \A i \in 1 .. m : d[i + l] = c[i]
  BY DEF Shifted
<1>5. u.pos[h + 1] = (x + 2) + l
  BY <1>1, <1>2
<1> HIDE DEF x, m
<1>6. x + 1 \in 1 .. m /\ x + 2 \in 1 .. m
  BY <1>3
<1>7. d[(x + 1) + l] = c[x + 1] /\ d[(x + 2) + l] = c[x + 2]
  BY <1>4, <1>6
<1>8. (x + 1) + l = y + 1 /\ (x + 2) + l = y + 2 /\ u.pos[h + 1] = y + 2
  BY <1>2, <1>3, <1>5
<1> QED
  BY <1>1, <1>2, <1>7, <1>8 DEF Link

\* The hops of w are hops of u, a hops, s segments and l interfaces later.
Part(u, w, a, s, l) == \A g \in 1 .. w.n : SameHop(u, g + a, w, g, s, l)

\* What a step of a walk has to be.
Step(w, c, h) == Chained(w, h) /\ (Linked(w, h) => Link(w, c, h)) /\ (~Linked(w, h) => Switch(w, h))

Within(w, h) == <<LinkType[In(w, h)], LinkType[Eg(w, h)]>> \in withinSegment

\* So do neighbours and their accumulators.
LEMMA PartStep ==
  ASSUME NEW u, NEW w, NEW c, Walk(w, c), NEW a \in Nat, NEW s \in Nat, NEW l \in Nat, Part(u, w, a, s, l),
         NEW g \in 1 .. (w.n - 1), NEW h, h = g + a
  PROVE  (Linked(u, h) <=> Linked(w, g)) /\ Chained(u, h) /\ SameHop(u, h, w, g, s, l) /\ SameHop(u, h + 1, w, g + 1, s, l)
<1> DEFINE n == w.n
<1>1. n \in Nat /\ (\A i \in 1 .. n : w.sg[i] \in Nat) /\ Chained(w, g)
  BY DEF Walk
<1> HIDE DEF n
<1>2. g \in 1 .. n /\ g + 1 \in 1 .. n /\ (g + 1) + a = h + 1
  BY <1>1 DEF n
<1>3. SameHop(u, g + a, w, g, s, l) /\ SameHop(u, (g + 1) + a, w, g + 1, s, l)
  BY <1>2 DEF Part, n
<1>4. SameHop(u, h, w, g, s, l) /\ SameHop(u, h + 1, w, g + 1, s, l)
  BY <1>2, <1>3
<1>5. w.sg[g] \in Nat /\ w.sg[g + 1] \in Nat
  BY <1>1, <1>2
<1> QED
  BY <1>1, <1>4, <1>5, SameStep

\* And all that a walk demands of two hops.
LEMMA PartWalk ==
  ASSUME NEW u, NEW w, NEW c, Walk(w, c), NEW a \in Nat, NEW s \in Nat, NEW l \in Nat, Part(u, w, a, s, l),
         u.n \in Nat, w.n + a <= u.n,
         NEW d, Shifted(d, c, l),
         NEW g \in 1 .. (w.n - 1), NEW h, h = g + a
  PROVE  /\ Step(u, d, h) /\ (Linked(u, h) <=> Linked(w, g))
         /\ g > 1 /\ Linked(w, g - 1) /\ Linked(w, g) => Within(u, h)
<1> DEFINE n == w.n
<1>1. /\ n \in Nat /\ Len(c) \in Nat /\ (\A i \in 1 .. n : w.pos[i] \in Nat /\ w.pos[i] <= Len(c))
      /\ Linked(w, g) => Link(w, c, g)
      /\ ~Linked(w, g) => Switch(w, g)
      /\ g > 1 /\ Linked(w, g - 1) /\ Linked(w, g) => Within(w, g)
  <2>1. /\ n \in Nat /\ c \in Seq(Interfaces)
        /\ \A i \in 1 .. n : w.pos[i] \in Nat /\ w.pos[i] <= Len(c)
    BY DEF Walk
  <2>2. \A i \in 1 .. (n - 1) : (Linked(w, i) => Link(w, c, i)) /\ (~Linked(w, i) => Switch(w, i))
    BY DEF Walk
  <2>3. \A i \in 2 .. (n - 1) : Linked(w, i - 1) /\ Linked(w, i) => Within(w, i)
    BY DEF Walk, Within
  <2>4. g \in 1 .. (n - 1) /\ (g > 1 => g \in 2 .. (n - 1))
    BY <2>1
  <2>5. Len(c) \in Nat
    BY <2>1
  <2> HIDE DEF n
  <2> QED
    BY ONLY <2>1, <2>2, <2>3, <2>4, <2>5
<1>2. (Linked(u, h) <=> Linked(w, g)) /\ Chained(u, h) /\ SameHop(u, h, w, g, s, l) /\ SameHop(u, h + 1, w, g + 1, s, l)
  BY PartStep
<1>3. ASSUME Linked(w, g) PROVE Link(u, d, h)
  <2>0. g \in 1 .. n /\ g + 1 \in 1 .. n
    <3>1. n \in Nat /\ g \in 1 .. (n - 1)
      BY <1>1
    <3> QED
      BY ONLY <3>1
  <2>1. w.pos[g] \in Nat /\ w.pos[g + 1] <= Len(c)
    <3> HIDE DEF n
    <3> QED
      BY <1>1, <2>0
  <2>2. Link(w, c, g) /\ SameHop(u, h, w, g, s, l) /\ SameHop(u, h + 1, w, g + 1, s, l) /\ Len(c) \in Nat
    BY <1>1, <1>2, <1>3
  <2> QED
    BY ONLY <2>1, <2>2, Shifted(d, c, l), s \in Nat, l \in Nat, SameLink
<1>4. ASSUME ~Linked(w, g) PROVE Switch(u, h)
  <2>1. /\ 1 < g /\ g + 1 < n /\ Linked(w, g - 1) /\ Linked(w, g + 1)
        /\ w.ia[g + 1] = w.ia[g] /\ w.pos[g + 1] = w.pos[g]
        /\ <<LinkType[In(w, g)], LinkType[Eg(w, g + 1)]>> \in acrossSegments
    BY <1>1, <1>4 DEF Switch
  <2>2. Linked(u, h - 1)
    <3> DEFINE j == g - 1
               i == h - 1
    <3>1. j \in 1 .. (w.n - 1) /\ i = j + a /\ Linked(w, j)
      BY <1>1, <2>1
    <3> HIDE DEF i, j
    <3>2. Linked(u, i)
      BY <3>1, PartStep
    <3> QED
      BY <3>2 DEF i
  <2>3. Linked(u, h + 1)
    <3> DEFINE j == g + 1
               i == h + 1
    <3>1. j \in 1 .. (w.n - 1) /\ i = j + a /\ Linked(w, j)
      BY <1>1, <2>1
    <3> HIDE DEF i, j
    <3>2. Linked(u, i)
      BY <3>1, PartStep
    <3> QED
      BY <3>2 DEF i
  <2>4. 1 < h /\ h + 1 < u.n
    <3> DEFINE z == u.n
    <3>1. h = g + a /\ n + a <= z /\ 1 < g /\ g + 1 < n /\ n \in Nat /\ a \in Nat /\ z \in Nat /\ g \in Nat
      BY <1>1, <2>1
    <3> HIDE DEF n, z
    <3>2. 1 < h /\ h + 1 < z
      BY ONLY <3>1
    <3> QED
      BY <3>2 DEF z
  <2>5. u.ia[h + 1] = u.ia[h] /\ u.pos[h + 1] = u.pos[h] /\ In(u, h) = In(w, g) /\ Eg(u, h + 1) = Eg(w, g + 1)
    BY <1>2, <2>1 DEF SameHop
  <2> QED
    BY <2>1, <2>2, <2>3, <2>4, <2>5 DEF Switch
<1>5. ASSUME g > 1, Linked(w, g - 1), Linked(w, g) PROVE Within(u, h)
  BY <1>1, <1>2, <1>5 DEF SameHop, Within
<1> QED
  BY <1>2, <1>3, <1>4, <1>5 DEF Step

\* v continues w over a peering link, or in the same AS with another segment.
PeerFits(w, c, v) ==
  /\ w.n \in w.pr /\ 1 \in v.pr /\ Len(c) = w.pos[w.n] + 1 /\ v.pos[1] = 1
  /\ Eg(w, w.n) \in Interfaces /\ Remote[Eg(w, w.n)] = In(v, 1)
  /\ w.n > 1 => Within(w, w.n)
  /\ v.n > 1 => Within(v, 1)

CrossFits(w, c, v) ==
  /\ w.n \notin w.pr /\ 1 \notin v.pr /\ Len(c) = w.pos[w.n] /\ v.pos[1] = 0
  /\ w.n > 1 /\ v.n > 1 /\ Linked(w, w.n - 1) /\ Linked(v, 1) /\ v.ia[1] = w.ia[w.n]
  /\ <<LinkType[In(w, w.n)], LinkType[Eg(v, 1)]>> \in acrossSegments

\* Both walks are parts of their join.
LEMMA JoinParts ==
  ASSUME NEW w, NEW c, NEW v, NEW d, Walk(w, c), Walk(v, d)
  PROVE  LET u == Join(w, c, v)
         IN  /\ u.n = w.n + v.n /\ Part(u, w, 0, 0, 0) /\ Part(u, v, w.n, w.sg[w.n], Len(c))
             /\ c \o d \in Seq(Interfaces) /\ Len(c \o d) = Len(c) + Len(d)
             /\ Shifted(c \o d, c, 0) /\ Shifted(c \o d, d, Len(c))
<1> DEFINE u == Join(w, c, v)
<1>1. /\ w.n \in Nat /\ v.n \in Nat /\ c \in Seq(Interfaces) /\ d \in Seq(Interfaces)
      /\ \A h \in 1 .. w.n : w.sg[h] \in Nat /\ w.pos[h] \in Nat
  BY DEF Walk
<1>2. Part(u, w, 0, 0, 0)
  <2> SUFFICES ASSUME NEW g \in 1 .. w.n PROVE SameHop(u, g + 0, w, g, 0, 0)
    BY DEF Part
  <2>1. SameHop(u, g, w, g, 0, 0)
    BY <1>1, JoinLeft
  <2>2. g + 0 = g
    BY <1>1
  <2> QED
    BY <2>1, <2>2
<1>3. Part(u, v, w.n, w.sg[w.n], Len(c))
  <2> SUFFICES ASSUME NEW g \in 1 .. v.n PROVE SameHop(u, g + w.n, v, g, w.sg[w.n], Len(c))
    BY DEF Part
  <2> DEFINE h == g + w.n
  <2>1. h = w.n + g
    BY <1>1
  <2> HIDE DEF h
  <2>2. SameHop(u, h, v, g, w.sg[w.n], Len(c))
    BY <1>1, <2>1, JoinRight
  <2> QED
    BY <2>2 DEF h
<1>4. u.n = w.n + v.n
  BY DEF Join
<1>5. c \o d \in Seq(Interfaces) /\ Len(c \o d) = Len(c) + Len(d) /\ Len(c) \in Nat /\ Len(d) \in Nat
  BY <1>1
<1>6. \A i \in 1 .. Len(c) : (c \o d)[i + 0] = c[i]
  BY <1>1, <1>5
<1>7. \A i \in 1 .. Len(d) : (c \o d)[i + Len(c)] = d[i]
  BY <1>1, <1>5
<1> QED
  BY <1>2, <1>3, <1>4, <1>5, <1>6, <1>7 DEF Shifted

\* Where two walks meet that fit, over a peering link or at a cross-over, the join is a
\* walk.
LEMMA JoinMiddle ==
  ASSUME NEW w, NEW c, NEW v, NEW d, Walk(w, c), Walk(v, d), PeerFits(w, c, v) \/ CrossFits(w, c, v),
         NEW u, u = Join(w, c, v), NEW m, m = w.n
  PROVE  /\ Step(u, c \o d, m)
         /\ w.n > 1 /\ Linked(u, m) => Within(u, m)
         /\ v.n > 1 /\ Linked(u, m) => Within(u, m + 1)
<1> DEFINE z == w.sg[m]
           l == Len(c)
           e == c \o d
           x == w.pos[m]
<1>1. /\ m \in Nat /\ m > 0 /\ v.n \in Nat /\ v.n > 0 /\ l \in Nat /\ z \in Nat /\ x \in Nat
      /\ v.sg[1] = 1 /\ v.pos[1] \in Nat /\ Len(d) \in Nat /\ v.pos[1] <= Len(d)
      /\ v.pos[1] = 1 => d[1] = In(v, 1)
      /\ l = x + 1 => c[l] = Eg(w, m)
  BY DEF Walk
<1>2. /\ u.n = m + v.n /\ Part(u, w, 0, 0, 0) /\ Part(u, v, m, z, l)
      /\ Shifted(e, c, 0) /\ Shifted(e, d, l)
  BY JoinParts
<1> HIDE DEF z, l, e, x
<1>3. SameHop(u, m, w, m, 0, 0)
  <2>1. SameHop(u, m + 0, w, m, 0, 0)
    BY <1>1, <1>2 DEF Part
  <2>2. m + 0 = m
    BY <1>1
  <2> QED
    BY <2>1, <2>2
<1>4. SameHop(u, m + 1, v, 1, z, l)
  <2>1. SameHop(u, 1 + m, v, 1, z, l)
    BY <1>1, <1>2 DEF Part
  <2>2. 1 + m = m + 1
    BY <1>1
  <2> QED
    BY <2>1, <2>2
<1>5. u.sg[m] = z /\ u.sg[m + 1] = z + 1 /\ u.pos[m] = x
  <2>1. u.sg[m] = z + 0 /\ u.pos[m] = x + 0 /\ u.sg[m + 1] = v.sg[1] + z
    BY <1>3, <1>4 DEF SameHop, z, x
  <2> QED
    BY <1>1, <2>1
<1>6. /\ (m \in u.pr <=> m \in w.pr) /\ (m + 1 \in u.pr <=> 1 \in v.pr)
      /\ In(u, m) = In(w, m) /\ Eg(u, m) = Eg(w, m) /\ In(u, m + 1) = In(v, 1) /\ Eg(u, m + 1) = Eg(v, 1)
      /\ u.ia[m] = w.ia[m] /\ u.ia[m + 1] = v.ia[1] /\ u.pos[m + 1] = v.pos[1] + l
  BY <1>3, <1>4 DEF SameHop
<1>7. Linked(u, m) <=> m \in w.pr
  <2>1. z # z + 1
    BY <1>1
  <2> QED
    BY <1>5, <1>6, <2>1 DEF Linked
<1>8. (m \in w.pr <=> 1 \in v.pr) /\ Chained(u, m)
  <2>1. m \in w.pr <=> 1 \in v.pr
    BY DEF PeerFits, CrossFits
  <2>2. u.sg[m + 1] = u.sg[m] + 1
    BY <1>5
  <2> QED
    BY <1>6, <2>1, <2>2 DEF Chained
<1>9. CASE m \in w.pr
  <2>1. PeerFits(w, c, v)
    BY <1>9 DEF CrossFits
  <2>2. /\ l = x + 1 /\ v.pos[1] = 1 /\ Eg(w, m) \in Interfaces /\ Remote[Eg(w, m)] = In(v, 1)
        /\ w.n > 1 => Within(w, m)
        /\ v.n > 1 => Within(v, 1)
    BY <2>1 DEF PeerFits, l, x
  <2>3. e[l] = c[l] /\ e[l + 1] = d[1]
    <3>1. l \in 1 .. l /\ 1 \in 1 .. Len(d) /\ l + 0 = l /\ 1 + l = l + 1
      BY <1>1, <2>2
    <3>2. e[l + 0] = c[l] /\ e[1 + l] = d[1]
      BY <1>2, <3>1 DEF Shifted, l
    <3> QED
      BY <3>1, <3>2
  <2>4. x + 1 = l /\ x + 2 = l + 1 /\ u.pos[m + 1] = x + 2
    BY <1>1, <1>6, <2>2
  <2>5. Link(u, e, m)
    BY <1>1, <1>5, <1>6, <2>2, <2>3, <2>4 DEF Link
  <2>6. w.n > 1 => Within(u, m)
    BY <1>6, <2>2 DEF Within
  <2>7. v.n > 1 => Within(u, m + 1)
    BY <1>6, <2>2 DEF Within
  <2> QED
    BY <1>7, <1>8, <1>9, <2>5, <2>6, <2>7 DEF Step, e
<1>10. CASE m \notin w.pr
  <2>1. CrossFits(w, c, v)
    BY <1>10 DEF PeerFits
  <2>2. /\ l = x /\ v.pos[1] = 0 /\ m > 1 /\ v.n > 1 /\ Linked(w, m - 1) /\ Linked(v, 1) /\ v.ia[1] = w.ia[m]
        /\ <<LinkType[In(w, m)], LinkType[Eg(v, 1)]>> \in acrossSegments
    BY <2>1 DEF CrossFits, l, x
  <2>3. Linked(u, m - 1)
    <3> DEFINE j == m - 1
    <3>1. j \in 1 .. (w.n - 1) /\ j = j + 0 /\ Linked(w, j)
      BY <1>1, <2>2
    <3> HIDE DEF j
    <3>2. Linked(u, j)
      BY <1>2, <3>1, PartStep
    <3> QED
      BY <3>2 DEF j
  <2>4. Linked(u, m + 1)
    <3> DEFINE j == m + 1
               i == 1
    <3>1. i \in 1 .. (v.n - 1) /\ j = i + m /\ Linked(v, i)
      BY <1>1, <2>2
    <3> HIDE DEF i, j
    <3>2. Linked(u, j)
      BY <1>1, <1>2, <3>1, PartStep
    <3> QED
      BY <3>2 DEF j
  <2>5. 1 < m /\ m + 1 < u.n /\ u.pos[m + 1] = x
    BY <1>1, <1>2, <1>6, <2>2
  <2>6. Switch(u, m)
    BY <1>5, <1>6, <2>2, <2>3, <2>4, <2>5 DEF Switch
  <2> QED
    BY <1>7, <1>8, <1>10, <2>6 DEF Step, e
<1> QED
  BY <1>9, <1>10

\* Two walks that fit make a walk.
LEMMA JoinWalk ==
  ASSUME NEW w, NEW c, NEW v, NEW d, Walk(w, c), Walk(v, d), PeerFits(w, c, v) \/ CrossFits(w, c, v),
         NEW u, u = Join(w, c, v)
  PROVE  /\ Walk(u, c \o d) /\ u.n = w.n + v.n /\ u.pos[1] = w.pos[1] /\ u.pos[u.n] = v.pos[v.n] + Len(c)
         /\ u.sg[u.n] = v.sg[v.n] + w.sg[w.n] /\ Len(c \o d) = Len(c) + Len(d)
<1> DEFINE m == w.n
           k == v.n
           n == u.n
           z == w.sg[w.n]
           l == Len(c)
           e == c \o d
<1>1. /\ m \in Nat /\ m > 0 /\ k \in Nat /\ k > 0 /\ l \in Nat /\ Len(d) \in Nat /\ z \in Nat
      /\ \A h \in 1 .. m : w.pos[h] \in Nat /\ w.pos[h] <= l /\ w.sg[h] \in Nat /\ 1 <= w.sg[h] /\ w.sg[h] <= z
      /\ \A h \in 1 .. k : v.pos[h] \in Nat /\ v.pos[h] <= Len(d) /\ v.sg[h] \in Nat /\ 1 <= v.sg[h] /\ v.sg[h] <= v.sg[k]
  BY DEF Walk
<1>2. /\ w.sg[1] = 1 /\ w.pos[1] \in {0, 1} /\ Len(d) \in {v.pos[k], v.pos[k] + 1}
      /\ w.pos[1] = 1 => c[1] = In(w, 1)
      /\ Len(d) = v.pos[k] + 1 => d[Len(d)] = Eg(v, k)
  BY DEF Walk
<1>3. /\ n = m + k /\ Part(u, w, 0, 0, 0) /\ Part(u, v, m, z, l)
      /\ e \in Seq(Interfaces) /\ Len(e) = l + Len(d)
      /\ Shifted(e, c, 0) /\ Shifted(e, d, l)
  BY JoinParts
<1>4. /\ Step(u, e, m)
      /\ m > 1 /\ Linked(u, m) => Within(u, m)
      /\ k > 1 /\ Linked(u, m) => Within(u, m + 1)
  BY JoinMiddle
<1>5. ASSUME NEW h \in 1 .. (m - 1)
      PROVE  Step(u, e, h) /\ (h > 1 /\ Linked(u, h - 1) /\ Linked(u, h) => Within(u, h))
  <2>1. h = h + 0 /\ m + 0 <= u.n /\ u.n \in Nat /\ h \in Nat
    BY <1>1, <1>3
  <2> HIDE DEF e
  <2>2. /\ Step(u, e, h) /\ (Linked(u, h) <=> Linked(w, h))
        /\ h > 1 /\ Linked(w, h - 1) /\ Linked(w, h) => Within(u, h)
    BY <1>3, <2>1, PartWalk
  <2>3. h > 1 => (Linked(u, h - 1) <=> Linked(w, h - 1))
    <3> DEFINE j == h - 1
    <3>1. h > 1 => j \in 1 .. (w.n - 1) /\ j = j + 0
      BY <1>1
    <3> HIDE DEF j
    <3>2. h > 1 => (Linked(u, j) <=> Linked(w, j))
      BY <1>3, <3>1, PartStep
    <3> QED
      BY <3>2 DEF j
  <2> QED
    BY <2>2, <2>3
<1>6. ASSUME NEW h \in (m + 1) .. (n - 1)
      PROVE  Step(u, e, h) /\ (h > m + 1 /\ Linked(u, h - 1) /\ Linked(u, h) => Within(u, h))
  <2> DEFINE g == h - m
  <2>0. m \in Nat /\ k \in Nat /\ n = m + k /\ h \in (m + 1) .. (n - 1)
    BY <1>1, <1>3
  <2>1. /\ g \in 1 .. (k - 1) /\ h = g + m /\ k + m <= n /\ n \in Nat /\ g \in Nat
        /\ (h > m + 1) <=> (g > 1)
    <3> HIDE DEF m, k, n
    <3> QED
      BY ONLY <2>0
  <2> HIDE DEF e, g, l, z
  <2>2. /\ Step(u, e, h) /\ (Linked(u, h) <=> Linked(v, g))
        /\ g > 1 /\ Linked(v, g - 1) /\ Linked(v, g) => Within(u, h)
    <3>1. Part(u, v, m, z, l) /\ m \in Nat /\ z \in Nat /\ l \in Nat /\ u.n \in Nat /\ v.n + m <= u.n /\ Shifted(e, d, l)
          /\ Walk(v, d) /\ g \in 1 .. (v.n - 1) /\ h = g + m
      BY <1>1, <1>3, <2>0, <2>1
    <3> QED
      BY ONLY <3>1, PartWalk
  <2>3. g > 1 => (Linked(u, h - 1) <=> Linked(v, g - 1))
    <3> DEFINE j == g - 1
               i == h - 1
    <3>1. g > 1 => j \in 1 .. (k - 1) /\ i = j + m
      <4> HIDE DEF m, k, n
      <4> QED
        BY ONLY <2>0, <2>1
    <3> HIDE DEF j, i
    <3>2. g > 1 => (Linked(u, i) <=> Linked(v, j))
      BY <1>1, <1>3, <3>1, PartStep
    <3> QED
      BY <3>2 DEF j, i
  <2> QED
    BY <2>1, <2>2, <2>3
<1>7. \A h \in 1 .. (n - 1) : Step(u, e, h)
  <2> SUFFICES ASSUME NEW h \in 1 .. (n - 1) PROVE Step(u, e, h)
    OBVIOUS
  <2> HIDE DEF e, m, n
  <2>1. h \in 1 .. (m - 1) \/ h = m \/ h \in (m + 1) .. (n - 1)
    BY <1>1, <1>3
  <2> QED
    BY <1>4, <1>5, <1>6, <2>1
<1>8. \A h \in 2 .. (n - 1) : Linked(u, h - 1) /\ Linked(u, h) => Within(u, h)
  <2> SUFFICES ASSUME NEW h \in 2 .. (n - 1), Linked(u, h - 1), Linked(u, h) PROVE Within(u, h)
    OBVIOUS
  <2> HIDE DEF e, m, n, k
  <2>1. \/ h \in 1 .. (m - 1) /\ h > 1
        \/ h = m /\ m > 1
        \/ h = m + 1 /\ k > 1 /\ h - 1 = m
        \/ h \in (m + 1) .. (n - 1) /\ h > m + 1
    BY <1>1, <1>3
  <2> QED
    BY <1>4, <1>5, <1>6, <2>1
<1>9. \A h \in 1 .. m : u.pos[h] = w.pos[h] /\ u.sg[h] = w.sg[h] /\ In(u, h) = In(w, h)
  <2> SUFFICES ASSUME NEW h \in 1 .. m PROVE u.pos[h] = w.pos[h] /\ u.sg[h] = w.sg[h] /\ In(u, h) = In(w, h)
    OBVIOUS
  <2>1. SameHop(u, h + 0, w, h, 0, 0)
    BY <1>3 DEF Part
  <2>2. h + 0 = h
    BY <1>1
  <2>3. SameHop(u, h, w, h, 0, 0)
    BY <2>1, <2>2
  <2>4. u.pos[h] = w.pos[h] + 0 /\ u.sg[h] = w.sg[h] + 0 /\ In(u, h) = In(w, h)
    BY <2>3 DEF SameHop
  <2> QED
    BY <1>1, <2>4
<1>10. \A g \in 1 .. k : u.pos[g + m] = v.pos[g] + l /\ u.sg[g + m] = v.sg[g] + z /\ Eg(u, g + m) = Eg(v, g)
  <2> HIDE DEF l, z, m
  <2> QED
    BY <1>3 DEF Part, SameHop
<1>11. \A h \in 1 .. n : \/ h \in 1 .. m
                         \/ \E g \in 1 .. k : h = g + m
  <2> SUFFICES ASSUME NEW h \in 1 .. n, ~(h \in 1 .. m) PROVE \E g \in 1 .. k : h = g + m
    OBVIOUS
  <2>0. m \in Nat /\ k \in Nat /\ n = m + k /\ h \in 1 .. n /\ h > m
    <3>1. m \in Nat /\ k \in Nat /\ n = m + k /\ h \in 1 .. n /\ ~(h \in 1 .. m)
      BY <1>1, <1>3
    <3> HIDE DEF m, k, n
    <3> QED
      BY ONLY <3>1
  <2> HIDE DEF m, k, n
  <2>1. h - m \in 1 .. k /\ h = (h - m) + m
    BY ONLY <2>0
  <2> QED
    BY <2>1
<1>12. u.sg[n] = v.sg[k] + z /\ u.pos[n] = v.pos[k] + l /\ Eg(u, n) = Eg(v, k)
  <2>1. n = k + m /\ k \in 1 .. k
    BY <1>1, <1>3
  <2> HIDE DEF n, m, k, l, z
  <2> QED
    BY <1>10, <2>1
<1>13. \A h \in 1 .. n : /\ u.pos[h] \in Nat /\ u.pos[h] <= Len(e)
                         /\ u.sg[h] \in Nat /\ 1 <= u.sg[h] /\ u.sg[h] <= u.sg[n]
  <2> SUFFICES ASSUME NEW h \in 1 .. n
               PROVE  /\ u.pos[h] \in Nat /\ u.pos[h] <= Len(e)
                      /\ u.sg[h] \in Nat /\ 1 <= u.sg[h] /\ u.sg[h] <= u.sg[n]
    OBVIOUS
  <2> HIDE DEF e, l, z, m, k, n
  <2>1. v.sg[k] \in Nat
    BY <1>1
  <2>4. /\ l \in Nat /\ Len(d) \in Nat /\ z \in Nat /\ v.sg[k] \in Nat
        /\ u.sg[n] = v.sg[k] + z /\ Len(e) = l + Len(d)
    BY <1>1, <1>3, <1>12, <2>1
  <2>2. CASE h \in 1 .. m
    <3>1. u.pos[h] = w.pos[h] /\ u.sg[h] = w.sg[h]
      BY <1>9, <2>2
    <3>2. w.pos[h] \in Nat /\ w.pos[h] <= l /\ w.sg[h] \in Nat /\ 1 <= w.sg[h] /\ w.sg[h] <= z
      BY <1>1, <2>2
    <3> DEFINE x == u.pos[h]
               y == u.sg[h]
               a == u.sg[n]
               i == w.pos[h]
               j == w.sg[h]
               b == v.sg[k]
               f == Len(d)
               g == Len(e)
    <3>3. /\ x = i /\ y = j /\ i \in Nat /\ i <= l /\ j \in Nat /\ 1 <= j /\ j <= z /\ l \in Nat
          /\ z \in Nat /\ f \in Nat /\ b \in Nat /\ a = b + z /\ g = l + f
      BY <2>4, <3>1, <3>2
    <3> HIDE DEF x, y, a, i, j, b, f, g
    <3>4. x \in Nat /\ x <= g /\ y \in Nat /\ 1 <= y /\ y <= a
      BY ONLY <3>3
    <3> QED
      BY <3>4 DEF x, y, a, g
  <2>3. ASSUME NEW g \in 1 .. k, h = g + m 
        PROVE  /\ u.pos[h] \in Nat /\ u.pos[h] <= Len(e)
               /\ u.sg[h] \in Nat /\ 1 <= u.sg[h] /\ u.sg[h] <= u.sg[n]
    <3>1. u.pos[h] = v.pos[g] + l /\ u.sg[h] = v.sg[g] + z
      BY <1>10, <2>3
    <3>2. v.pos[g] \in Nat /\ v.pos[g] <= Len(d) /\ v.sg[g] \in Nat /\ 1 <= v.sg[g] /\ v.sg[g] <= v.sg[k]
      BY <1>1
    <3> DEFINE x == u.pos[h]
               y == u.sg[h]
               a == u.sg[n]
               i == v.pos[g]
               j == v.sg[g]
               b == v.sg[k]
               f == Len(d)
               q == Len(e)
    <3>3. /\ x = i + l /\ y = j + z /\ i \in Nat /\ i <= f /\ j \in Nat /\ 1 <= j /\ j <= b /\ l \in Nat
          /\ z \in Nat /\ f \in Nat /\ b \in Nat /\ a = b + z /\ q = l + f
      BY <2>4, <3>1, <3>2
    <3> HIDE DEF x, y, a, i, j, b, f, q
    <3>4. x \in Nat /\ x <= q /\ y \in Nat /\ 1 <= y /\ y <= a
      BY ONLY <3>3
    <3> QED
      BY <3>4 DEF x, y, a, q
  <2> QED
    BY <1>11, <2>2, <2>3
<1>14. u.sg[1] = 1 /\ u.pos[1] = w.pos[1] /\ In(u, 1) = In(w, 1)
  BY <1>1, <1>2, <1>9
<1>15. u.pos[1] = 1 => e[1] = In(u, 1)
  <2> SUFFICES ASSUME u.pos[1] = 1 PROVE e[1] = In(u, 1)
    OBVIOUS
  <2>1. 1 \in 1 .. l /\ c[1] = In(w, 1) /\ 1 + 0 = 1
    BY <1>1, <1>2, <1>14
  <2>2. e[1 + 0] = c[1]
    BY <1>3, <2>1 DEF Shifted
  <2> QED
    BY <1>14, <2>1, <2>2
<1>16. Len(e) \in {u.pos[n], u.pos[n] + 1}
  <2>1. /\ l \in Nat /\ v.pos[k] \in Nat /\ Len(d) \in {v.pos[k], v.pos[k] + 1}
        /\ u.pos[n] = v.pos[k] + l /\ Len(e) = l + Len(d)
    BY <1>1, <1>2, <1>3, <1>12
  <2> DEFINE x == u.pos[n]
             y == v.pos[k]
             f == Len(d)
             q == Len(e)
  <2>2. l \in Nat /\ y \in Nat /\ f \in {y, y + 1} /\ x = y + l /\ q = l + f
    BY <2>1
  <2> HIDE DEF x, y, f, q, l
  <2>3. q \in {x, x + 1}
    BY ONLY <2>2
  <2> QED
    BY <2>3 DEF x, q
<1>17. Len(e) = u.pos[n] + 1 => e[Len(e)] = Eg(u, n)
  <2> SUFFICES ASSUME Len(e) = u.pos[n] + 1 PROVE e[Len(e)] = Eg(u, n)
    OBVIOUS
  <2> DEFINE x == Len(d)
  <2>1. v.pos[k] \in Nat
    BY <1>1
  <2> HIDE DEF e, l, n, m, k, z
  <2>5. x \in Nat /\ l \in Nat /\ Len(e) = l + x /\ Len(e) = u.pos[n] + 1 /\ u.pos[n] = v.pos[k] + l
    BY <1>1, <1>3, <1>12
  <2>2. x = v.pos[k] + 1 /\ x \in 1 .. x /\ Len(e) = x + l
    <3> DEFINE y == v.pos[k]
               a == u.pos[n]
               q == Len(e)
    <3>1. x \in Nat /\ y \in Nat /\ l \in Nat /\ q = l + x /\ q = a + 1 /\ a = y + l
      BY <2>1, <2>5
    <3> HIDE DEF x, y, a, q
    <3>2. x = y + 1 /\ x \in 1 .. x /\ q = x + l
      BY ONLY <3>1
    <3> QED
      BY <3>2 DEF y, q
  <2>3. d[x] = Eg(v, k)
    BY <1>2, <2>2
  <2>4. e[x + l] = d[x]
    BY <1>3, <2>2 DEF Shifted
  <2> QED
    BY <1>12, <2>2, <2>3, <2>4
<1>18. n \in Nat /\ n > 0
  BY <1>1, <1>3
<1> HIDE DEF e, l, z, m, k
<1>19. Walk(u, e)
  BY <1>3, <1>7, <1>8, <1>13, <1>14, <1>15, <1>16, <1>17, <1>18, <1>2 DEF Walk, Step, Within
<1> QED
  BY <1>3, <1>12, <1>14, <1>19 DEF e, l, z, m, k

---------------------------------------------------------------------------
(* Edges of the graph of segments.                                           *)

\* The vertex of an edge at the entry where it leaves its segment.
Far(e) ==
  IF e.peer = NoPeer THEN vertexFromIA(e.seg.entries[e.shortcut + 1].local)
  ELSE vertexFromPeering(<<e.seg.entries[e.shortcut + 1].local, e.peer.hop.in>>, <<e.peer.peer, e.peer.peerIf>>)

\* The links on the way of the beacon of a segment.
Beaconed(e) == IF e.typ = "core" THEN "core" ELSE "child"

Uses(e) ==
  /\ e.typ \in {"up", "core", "down"} /\ IsUse(e, Beaconed(e))
  /\ e.typ # "down" => e.src = vertexFromIA(LastIA(e.seg)) /\ e.dst = Far(e)
  /\ e.typ = "down" => e.src = ReverseVertex(Far(e)) /\ e.dst = vertexFromIA(LastIA(e.seg))

\* An up edge of the graph is a legal use of its segment and ends at its far vertex.
LEMMA UpEdgeUses ==
  ASSUME NEW s, IsSegment(s, "child"), NEW e, e \in UpEdges(s)
  PROVE  /\ e = Edge("up", s, e.shortcut, e.peer, e.src, e.dst)
         /\ IsUse(e, "child") /\ e.src = vertexFromIA(LastIA(s)) /\ e.dst = Far(e)
<1> DEFINE m == Len(s.entries)
           entry(i) == s.entries[i + 1]
           pinned == vertexFromIA(LastIA(s))
<1>1. m \in Nat /\ m >= 2
  BY DEF IsSegment, IsPseg, IsSeq
<1>2. CASE \E i \in 0 .. (m - 2) : e = Edge("up", s, i, NoPeer, pinned, vertexFromIA(entry(i).local))
  <2>1. PICK i \in 0 .. (m - 2) : e = Edge("up", s, i, NoPeer, pinned, vertexFromIA(entry(i).local))
    BY <1>2
  <2>2. /\ e.typ = "up" /\ e.seg = s /\ e.shortcut = i /\ e.peer = NoPeer /\ e.src = pinned
        /\ e.dst = vertexFromIA(entry(i).local)
    BY <2>1 DEF Edge
  <2>3. i \in 0 .. (m - 1) /\ i < m - 1
    BY <1>1
  <2>4. IsUse(e, "child")
    BY <2>2, <2>3 DEF IsUse
  <2> QED
    BY <2>1, <2>2, <2>4 DEF Far
<1>3. CASE \E i \in 0 .. (m - 1) : \E q \in entry(i).peers :
              e = Edge("up", s, i, q, pinned, vertexFromPeering(<<entry(i).local, q.hop.in>>, <<q.peer, q.peerIf>>))
  <2>0. PICK i \in 0 .. (m - 1) : \E q \in entry(i).peers :
              e = Edge("up", s, i, q, pinned, vertexFromPeering(<<entry(i).local, q.hop.in>>, <<q.peer, q.peerIf>>))
    BY <1>3
  <2>1. PICK q \in entry(i).peers :
              e = Edge("up", s, i, q, pinned, vertexFromPeering(<<entry(i).local, q.hop.in>>, <<q.peer, q.peerIf>>))
    BY <2>0
  <2>2. /\ e.typ = "up" /\ e.seg = s /\ e.shortcut = i /\ e.peer = q /\ e.src = pinned
        /\ e.dst = vertexFromPeering(<<entry(i).local, q.hop.in>>, <<q.peer, q.peerIf>>)
    BY <2>1 DEF Edge
  <2>3. \E j \in PeersOf(entry(i).local) : q = createPeerEntry(j, entry(i).hop.eg, s.ts, BetaAfter(s, i + 1))
    <3> DEFINE k == i + 1
    <3>1. k \in 1 .. m
      BY <1>1
    <3> HIDE DEF k
    <3>2. Entry(s, k, s.entries[k].local, s.entries[k].hop.in, s.entries[k].hop.eg)
      BY <3>1 DEF IsSegment
    <3>3. s.entries[k].peers = {createPeerEntry(j, s.entries[k].hop.eg, s.ts, BetaAfter(s, k)) : j \in PeersOf(s.entries[k].local)}
      BY <3>2 DEF Entry
    <3>4. q \in s.entries[k].peers
      BY <2>1 DEF k
    <3>5. \E j \in PeersOf(s.entries[k].local) : q = createPeerEntry(j, s.entries[k].hop.eg, s.ts, BetaAfter(s, k))
      BY <3>3, <3>4
    <3> QED
      BY <3>5 DEF k
  <2>4. q # NoPeer
    <3>1. PICK j : q = createPeerEntry(j, entry(i).hop.eg, s.ts, BetaAfter(s, i + 1))
      BY <2>3
    <3>2. "peerIf" \in DOMAIN q
      BY <3>1 DEF createPeerEntry
    <3>3. "peerIf" \notin DOMAIN NoPeer
      BY DEF NoPeer
    <3> QED
      BY <3>2, <3>3
  <2>5. IsUse(e, "child")
    BY <2>2, <2>3, <2>4 DEF IsUse
  <2> QED
    BY <2>1, <2>2, <2>4, <2>5 DEF Far
<1> QED
  BY <1>2, <1>3 DEF UpEdges

\* So is a down edge, the other way round.
LEMMA DownEdgeUses ==
  ASSUME NEW s, IsSegment(s, "child"), NEW f, f \in DownEdges(s)
  PROVE  Uses(f)
<1>1. PICK e \in UpEdges(s) : f = AsDown(e)
  BY DEF DownEdges
<1>2. /\ e = Edge("up", s, e.shortcut, e.peer, e.src, e.dst)
      /\ IsUse(e, "child") /\ e.src = vertexFromIA(LastIA(s)) /\ e.dst = Far(e)
  BY UpEdgeUses
<1>3. e = [typ |-> "up", seg |-> s, shortcut |-> e.shortcut, peer |-> e.peer, src |-> e.src, dst |-> e.dst]
  BY <1>2 DEF Edge
<1>4. /\ f.typ = "down" /\ f.seg = s /\ f.shortcut = e.shortcut /\ f.peer = e.peer
      /\ f.src = ReverseVertex(e.dst) /\ f.dst = ReverseVertex(e.src) /\ e.seg = s
  BY <1>1, <1>3 DEF AsDown
<1>5. IsUse(f, "child") /\ Far(f) = Far(e)
  BY <1>2, <1>4 DEF IsUse, Far
<1>6. ReverseVertex(vertexFromIA(LastIA(s))) = vertexFromIA(LastIA(s))
  BY DEF ReverseVertex, vertexFromIA
<1> QED
  BY <1>2, <1>4, <1>5, <1>6 DEF Uses, Beaconed

\* So is a core edge.
LEMMA CoreEdgeUses ==
  ASSUME NEW s, IsSegment(s, "core"), NEW e, e \in CoreEdges(s)
  PROVE  Uses(e)
<1>1. e = Edge("core", s, 0, NoPeer, vertexFromIA(LastIA(s)), vertexFromIA(s.entries[1].local))
  BY DEF CoreEdges
<1>2. /\ e.typ = "core" /\ e.seg = s /\ e.shortcut = 0 /\ e.peer = NoPeer
      /\ e.src = vertexFromIA(LastIA(s)) /\ e.dst = vertexFromIA(s.entries[1].local)
  BY <1>1 DEF Edge
<1>3. Len(s.entries) \in Nat /\ Len(s.entries) >= 2
  BY DEF IsSegment, IsPseg, IsSeq
<1>4. IsUse(e, "core")
  BY <1>2, <1>3 DEF IsUse
<1>5. Far(e) = vertexFromIA(s.entries[1].local)
  <2>1. 0 + 1 = 1
    OBVIOUS
  <2> QED
    BY <1>2, <2>1 DEF Far
<1> QED
  BY <1>2, <1>4, <1>5 DEF Uses, Beaconed

\* Every edge is a use of a segment.
LEMMA EdgeUses ==
  ASSUME NEW ups, NEW cores, NEW downs, \A s \in ups \cup downs : IsSegment(s, "child"), \A s \in cores : IsSegment(s, "core"),
         NEW e, e \in newDMG(ups, cores, downs)
  PROVE  Uses(e)
<1>1. CASE \E s \in ups : e \in UpEdges(s)
  <2>1. PICK s \in ups : e \in UpEdges(s)
    BY <1>1
  <2>2. /\ e = Edge("up", s, e.shortcut, e.peer, e.src, e.dst)
        /\ IsUse(e, "child") /\ e.src = vertexFromIA(LastIA(s)) /\ e.dst = Far(e)
    BY <2>1, UpEdgeUses
  <2>3. e.typ = "up" /\ e.seg = s
    BY <2>2 DEF Edge
  <2> QED
    BY <2>2, <2>3 DEF Uses, Beaconed
<1>2. CASE \E s \in cores : e \in CoreEdges(s)
  BY <1>2, CoreEdgeUses
<1>3. CASE \E s \in downs : e \in DownEdges(s)
  BY <1>3, DownEdgeUses
<1>4. \/ e \in UNION {UpEdges(s) : s \in ups}
      \/ e \in UNION {CoreEdges(s) : s \in cores}
      \/ e \in UNION {DownEdges(s) : s \in downs}
  <2> DEFINE A == UNION {UpEdges(s) : s \in ups}
             B == UNION {CoreEdges(s) : s \in cores}
             D == UNION {DownEdges(s) : s \in downs}
  <2>1. newDMG(ups, cores, downs) = (A \cup B) \cup D
    BY DEF newDMG
  <2> HIDE DEF A, B, D
  <2>2. e \in A \/ e \in B \/ e \in D
    BY <2>1
  <2> QED
    BY <2>2 DEF A, B, D
<1>5. e \in UNION {UpEdges(s) : s \in ups} => \E s \in ups : e \in UpEdges(s)
  OBVIOUS
<1>6. e \in UNION {CoreEdges(s) : s \in cores} => \E s \in cores : e \in CoreEdges(s)
  OBVIOUS
<1>7. e \in UNION {DownEdges(s) : s \in downs} => \E s \in downs : e \in DownEdges(s)
  OBVIOUS
<1> QED
  BY <1>1, <1>2, <1>3, <1>4, <1>5, <1>6, <1>7

---------------------------------------------------------------------------
(* The walk of an edge.                                                      *)

EdgeWalk(e) == IF e.typ = "down" THEN Turn(UpWalk(e), UpIntfs(e)) ELSE UpWalk(e)

\* The ends of the walk w of edge e, with the interfaces c.
EndsAs(e, w, c) ==
  /\ w.n \in Nat /\ w.n >= 1 /\ (e.peer = NoPeer => w.n > 1)
  /\ \A h \in 1 .. w.n : w.sg[h] = 1
  /\ w.pos[1] = (IF e.peer # NoPeer /\ e.typ = "down" THEN 1 ELSE 0)
  /\ Len(c) = w.pos[w.n] + (IF e.peer # NoPeer /\ e.typ # "down" THEN 1 ELSE 0)
  /\ w.pr = (IF e.peer = NoPeer THEN {} ELSE IF e.typ = "down" THEN {1} ELSE {w.n})
  /\ e.typ = "up" /\ w.n > 1 => LinkType[Eg(w, 1)] = "parent" /\ LinkType[In(w, w.n)] = "child"
  /\ e.typ = "core" /\ w.n > 1 => LinkType[Eg(w, 1)] = "core" /\ LinkType[In(w, w.n)] = "core"
  /\ e.typ = "down" /\ w.n > 1 => LinkType[Eg(w, 1)] = "child" /\ LinkType[In(w, w.n)] = "parent"
  /\ e.typ # "down" => /\ w.ia[1] = LastIA(e.seg)
                       /\ w.ia[w.n] = e.seg.entries[e.shortcut + 1].local
  /\ e.typ = "down" => /\ w.ia[1] = e.seg.entries[e.shortcut + 1].local
                       /\ w.ia[w.n] = LastIA(e.seg)
  /\ e.peer # NoPeer =>
        LET i == IF e.typ = "down" THEN In(w, 1) ELSE Eg(w, w.n)
        IN  /\ i \in Interfaces /\ LinkType[i] = "peer" /\ Remote[i] = <<e.peer.peer, e.peer.peerIf>>
            /\ i = <<e.seg.entries[e.shortcut + 1].local, e.peer.hop.in>>

\* A segment used with a peer entry ends in the peering interface of that entry.
LEMMA UpPeer ==
  ASSUME NEW e, NEW type, IsUse(e, type), e.peer # NoPeer
  PROVE  LET w == UpWalk(e)
             i == Eg(w, w.n)
         IN  /\ i \in Interfaces /\ LinkType[i] = "peer" /\ Remote[i] = <<e.peer.peer, e.peer.peerIf>>
             /\ i = <<e.seg.entries[e.shortcut + 1].local, e.peer.hop.in>>
<1> DEFINE w == UpWalk(e)
           n == w.n
           k == Len(e.seg.entries) + 1 - n
<1>1. w.n \in Nat /\ w.n >= 1 /\ w.pr = {w.n}
  BY UpWalkIs
<1>2. n \in 1 .. UpWalk(e).n /\ k = Len(e.seg.entries) + 1 - n
  BY <1>1
<1> HIDE DEF n, k
<1>3. (n = UpWalk(e).n <=> k = e.shortcut + 1) /\ UpHop(e, UpWalk(e), n, k)
  BY <1>2, UpHopFacts
<1>4. n = w.n /\ n \in w.pr
  BY <1>1 DEF n
<1>5. k = e.shortcut + 1
  BY <1>3, <1>4
<1>6. /\ Eg(w, n) \in Interfaces /\ LinkType[Eg(w, n)] = "peer"
      /\ Eg(w, n) = <<e.seg.entries[k].local, e.peer.hop.in>>
      /\ Remote[Eg(w, n)] = <<e.peer.peer, e.peer.peerIf>>
  BY <1>3, <1>4 DEF UpHop
<1> QED
  BY <1>4, <1>5, <1>6

\* The walk of an edge that leads towards the origin of the beacon.
LEMMA UpwardEnds ==
  ASSUME NEW e, Uses(e), e.typ # "down"
  PROVE  EndsAs(e, UpWalk(e), UpIntfs(e))
<1> DEFINE w == UpWalk(e)
           c == UpIntfs(e)
           t == Beaconed(e)
<1>1. IsUse(e, t) /\ e.typ \in {"up", "core", "down"}
  BY DEF Uses
<1>2. /\ w.pos[1] = 0 /\ Len(c) = (IF e.peer = NoPeer THEN w.pos[w.n] ELSE w.pos[w.n] + 1)
      /\ \A h \in 1 .. w.n : w.sg[h] = 1
      /\ w.pr = IF e.peer = NoPeer THEN {} ELSE {w.n}
      /\ w.n \in Nat /\ w.n >= 1 /\ (e.peer = NoPeer => w.n > 1)
      /\ w.ia[1] = LastIA(e.seg) /\ w.ia[w.n] = e.seg.entries[e.shortcut + 1].local
      /\ w.n > 1 => LinkType[Eg(w, 1)] = Opposite(t) /\ LinkType[In(w, w.n)] = t
  BY <1>1, UpWalkIs
<1>3. e.peer # NoPeer =>
        LET i == Eg(w, w.n)
        IN  /\ i \in Interfaces /\ LinkType[i] = "peer" /\ Remote[i] = <<e.peer.peer, e.peer.peerIf>>
            /\ i = <<e.seg.entries[e.shortcut + 1].local, e.peer.hop.in>>
  BY <1>1, UpPeer
<1>4. w.pos[w.n] \in Nat
  <2>1. Walk(w, c)
    BY <1>1, UpWalkIs
  <2> QED
    BY <1>2, <2>1 DEF Walk
<1> HIDE DEF w, c, t
<1>5. Len(c) = w.pos[w.n] + (IF e.peer # NoPeer /\ e.typ # "down" THEN 1 ELSE 0)
  BY <1>2, <1>4
<1>6. w.pos[1] = (IF e.peer # NoPeer /\ e.typ = "down" THEN 1 ELSE 0)
  BY <1>2
<1>7. /\ e.typ = "up" /\ w.n > 1 => LinkType[Eg(w, 1)] = "parent" /\ LinkType[In(w, w.n)] = "child"
      /\ e.typ = "core" /\ w.n > 1 => LinkType[Eg(w, 1)] = "core" /\ LinkType[In(w, w.n)] = "core"
  BY <1>2 DEF t, Beaconed, Opposite
<1>8. w.pr = (IF e.peer = NoPeer THEN {} ELSE IF e.typ = "down" THEN {1} ELSE {w.n})
  BY <1>2
<1>9. EndsAs(e, w, c)
  BY <1>2, <1>3, <1>5, <1>6, <1>7, <1>8 DEF EndsAs
<1> QED
  BY <1>9 DEF w, c

\* Where the walk of a down edge starts and ends.
LEMMA DownwardEnds ==
  ASSUME NEW e, Uses(e), e.typ = "down"
  PROVE  EndsAs(e, Turn(UpWalk(e), UpIntfs(e)), Reverse(UpIntfs(e)))
<1> DEFINE w == UpWalk(e)
           c == UpIntfs(e)
           v == Turn(w, c)
           d == Reverse(c)
           n == w.n
<1>1. IsUse(e, "child")
  BY DEF Uses, Beaconed
<1>2. /\ w.pos[1] = 0 /\ Len(c) = (IF e.peer = NoPeer THEN w.pos[n] ELSE w.pos[n] + 1)
      /\ \A h \in 1 .. w.n : w.sg[h] = 1
      /\ w.pr = IF e.peer = NoPeer THEN {} ELSE {n}
      /\ n \in Nat /\ n >= 1 /\ (e.peer = NoPeer => n > 1)
      /\ w.ia[1] = LastIA(e.seg) /\ w.ia[n] = e.seg.entries[e.shortcut + 1].local
      /\ n > 1 => LinkType[Eg(w, 1)] = "parent" /\ LinkType[In(w, n)] = "child"
      /\ Walk(w, c)
  BY <1>1, UpWalkIs DEF Opposite
<1>3. e.peer # NoPeer =>
        LET i == Eg(w, w.n)
        IN  /\ i \in Interfaces /\ LinkType[i] = "peer" /\ Remote[i] = <<e.peer.peer, e.peer.peerIf>>
            /\ i = <<e.seg.entries[e.shortcut + 1].local, e.peer.hop.in>>
  BY <1>1, UpPeer
<1>4. /\ v.n = n /\ v.pos[1] = Len(c) - w.pos[n] /\ v.pos[n] = Len(c) - w.pos[1] /\ Walk(v, d) /\ Len(c) \in Nat
      /\ Len(d) = Len(c) /\ w.pos[n] \in Nat
  <2>1. c \in Seq(Interfaces) /\ w.pos[n] \in Nat
    BY <1>2 DEF Walk
  <2>2. IsSeq(c) /\ Len(c) \in Nat
    BY <2>1, SeqTyped DEF IsSeq
  <2> QED
    BY <1>2, <2>1, <2>2, TurnWalk, SeqReverse
<1>5. Mirrors(v, w, c, 1, n) /\ Mirrors(v, w, c, n, 1)
  <2> DEFINE i == 1
             j == n
  <2>1. i \in 1 .. w.n /\ j = w.n + 1 - i /\ j \in 1 .. w.n /\ i = w.n + 1 - j
    BY <1>2
  <2> HIDE DEF i, j, v
  <2>2. Mirrors(v, w, c, i, j) /\ Mirrors(v, w, c, j, i)
    BY <2>1, TurnFields DEF v
  <2> QED
    BY <2>2 DEF i, j
<1>6. \A h \in 1 .. v.n : v.sg[h] = 1
  BY <1>2 DEF Turn
<1>7. v.pr = IF e.peer = NoPeer THEN {} ELSE {1}
  <2>1. v.pr = {h \in 1 .. n : n + 1 - h \in w.pr}
    BY DEF Turn
  <2> HIDE DEF v, n
  <2>2. \A h \in 1 .. n : n + 1 - h = n <=> h = 1
    BY <1>2
  <2> QED
    BY <1>2, <2>1, <2>2
<1> HIDE DEF v, w, c, d, n
<1>8. v.ia[1] = w.ia[n] /\ v.ia[n] = w.ia[1] /\ In(v, 1) = Eg(w, n) /\ Eg(v, 1) = In(w, n) /\ In(v, n) = Eg(w, 1)
  BY <1>5 DEF Mirrors
<1>9. v.pos[1] = (IF e.peer # NoPeer /\ e.typ = "down" THEN 1 ELSE 0)
  BY <1>2, <1>4
<1>10. Len(d) = v.pos[n] + (IF e.peer # NoPeer /\ e.typ # "down" THEN 1 ELSE 0)
  BY <1>2, <1>4
<1>11. e.typ = "down" /\ n > 1 => LinkType[Eg(v, 1)] = "child" /\ LinkType[In(v, n)] = "parent"
  BY <1>2, <1>8
<1>12. e.peer # NoPeer =>
        LET i == IF e.typ = "down" THEN In(v, 1) ELSE Eg(v, v.n)
        IN  /\ i \in Interfaces /\ LinkType[i] = "peer" /\ Remote[i] = <<e.peer.peer, e.peer.peerIf>>
            /\ i = <<e.seg.entries[e.shortcut + 1].local, e.peer.hop.in>>
  BY <1>3, <1>8 DEF n
<1>13. EndsAs(e, v, d)
  BY <1>2, <1>4, <1>6, <1>7, <1>8, <1>9, <1>10, <1>11, <1>12 DEF EndsAs
<1> QED
  BY <1>13 DEF v, d, w, c

\* The walk of an edge, with the hop fields and the interface list of its segment.
LEMMA EdgeWalkIs ==
  ASSUME NEW e, Uses(e)
  PROVE  LET w == EdgeWalk(e)
             c == Segment(e).intfs
         IN  Walk(w, c) /\ Bears(Segment(e), w) /\ EndsAs(e, w, c)
<1> DEFINE t == Beaconed(e)
<1>1. IsUse(e, t)
  BY DEF Uses
<1>2. Walk(UpWalk(e), UpIntfs(e))
  BY <1>1, UpWalkIs
<1> HIDE DEF t
<1>3. CASE e.typ = "down"
  BY <1>1, <1>2, <1>3, DownwardEnds, DownPiece, TurnWalk DEF EdgeWalk
<1>4. CASE e.typ # "down"
  BY <1>1, <1>2, <1>4, UpwardEnds, UpPiece DEF EdgeWalk
<1> QED
  BY <1>3, <1>4

\* An AS is no peering link.
LEMMA Vertices ==
  ASSUME NEW a, NEW x, NEW y, NEW u, NEW v
  PROVE  /\ vertexFromIA(a) # vertexFromPeering(x, y)
         /\ ReverseVertex(vertexFromIA(a)) = vertexFromIA(a)
         /\ ReverseVertex(vertexFromPeering(x, y)) = vertexFromPeering(y, x)
         /\ vertexFromPeering(x, y) = vertexFromPeering(u, v) => x = u /\ y = v
         /\ vertexFromIA(a) = vertexFromIA(x) => a = x
<1>1. "ia" \in DOMAIN vertexFromIA(a) /\ "up" \notin DOMAIN vertexFromIA(a)
  BY DEF vertexFromIA
<1>2. "ia" \notin DOMAIN vertexFromPeering(x, y) /\ "up" \in DOMAIN vertexFromPeering(x, y)
  BY DEF vertexFromPeering
<1>3. vertexFromPeering(x, y).up = x /\ vertexFromPeering(x, y).down = y /\ vertexFromPeering(u, v).up = u /\ vertexFromPeering(u, v).down = v
  BY DEF vertexFromPeering
<1>4. vertexFromIA(a).ia = a /\ vertexFromIA(x).ia = x
  BY DEF vertexFromIA
<1>5. ReverseVertex(vertexFromPeering(x, y)) = [up |-> vertexFromPeering(x, y).down, down |-> vertexFromPeering(x, y).up]
  BY <1>2 DEF ReverseVertex
<1> QED
  BY <1>1, <1>2, <1>3, <1>4, <1>5 DEF ReverseVertex, vertexFromPeering

Follows(e, f) == f.src = e.dst /\ validNextSeg(e, f)

\* Edges that share a vertex share an AS, or a peering link.
LEMMA SharedVertex ==
  ASSUME NEW e, NEW f, Uses(e), Uses(f), Follows(e, f)
  PROVE  /\ e.typ \in {"up", "core"} /\ f.typ \in {"core", "down"}
         /\ <<e.typ, f.typ>> \in {<<"up", "core">>, <<"up", "down">>, <<"core", "down">>}
         /\ e.typ = "core" => e.peer = NoPeer
         /\ f.typ = "core" => f.peer = NoPeer
         /\ e.peer = NoPeer <=> f.peer = NoPeer
         /\ e.peer = NoPeer =>
               e.seg.entries[e.shortcut + 1].local = IF f.typ = "down" THEN f.seg.entries[f.shortcut + 1].local ELSE LastIA(f.seg)
         /\ e.peer # NoPeer => <<f.seg.entries[f.shortcut + 1].local, f.peer.hop.in>> = <<e.peer.peer, e.peer.peerIf>>
<1> DEFINE a == e.seg.entries[e.shortcut + 1].local
           b == f.seg.entries[f.shortcut + 1].local
           x == <<a, e.peer.hop.in>>
           y == <<e.peer.peer, e.peer.peerIf>>
           u == <<b, f.peer.hop.in>>
           v == <<f.peer.peer, f.peer.peerIf>>
<1>1. <<e.typ, f.typ>> \in {<<"up", "core">>, <<"up", "down">>, <<"core", "down">>} /\ f.src = e.dst
  BY DEF Follows, validNextSeg
<1>2. e.typ \in {"up", "core"} /\ f.typ \in {"core", "down"}
  BY <1>1
<1>3. /\ e.typ = "core" => e.peer = NoPeer
      /\ f.typ = "core" => f.peer = NoPeer
  BY DEF Uses, IsUse, Beaconed
<1>4. e.dst = IF e.peer = NoPeer THEN vertexFromIA(a) ELSE vertexFromPeering(x, y)
  BY <1>2 DEF Uses, Far
<1>5. f.typ = "core" => f.src = vertexFromIA(LastIA(f.seg))
  BY DEF Uses
<1>6. f.typ = "down" => f.src = IF f.peer = NoPeer THEN vertexFromIA(b) ELSE vertexFromPeering(v, u)
  <2>1. Far(f) = IF f.peer = NoPeer THEN vertexFromIA(b) ELSE vertexFromPeering(u, v)
    BY DEF Far
  <2> HIDE DEF b, u, v
  <2>2. f.typ = "down" => f.src = ReverseVertex(Far(f))
    BY DEF Uses
  <2> QED
    BY <2>1, <2>2, Vertices
<1> HIDE DEF a, b, x, y, u, v
<1>7. (e.peer = NoPeer <=> f.peer = NoPeer)
  BY <1>1, <1>2, <1>3, <1>4, <1>5, <1>6, Vertices
<1>8. e.peer = NoPeer => a = IF f.typ = "down" THEN b ELSE LastIA(f.seg)
  BY <1>1, <1>2, <1>4, <1>5, <1>6, <1>7, Vertices
<1>9. e.peer # NoPeer => u = y
  BY <1>1, <1>2, <1>3, <1>4, <1>6, <1>7, Vertices
<1> QED
  BY <1>1, <1>2, <1>3, <1>7, <1>8, <1>9 DEF a, b, u, y

\* Edges that follow each other in the graph have walks that fit.
LEMMA EdgesFit ==
  ASSUME NEW e, NEW f, Uses(e), Uses(f), Follows(e, f), NEW w, w = EdgeWalk(e), NEW c, c = Segment(e).intfs,
         NEW v, v = EdgeWalk(f)
  PROVE  /\ e.peer # NoPeer => PeerFits(w, c, v)
         /\ e.peer = NoPeer => CrossFits(w, c, v)
<1> DEFINE d == Segment(f).intfs
<1>1. EndsAs(e, w, c) /\ EndsAs(f, v, d) /\ Walk(w, c) /\ Walk(v, d)
  BY EdgeWalkIs
<1>2. /\ e.typ \in {"up", "core"} /\ f.typ \in {"core", "down"}
      /\ <<e.typ, f.typ>> \in {<<"up", "core">>, <<"up", "down">>, <<"core", "down">>}
      /\ e.typ = "core" => e.peer = NoPeer
      /\ f.typ = "core" => f.peer = NoPeer
      /\ e.peer = NoPeer <=> f.peer = NoPeer
      /\ e.peer = NoPeer =>
            e.seg.entries[e.shortcut + 1].local = IF f.typ = "down" THEN f.seg.entries[f.shortcut + 1].local ELSE LastIA(f.seg)
      /\ e.peer # NoPeer => <<f.seg.entries[f.shortcut + 1].local, f.peer.hop.in>> = <<e.peer.peer, e.peer.peerIf>>
  BY SharedVertex
<1>3. w.n \in Nat /\ v.n \in Nat /\ w.pos[w.n] \in Nat /\ w.n >= 1 /\ v.n >= 1
  BY <1>1 DEF Walk
<1> HIDE DEF d
<1>4. CASE e.peer # NoPeer
  <2>1. e.typ = "up" /\ f.typ = "down" /\ f.peer # NoPeer
    BY <1>2, <1>4
  <2>2. w.pr = {w.n} /\ v.pr = {1} /\ Len(c) = w.pos[w.n] + 1 /\ v.pos[1] = 1
    BY <1>1, <1>4, <2>1 DEF EndsAs
  <2>3. /\ Eg(w, w.n) \in Interfaces /\ LinkType[Eg(w, w.n)] = "peer" /\ Remote[Eg(w, w.n)] = <<e.peer.peer, e.peer.peerIf>>
        /\ LinkType[In(v, 1)] = "peer" /\ In(v, 1) = <<f.seg.entries[f.shortcut + 1].local, f.peer.hop.in>>
    BY <1>1, <1>4, <2>1 DEF EndsAs
  <2>4. w.n > 1 => Within(w, w.n)
    BY <1>1, <2>1, <2>3 DEF EndsAs, Within, withinSegment
  <2>5. v.n > 1 => Within(v, 1)
    BY <1>1, <2>1, <2>3 DEF EndsAs, Within, withinSegment
  <2> QED
    BY <1>2, <1>4, <2>2, <2>3, <2>4, <2>5 DEF PeerFits
<1>5. CASE e.peer = NoPeer
  <2>1. w.pr = {} /\ v.pr = {} /\ Len(c) = w.pos[w.n] /\ v.pos[1] = 0 /\ w.n > 1 /\ v.n > 1
    BY <1>1, <1>2, <1>3, <1>5 DEF EndsAs
  <2>2. v.ia[1] = w.ia[w.n]
    BY <1>1, <1>2, <1>5 DEF EndsAs
  <2>3. Linked(w, w.n - 1)
    <3> DEFINE j == w.n - 1
    <3>1. j \in 1 .. w.n /\ j + 1 = w.n
      BY <1>3, <2>1
    <3>2. w.sg[j] = 1 /\ w.sg[w.n] = 1
      BY <1>1, <1>3, <3>1 DEF EndsAs
    <3> HIDE DEF j
    <3>3. Linked(w, j)
      BY <3>1, <3>2 DEF Linked
    <3> QED
      BY <3>3 DEF j
  <2>4. Linked(v, 1)
    <3>1. v.sg[1] = 1 /\ v.sg[1 + 1] = 1
      BY <1>1, <1>3, <2>1 DEF EndsAs
    <3> QED
      BY <3>1 DEF Linked
  <2>5. <<LinkType[In(w, w.n)], LinkType[Eg(v, 1)]>> \in acrossSegments
    <3>1. /\ LinkType[In(w, w.n)] = IF e.typ = "core" THEN "core" ELSE "child"
          /\ LinkType[Eg(v, 1)] = IF f.typ = "core" THEN "core" ELSE "child"
      BY <1>1, <1>2, <2>1 DEF EndsAs
    <3> QED
      BY <1>2, <3>1 DEF acrossSegments
  <2> QED
    BY <1>5, <2>1, <2>2, <2>3, <2>4, <2>5 DEF CrossFits
<1> QED
  BY <1>4, <1>5

---------------------------------------------------------------------------
(* From solutions to paths.                                                  *)

\* The path of one segment, and a path with one segment more.
Only(g) == [segLen |-> [i \in 1 .. 3 |-> IF i = 1 THEN Len(g.hops) ELSE 0], infos |-> <<g.info>>, hops |-> g.hops,
            currINF |-> 0, currHF |-> 0]

Longer(p, g) == [segLen |-> [i \in 1 .. 3 |-> IF i = Len(p.infos) + 1 THEN Len(g.hops) ELSE p.segLen[i]],
                 infos |-> Append(p.infos, g.info), hops |-> p.hops \o g.hops, currINF |-> 0, currHF |-> 0]

\* Hop h of a path, perhaps of the first segments of a path, says what the walk does.
Says(p, w, h) ==
  LET info == p.infos[w.sg[h]]
      hop == p.hops[h]
  IN  /\ w.sg[h] = infIndexForHF(p, h - 1) + 1
      /\ info.consDir <=> h \in w.cd
      /\ IngressOf(info, hop) = w.in[h] /\ EgressOf(info, hop) = w.eg[h]
      /\ hop.mac = w.mac[h] /\ hop.mac = MAC(w.ia[h], w.beta[h], info.ts, hop.exp, hop.in, hop.eg)
      /\ h \in w.pr <=> (info.peer /\ h - 1 \in {p.segLen[1] - 1, p.segLen[1]})

Laid(p, w) ==
  /\ IsPath(p) /\ p.currINF = 0 /\ p.currHF = 0 /\ Quiet(p)
  /\ Len(p.hops) = w.n /\ w.sg[w.n] = Len(p.infos) /\ w.sg[1] = 1
  /\ p.infos[1].segID = w.beta[1]
  /\ \A h \in 1 .. w.n : Says(p, w, h)
  /\ \A h \in 2 .. w.n : w.sg[h - 1] # w.sg[h] => p.infos[w.sg[h]].segID = w.beta[h]

\* The path of a single segment.
LEMMA OnlyPath ==
  ASSUME NEW g, NEW w, Bears(g, w), w.n \in Nat, w.n >= 1
  PROVE  LET p == Only(g)
         IN  /\ IsPath(p) /\ p.currINF = 0 /\ p.currHF = 0 /\ Len(p.infos) = 1 /\ p.infos[1] = g.info
             /\ p.hops = g.hops /\ p.segLen[1] = w.n /\ p.segLen[2] = 0 /\ p.segLen[3] = 0
             /\ \A h \in 1 .. w.n : infIndexForHF(p, h - 1) = 0
<1> DEFINE p == Only(g)
           n == w.n
<1>1. IsSeq(g.hops) /\ Len(g.hops) = n /\ IsInfo(g.info) /\ \A h \in 1 .. n : IsHop(g.hops[h])
  BY DEF Bears, BearsHop
<1>2. /\ p.segLen = [i \in 1 .. 3 |-> IF i = 1 THEN Len(g.hops) ELSE 0] /\ p.infos = <<g.info>> /\ p.hops = g.hops
      /\ p.currINF = 0 /\ p.currHF = 0
      /\ p = [segLen |-> p.segLen, infos |-> p.infos, hops |-> p.hops, currINF |-> p.currINF, currHF |-> p.currHF]
  BY DEF Only
<1> HIDE DEF p, n
<1>3. p.segLen[1] = n /\ p.segLen[2] = 0 /\ p.segLen[3] = 0 /\ p.segLen = [i \in 1 .. 3 |-> p.segLen[i]]
  BY <1>1, <1>2
<1>4. Len(p.infos) = 1 /\ p.infos[1] = g.info /\ IsSeq(p.infos)
  BY <1>2 DEF IsSeq
<1>5. n \in Nat /\ n >= 1
  BY DEF n
<1>6. Measured(p.segLen, Len(p.infos), Len(p.hops))
  BY <1>1, <1>2, <1>3, <1>4, <1>5 DEF Measured
<1>7. IsPath(p)
  <2>1. \A i \in 1 .. Len(p.infos) : IsInfo(p.infos[i])
    BY <1>1, <1>4
  <2>2. \A h \in 1 .. Len(p.hops) : IsHop(p.hops[h])
    BY <1>1, <1>2
  <2> QED
    BY <1>1, <1>2, <1>4, <1>6, <2>1, <2>2 DEF IsPath
<1>8. \A h \in 1 .. n : infIndexForHF(p, h - 1) = 0
  BY <1>3, <1>5 DEF infIndexForHF
<1> QED
  BY <1>2, <1>3, <1>4, <1>7, <1>8 DEF p, n

\* The path with one segment more.
LEMMA LongerPath ==
  ASSUME NEW p, IsPath(p), Len(p.infos) \in {1, 2}, NEW g, NEW w, Bears(g, w), w.n \in Nat, w.n >= 1
  PROVE  LET q == Longer(p, g)
             m == Len(p.infos)
             n == Len(p.hops)
         IN  /\ IsPath(q) /\ q.currINF = 0 /\ q.currHF = 0 /\ Len(q.infos) = m + 1 /\ Len(q.hops) = n + w.n
             /\ \A i \in 1 .. m : q.infos[i] = p.infos[i]
             /\ q.infos[m + 1] = g.info
             /\ \A h \in 1 .. n : q.hops[h] = p.hops[h] /\ infIndexForHF(q, h - 1) = infIndexForHF(p, h - 1)
             /\ \A k \in 1 .. w.n : q.hops[k + n] = g.hops[k] /\ infIndexForHF(q, (k + n) - 1) = m
             /\ q.segLen[1] = p.segLen[1] /\ (m = 1 => p.segLen[1] = n) /\ n \in Nat /\ n >= 1
             /\ m = 1 => q.segLen[2] # 0 /\ q.segLen[3] = 0
<1> DEFINE q == Longer(p, g)
           m == Len(p.infos)
           n == Len(p.hops)
           k == w.n
<1>1. IsSeq(g.hops) /\ Len(g.hops) = k /\ IsInfo(g.info) /\ \A h \in 1 .. k : IsHop(g.hops[h])
  BY DEF Bears, BearsHop
<1>2. /\ q.segLen = [i \in 1 .. 3 |-> IF i = m + 1 THEN k ELSE p.segLen[i]]
      /\ q.infos = Append(p.infos, g.info) /\ q.hops = p.hops \o g.hops
      /\ q.currINF = 0 /\ q.currHF = 0
      /\ q = [segLen |-> q.segLen, infos |-> q.infos, hops |-> q.hops, currINF |-> q.currINF, currHF |-> q.currHF]
  BY <1>1 DEF Longer
<1>3. /\ IsSeq(p.infos) /\ IsSeq(p.hops) /\ \A i \in 1 .. m : IsInfo(p.infos[i])
      /\ \A h \in 1 .. n : IsHop(p.hops[h])
      /\ Measured(p.segLen, m, n)
  BY DEF IsPath
<1>4. n \in Nat /\ m \in {1, 2} /\ k \in Nat /\ k >= 1
  BY <1>3 DEF IsSeq
<1> HIDE DEF q, m, n, k
<1>5. /\ IsSeq(q.infos) /\ Len(q.infos) = m + 1 /\ q.infos[m + 1] = g.info
      /\ \A i \in 1 .. m : q.infos[i] = p.infos[i]
  BY <1>2, <1>3, SeqAppend DEF m
<1>6. /\ IsSeq(q.hops) /\ Len(q.hops) = n + k
      /\ \A h \in 1 .. (n + k) : q.hops[h] = IF h <= n THEN p.hops[h] ELSE g.hops[h - n]
  <2> DEFINE a == p.hops
             b == g.hops
             z == q.hops
  <2>1. IsSeq(a) /\ IsSeq(b) /\ z = a \o b /\ Len(a) = n /\ Len(b) = k
    BY <1>1, <1>2, <1>3 DEF n
  <2> HIDE DEF a, b, z
  <2>2. IsSeq(z) /\ Len(z) = n + k /\ \A h \in 1 .. (n + k) : z[h] = IF h <= n THEN a[h] ELSE b[h - n]
    BY <2>1, SeqCat
  <2> QED
    BY <2>2 DEF a, b, z
<1>7. /\ q.segLen[1] = p.segLen[1] /\ q.segLen[2] = (IF m = 1 THEN k ELSE p.segLen[2])
      /\ q.segLen[3] = (IF m = 2 THEN k ELSE p.segLen[3]) /\ q.segLen = [i \in 1 .. 3 |-> q.segLen[i]]
  BY <1>2, <1>4
<1>8. /\ p.segLen[1] \in Nat /\ p.segLen[2] \in Nat /\ p.segLen[3] \in Nat /\ p.segLen[1] > 0
      /\ n = p.segLen[1] + p.segLen[2] + p.segLen[3]
      /\ m = 1 => p.segLen[2] = 0 /\ p.segLen[3] = 0
      /\ m = 2 => p.segLen[2] > 0 /\ p.segLen[3] = 0
  BY <1>3, <1>4 DEF Measured
<1>9. Measured(q.segLen, Len(q.infos), Len(q.hops))
  <2> DEFINE a == p.segLen[1]
             b == p.segLen[2]
             d == p.segLen[3]
             x == q.segLen[1]
             y == q.segLen[2]
             z == q.segLen[3]
             i == Len(q.infos)
             j == Len(q.hops)
  <2>1. /\ x = a /\ y = (IF m = 1 THEN k ELSE b) /\ z = (IF m = 2 THEN k ELSE d) /\ i = m + 1 /\ j = n + k
        /\ a \in Nat /\ b \in Nat /\ d \in Nat /\ a > 0 /\ n = a + b + d /\ k \in Nat /\ k >= 1 /\ m \in {1, 2}
        /\ m = 1 => b = 0 /\ d = 0
        /\ m = 2 => b > 0 /\ d = 0
    BY <1>4, <1>5, <1>6, <1>7, <1>8
  <2> HIDE DEF a, b, d, x, y, z, i, j
  <2>2. x \in Nat /\ y \in Nat /\ z \in Nat /\ i \in 1 .. 3 /\ j = x + y + z /\ x > 0 /\ (y > 0 <=> i > 1) /\ (z > 0 <=> i > 2)
    BY ONLY <2>1
  <2> QED
    BY <1>7, <2>2 DEF Measured, x, y, z, i, j
<1>10. IsPath(q)
  <2>1. \A i \in 1 .. Len(q.infos) : IsInfo(q.infos[i])
    <3> SUFFICES ASSUME NEW i \in 1 .. (m + 1) PROVE IsInfo(q.infos[i])
      BY <1>5
    <3>1. i \in 1 .. m \/ i = m + 1
      BY <1>4
    <3>2. CASE i \in 1 .. m
      <4>1. q.infos[i] = p.infos[i] /\ IsInfo(p.infos[i])
        BY <1>3, <1>5, <3>2
      <4> QED
        BY <4>1
    <3>3. CASE i = m + 1
      BY <1>1, <1>5, <3>3
    <3> QED
      BY <3>1, <3>2, <3>3
  <2>2. \A h \in 1 .. Len(q.hops) : IsHop(q.hops[h])
    <3> SUFFICES ASSUME NEW h \in 1 .. (n + k) PROVE IsHop(q.hops[h])
      BY <1>6
    <3>1. (h \in 1 .. n /\ h <= n) \/ (~(h <= n) /\ h - n \in 1 .. k)
      BY <1>4
    <3> QED
      BY <1>1, <1>3, <1>6, <3>1
  <2> QED
    BY <1>2, <1>5, <1>6, <1>9, <2>1, <2>2 DEF IsPath
<1>11. \A h \in 1 .. n : q.hops[h] = p.hops[h] /\ infIndexForHF(q, h - 1) = infIndexForHF(p, h - 1)
  <2> SUFFICES ASSUME NEW h \in 1 .. n PROVE q.hops[h] = p.hops[h] /\ infIndexForHF(q, h - 1) = infIndexForHF(p, h - 1)
    OBVIOUS
  <2>1. q.hops[h] = p.hops[h]
    BY <1>4, <1>6
  <2>2. infIndexForHF(q, h - 1) = infIndexForHF(p, h - 1)
    BY <1>4, <1>7, <1>8 DEF infIndexForHF
  <2> QED
    BY <2>1, <2>2
<1>12. \A i \in 1 .. k : q.hops[i + n] = g.hops[i] /\ infIndexForHF(q, (i + n) - 1) = m
  <2> SUFFICES ASSUME NEW i \in 1 .. k PROVE q.hops[i + n] = g.hops[i] /\ infIndexForHF(q, (i + n) - 1) = m
    OBVIOUS
  <2>1. i + n \in 1 .. (n + k) /\ ~(i + n <= n) /\ (i + n) - n = i
    BY <1>4
  <2>2. q.hops[i + n] = g.hops[i]
    BY <1>6, <2>1
  <2>3. infIndexForHF(q, (i + n) - 1) = m
    <3>1. CASE m = 1
      BY <1>4, <1>7, <1>8, <3>1 DEF infIndexForHF
    <3>2. CASE m = 2
      BY <1>4, <1>7, <1>8, <3>2 DEF infIndexForHF
    <3> QED
      BY <1>4, <3>1, <3>2
  <2> QED
    BY <2>2, <2>3
<1>13. /\ q.segLen[1] = p.segLen[1] /\ (m = 1 => p.segLen[1] = n) /\ n \in Nat /\ n >= 1
       /\ m = 1 => q.segLen[2] # 0 /\ q.segLen[3] = 0
  BY <1>4, <1>7, <1>8
<1> QED
  BY <1>2, <1>5, <1>6, <1>10, <1>11, <1>12, <1>13 DEF q, m, n, k

\* The path of a single segment carries the walk of its edge.
LEMMA LaidOnly ==
  ASSUME NEW g, NEW w, Bears(g, w), w.n \in Nat, w.n >= 1, \A h \in 1 .. w.n : h \in w.pr <=> g.info.peer /\ h = w.n
  PROVE  Laid(Only(g), w)
<1> DEFINE p == Only(g)
           n == w.n
<1>1. /\ IsPath(p) /\ p.currINF = 0 /\ p.currHF = 0 /\ Len(p.infos) = 1 /\ p.infos[1] = g.info
      /\ p.hops = g.hops /\ p.segLen[1] = n /\ p.segLen[2] = 0 /\ p.segLen[3] = 0
      /\ \A h \in 1 .. n : infIndexForHF(p, h - 1) = 0
  BY OnlyPath
<1>2. /\ Len(g.hops) = n /\ g.info.segID = w.beta[1] /\ n \in Nat /\ n >= 1
      /\ \A h \in 1 .. n : BearsHop(g.info, g.hops[h], w, h)
  BY DEF Bears
<1>3. \A h \in 1 .. n : h \in w.pr <=> g.info.peer /\ h = n
  OBVIOUS
<1> HIDE DEF p, n
<1>4. \A h \in 1 .. n : w.sg[h] = 1
  BY <1>2 DEF BearsHop
<1>5. ASSUME NEW h \in 1 .. n PROVE Says(p, w, h)
  <2>1. BearsHop(g.info, g.hops[h], w, h)
    BY <1>2
  <2>2. p.infos[w.sg[h]] = g.info /\ p.hops[h] = g.hops[h] /\ w.sg[h] = infIndexForHF(p, h - 1) + 1
    BY <1>1, <1>4
  <2>3. h - 1 \in {n - 1, n} <=> h = n
    BY <1>2
  <2>4. h \in w.pr <=> g.info.peer /\ h - 1 \in {p.segLen[1] - 1, p.segLen[1]}
    BY <1>1, <1>3, <2>3
  <2> QED
    BY <2>1, <2>2, <2>4 DEF Says, BearsHop
<1>6. Quiet(p)
  BY <1>1, <1>2 DEF Quiet, BearsHop
<1>7. \A h \in 2 .. n : w.sg[h - 1] = w.sg[h]
  <2> SUFFICES ASSUME NEW h \in 2 .. n PROVE w.sg[h - 1] = w.sg[h]
    OBVIOUS
  <2>1. h - 1 \in 1 .. n /\ h \in 1 .. n
    BY <1>2
  <2> QED
    BY <1>4, <2>1
<1>8. w.sg[n] = 1 /\ w.sg[1] = 1
  BY <1>2, <1>4
<1>9. /\ \A h \in 1 .. w.n : Says(p, w, h)
      /\ \A h \in 2 .. w.n : w.sg[h - 1] # w.sg[h] => p.infos[w.sg[h]].segID = w.beta[h]
      /\ Len(p.hops) = w.n /\ w.sg[w.n] = Len(p.infos) /\ p.infos[1].segID = w.beta[1]
  BY <1>1, <1>2, <1>5, <1>7, <1>8 DEF n
<1>10. Laid(p, w)
  BY <1>1, <1>6, <1>8, <1>9 DEF Laid
<1> QED
  BY <1>10 DEF p

\* The path with one segment more carries the walk that is joined.
LEMMA LaidLonger ==
  ASSUME NEW p, NEW w, Laid(p, w), NEW c, Walk(w, c), Len(p.infos) \in {1, 2},
         NEW g, NEW v, Bears(g, v), v.n \in Nat, v.n >= 1,
         NEW u, NEW l, u.n = w.n + v.n, Part(u, w, 0, 0, 0), Part(u, v, w.n, w.sg[w.n], l),
         \A k \in 1 .. v.n : k \in v.pr <=> g.info.peer /\ k = 1,
         g.info.peer => Len(p.infos) = 1
  PROVE  Laid(Longer(p, g), u)
<1> DEFINE q == Longer(p, g)
           m == Len(p.infos)
           n == w.n
           k == v.n
<1>1. /\ IsPath(p) /\ Quiet(p) /\ Len(p.hops) = n /\ w.sg[n] = m /\ w.sg[1] = 1
      /\ p.infos[1].segID = w.beta[1]
      /\ \A h \in 1 .. n : Says(p, w, h)
      /\ \A h \in 2 .. n : w.sg[h - 1] # w.sg[h] => p.infos[w.sg[h]].segID = w.beta[h]
  BY DEF Laid
<1>2. /\ n \in Nat /\ n > 0 /\ m \in {1, 2} /\ k \in Nat /\ k >= 1
      /\ \A h \in 1 .. n : w.sg[h] \in 1 .. m /\ w.pos[h] \in Nat
  <2>1. n \in Nat /\ n > 0 /\ \A h \in 1 .. n : w.sg[h] \in Nat /\ 1 <= w.sg[h] /\ w.sg[h] <= w.sg[n] /\ w.pos[h] \in Nat
    BY DEF Walk
  <2> QED
    BY <1>1, <2>1
<1>3. /\ IsPath(q) /\ q.currINF = 0 /\ q.currHF = 0 /\ Len(q.infos) = m + 1 /\ Len(q.hops) = n + k
      /\ \A i \in 1 .. m : q.infos[i] = p.infos[i]
      /\ q.infos[m + 1] = g.info
      /\ \A h \in 1 .. n : q.hops[h] = p.hops[h] /\ infIndexForHF(q, h - 1) = infIndexForHF(p, h - 1)
      /\ \A i \in 1 .. k : q.hops[i + n] = g.hops[i] /\ infIndexForHF(q, (i + n) - 1) = m
      /\ q.segLen[1] = p.segLen[1] /\ (m = 1 => p.segLen[1] = n)
  <2>1. IsPath(p) /\ Len(p.infos) \in {1, 2} /\ Bears(g, v) /\ v.n \in Nat /\ v.n >= 1 /\ q = Longer(p, g)
        /\ Len(p.hops) = n /\ Len(p.infos) = m /\ v.n = k
    BY <1>1
  <2> DEFINE x == Len(p.infos)
             y == Len(p.hops)
             z == Longer(p, g)
  <2>2. /\ IsPath(z) /\ z.currINF = 0 /\ z.currHF = 0 /\ Len(z.infos) = x + 1 /\ Len(z.hops) = y + v.n
        /\ \A i \in 1 .. x : z.infos[i] = p.infos[i]
        /\ z.infos[x + 1] = g.info
        /\ \A h \in 1 .. y : z.hops[h] = p.hops[h] /\ infIndexForHF(z, h - 1) = infIndexForHF(p, h - 1)
        /\ \A i \in 1 .. v.n : z.hops[i + y] = g.hops[i] /\ infIndexForHF(z, (i + y) - 1) = x
        /\ z.segLen[1] = p.segLen[1] /\ (x = 1 => p.segLen[1] = y)
    BY ONLY <2>1, LongerPath
  <2> HIDE DEF x, y, z, q, m, n, k
  <2>3. x = m /\ y = n /\ z = q /\ v.n = k
    BY <2>1 DEF x, y, z
  <2> QED
    BY ONLY <2>2, <2>3
<1>4. /\ Len(g.hops) = k /\ g.info.segID = v.beta[1]
      /\ \A i \in 1 .. k : BearsHop(g.info, g.hops[i], v, i)
  BY DEF Bears
<1>5. \A i \in 1 .. k : i \in v.pr <=> g.info.peer /\ i = 1
  OBVIOUS
<1>6. \A i \in 1 .. k : SameHop(u, i + n, v, i, m, l)
  BY <1>1 DEF Part
<1>7. \A h \in 1 .. n : SameHop(u, h, w, h, 0, 0)
  <2> SUFFICES ASSUME NEW h \in 1 .. n PROVE SameHop(u, h, w, h, 0, 0)
    OBVIOUS
  <2>1. SameHop(u, h + 0, w, h, 0, 0)
    BY DEF Part
  <2>2. h + 0 = h
    BY <1>2
  <2> QED
    BY <2>1, <2>2
<1>8. g.info.peer => m = 1
  OBVIOUS
<1>9. u.n = n + k
  OBVIOUS
<1> HIDE DEF q, m, n, k
<1>10. \A h \in 1 .. n : u.sg[h] = w.sg[h]
  <2> SUFFICES ASSUME NEW h \in 1 .. n PROVE u.sg[h] = w.sg[h]
    OBVIOUS
  <2>1. u.sg[h] = w.sg[h] + 0
    BY <1>7 DEF SameHop
  <2> QED
    BY <1>2, <2>1
<1>11. \A i \in 1 .. k : u.sg[i + n] = m + 1
  <2> SUFFICES ASSUME NEW i \in 1 .. k PROVE u.sg[i + n] = m + 1
    OBVIOUS
  <2>1. u.sg[i + n] = v.sg[i] + m /\ v.sg[i] = 1
    BY <1>4, <1>6 DEF SameHop, BearsHop
  <2> QED
    BY <1>2, <2>1
<1>20. ASSUME NEW h \in 1 .. n PROVE q.infos[u.sg[h]] = p.infos[w.sg[h]]
  <2> DEFINE i == w.sg[h]
  <2>1. i \in 1 .. m /\ u.sg[h] = i
    BY <1>2, <1>10
  <2> HIDE DEF i
  <2>2. q.infos[u.sg[h]] = p.infos[i]
    BY <1>3, <2>1
  <2> QED
    BY <2>2 DEF i
<1>12. ASSUME NEW h \in 1 .. n PROVE Says(q, u, h)
  <2>1. q.infos[u.sg[h]] = p.infos[w.sg[h]] /\ q.hops[h] = p.hops[h] /\ infIndexForHF(q, h - 1) = infIndexForHF(p, h - 1)
    BY <1>3, <1>20
  <2>2. Says(p, w, h) /\ SameHop(u, h, w, h, 0, 0) /\ u.sg[h] = w.sg[h] /\ q.segLen[1] = p.segLen[1]
    BY <1>1, <1>3, <1>7, <1>10
  <2> QED
    BY <2>1, <2>2 DEF Says, SameHop
<1>13. ASSUME NEW i \in 1 .. k PROVE Says(q, u, i + n)
  <2> DEFINE h == i + n
  <2>1. q.infos[u.sg[h]] = g.info /\ q.hops[h] = g.hops[i] /\ infIndexForHF(q, h - 1) = m /\ u.sg[h] = m + 1
    BY <1>3, <1>11
  <2>2. SameHop(u, h, v, i, m, l) /\ BearsHop(g.info, g.hops[i], v, i)
    BY <1>4, <1>6
  <2>3. g.info.peer => (i = 1 <=> h - 1 \in {q.segLen[1] - 1, q.segLen[1]})
    <3> SUFFICES ASSUME g.info.peer PROVE i = 1 <=> h - 1 \in {q.segLen[1] - 1, q.segLen[1]}
      OBVIOUS
    <3>1. q.segLen[1] = n
      BY <1>3, <1>8
    <3>2. i = 1 <=> h - 1 \in {n - 1, n}
      BY <1>2
    <3> QED
      BY <3>1, <3>2
  <2>4. i \in v.pr <=> g.info.peer /\ h - 1 \in {q.segLen[1] - 1, q.segLen[1]}
    BY <1>5, <2>3
  <2> HIDE DEF h
  <2>5. Says(q, u, h)
    BY <2>1, <2>2, <2>4 DEF Says, SameHop, BearsHop
  <2> QED
    BY <2>5 DEF h
<1>14. \A h \in 1 .. (n + k) : h \in 1 .. n \/ \E i \in 1 .. k : h = i + n
  <2> SUFFICES ASSUME NEW h \in 1 .. (n + k), ~(h \in 1 .. n) PROVE \E i \in 1 .. k : h = i + n
    OBVIOUS
  <2>1. h - n \in 1 .. k /\ h = (h - n) + n
    BY <1>2
  <2> QED
    BY <2>1
<1>15. \A h \in 1 .. (n + k) : Says(q, u, h)
  BY <1>12, <1>13, <1>14
<1>16. Quiet(q)
  <2> SUFFICES ASSUME NEW h \in 1 .. (n + k) PROVE q.hops[h].inAlert = FALSE /\ q.hops[h].egAlert = FALSE
    BY <1>3 DEF Quiet
  <2>1. CASE h \in 1 .. n
    BY <1>1, <1>3, <2>1 DEF Quiet
  <2>2. ASSUME NEW i \in 1 .. k, h = i + n PROVE q.hops[h].inAlert = FALSE /\ q.hops[h].egAlert = FALSE
    BY <1>3, <1>4, <2>2 DEF BearsHop
  <2> QED
    BY <1>14, <2>1, <2>2
<1>17. ASSUME NEW h \in 2 .. (n + k), u.sg[h - 1] # u.sg[h] PROVE q.infos[u.sg[h]].segID = u.beta[h]
  <2>1. CASE h \in 1 .. n
    <3>1. h - 1 \in 1 .. n /\ h \in 2 .. n
      BY <1>2, <2>1
    <3>2. w.sg[h - 1] # w.sg[h]
      BY <1>10, <1>17, <2>1, <3>1
    <3>3. p.infos[w.sg[h]].segID = w.beta[h] /\ q.infos[u.sg[h]] = p.infos[w.sg[h]]
      BY <1>1, <1>20, <2>1, <3>1, <3>2
    <3> QED
      BY <1>7, <2>1, <3>3 DEF SameHop
  <2>2. ASSUME NEW i \in 1 .. k, h = i + n PROVE q.infos[u.sg[h]].segID = u.beta[h]
    <3>1. CASE i = 1
      BY <1>3, <1>4, <1>6, <1>11, <2>2, <3>1 DEF SameHop
    <3>2. CASE i # 1
      <4>1. i - 1 \in 1 .. k /\ h - 1 = (i - 1) + n
        BY <1>2, <2>2, <3>2
      <4>2. u.sg[h - 1] = m + 1 /\ u.sg[h] = m + 1
        BY <1>11, <2>2, <4>1
      <4> QED
        BY <1>17, <4>2
    <3> QED
      BY <3>1, <3>2
  <2>3. h \in 1 .. (n + k)
    BY <1>2
  <2> QED
    BY <1>14, <2>1, <2>2, <2>3
<1>18. u.sg[n + k] = m + 1 /\ u.sg[1] = 1 /\ q.infos[1].segID = u.beta[1]
  <2>1. 1 \in 1 .. n /\ k \in 1 .. k /\ n + k = k + n /\ 1 \in 1 .. m
    BY <1>2
  <2>2. u.sg[n + k] = m + 1
    BY <1>11, <2>1
  <2>3. u.beta[1] = w.beta[1]
    BY <1>7, <2>1 DEF SameHop
  <2> QED
    BY <1>1, <1>3, <1>10, <2>1, <2>2, <2>3
<1>19. Laid(q, u)
  BY <1>3, <1>9, <1>15, <1>16, <1>17, <1>18 DEF Laid
<1> QED
  BY <1>19 DEF q

HopsOf(s) == [i \in 1 .. Len(s) |-> Segment(s[i]).hops]
IntfsOf(s) == [i \in 1 .. Len(s) |-> Segment(s[i]).intfs]
InfosOf(s) == [i \in 1 .. Len(s) |-> Segment(s[i]).info]
LensOf(s) == [i \in 1 .. 3 |-> IF i \in 1 .. Len(s) THEN Len(Segment(s[i]).hops) ELSE 0]

\* The parts of Path.
LEMMA PathFields ==
  ASSUME NEW s, IsSeq(s)
  PROVE  /\ Path(s).path = [segLen |-> LensOf(s), infos |-> InfosOf(s), hops |-> FlattenSeq(HopsOf(s)), currINF |-> 0, currHF |-> 0]
         /\ Path(s).intfs = FlattenSeq(IntfsOf(s))
<1> DEFINE n == Len(s)
           segs == [i \in DOMAIN s |-> Segment(s[i])]
<1>1. DOMAIN s = 1 .. n
  BY SeqIs
<1>2. DOMAIN segs = 1 .. n /\ \A i \in 1 .. n : segs[i] = Segment(s[i])
  BY <1>1
<1>3. /\ Path(s).path = [segLen |-> [i \in 1 .. 3 |-> IF i \in DOMAIN segs THEN Len(segs[i].hops) ELSE 0],
                         infos |-> [i \in DOMAIN segs |-> segs[i].info],
                         hops |-> FlattenSeq([i \in DOMAIN segs |-> segs[i].hops]), currINF |-> 0, currHF |-> 0]
      /\ Path(s).intfs = FlattenSeq([i \in DOMAIN segs |-> segs[i].intfs])
  BY DEF Path
<1> HIDE DEF segs, n
<1>4. /\ [i \in DOMAIN segs |-> segs[i].hops] = HopsOf(s)
      /\ [i \in DOMAIN segs |-> segs[i].intfs] = IntfsOf(s)
      /\ [i \in DOMAIN segs |-> segs[i].info] = InfosOf(s)
  BY <1>2 DEF HopsOf, IntfsOf, InfosOf, n
<1>5. [i \in 1 .. 3 |-> IF i \in DOMAIN segs THEN Len(segs[i].hops) ELSE 0] = LensOf(s)
  BY <1>2 DEF LensOf, n
<1> QED
  BY <1>3, <1>4, <1>5

\* Edges whose segments are sequences.
Sound(s) == \A i \in 1 .. Len(s) : IsSeq(Segment(s[i]).hops) /\ Segment(s[i]).intfs \in Seq(Interfaces)

\* What one edge more adds to the parts of Path.
LEMMA ListsMore ==
  ASSUME NEW s, IsSeq(s), NEW e
  PROVE  LET t == Append(s, e)
         IN  /\ HopsOf(t) = Append(HopsOf(s), Segment(e).hops)
             /\ IntfsOf(t) = Append(IntfsOf(s), Segment(e).intfs)
             /\ InfosOf(t) = Append(InfosOf(s), Segment(e).info)
             /\ LensOf(t) = [i \in 1 .. 3 |-> IF i = Len(s) + 1 THEN Len(Segment(e).hops) ELSE LensOf(s)[i]]
             /\ Len(InfosOf(s)) = Len(s) /\ IsSeq(HopsOf(s)) /\ IsSeq(IntfsOf(s)) /\ Len(HopsOf(s)) = Len(s) /\ Len(IntfsOf(s)) = Len(s)
<1> DEFINE t == Append(s, e)
           n == Len(s)
<1>1. /\ IsSeq(t) /\ Len(t) = n + 1 /\ t[n + 1] = e /\ \A j \in 1 .. n : t[j] = s[j]
  BY SeqAppend
<1>2. n \in Nat
  BY DEF IsSeq
<1> HIDE DEF t, n
<1>3. ASSUME NEW f, f = [i \in 1 .. n |-> f[i]], NEW x
      PROVE  IsSeq(f) /\ Len(f) = n /\ Append(f, x) = [i \in 1 .. (n + 1) |-> IF i = n + 1 THEN x ELSE f[i]]
  <2>1. IsSeq(f) /\ Len(f) = n
    BY <1>2, <1>3, SeqFun
  <2> DEFINE g == Append(f, x)
  <2>2. IsSeq(g) /\ Len(g) = n + 1 /\ g[n + 1] = x /\ \A j \in 1 .. n : g[j] = f[j]
    BY <2>1, SeqAppend
  <2> HIDE DEF g
  <2>3. g = [i \in 1 .. (n + 1) |-> g[i]]
    BY <2>2 DEF IsSeq
  <2>4. \A i \in 1 .. (n + 1) : g[i] = IF i = n + 1 THEN x ELSE f[i]
    BY <1>2, <2>2
  <2>5. g = [i \in 1 .. (n + 1) |-> IF i = n + 1 THEN x ELSE f[i]]
    BY <2>3, <2>4
  <2> QED
    BY <2>1, <2>5 DEF g
<1>4. \A i \in 1 .. (n + 1) : t[i] = IF i = n + 1 THEN e ELSE s[i]
  BY <1>1, <1>2
<1>5. HopsOf(t) = Append(HopsOf(s), Segment(e).hops) /\ IsSeq(HopsOf(s)) /\ Len(HopsOf(s)) = n
  <2> DEFINE f == HopsOf(s)
             x == Segment(e).hops
  <2>1. f = [i \in 1 .. n |-> Segment(s[i]).hops]
    BY DEF HopsOf, n
  <2>2. HopsOf(t) = [i \in 1 .. (n + 1) |-> Segment(t[i]).hops]
    BY <1>1 DEF HopsOf
  <2> HIDE DEF f, x
  <2>3. \A i \in 1 .. (n + 1) : Segment(t[i]).hops = IF i = n + 1 THEN x ELSE f[i]
    BY <1>2, <1>4, <2>1 DEF x
  <2>4. HopsOf(t) = [i \in 1 .. (n + 1) |-> IF i = n + 1 THEN x ELSE f[i]]
    BY <2>2, <2>3
  <2>5. f = [i \in 1 .. n |-> f[i]]
    BY <2>1
  <2>6. IsSeq(f) /\ Len(f) = n /\ HopsOf(t) = Append(f, x)
    BY <1>3, <2>4, <2>5
  <2> QED
    BY <2>6 DEF f, x
<1>6. IntfsOf(t) = Append(IntfsOf(s), Segment(e).intfs) /\ IsSeq(IntfsOf(s)) /\ Len(IntfsOf(s)) = n
  <2> DEFINE f == IntfsOf(s)
             x == Segment(e).intfs
  <2>1. f = [i \in 1 .. n |-> Segment(s[i]).intfs]
    BY DEF IntfsOf, n
  <2>2. IntfsOf(t) = [i \in 1 .. (n + 1) |-> Segment(t[i]).intfs]
    BY <1>1 DEF IntfsOf
  <2> HIDE DEF f, x
  <2>3. \A i \in 1 .. (n + 1) : Segment(t[i]).intfs = IF i = n + 1 THEN x ELSE f[i]
    BY <1>2, <1>4, <2>1 DEF x
  <2>4. IntfsOf(t) = [i \in 1 .. (n + 1) |-> IF i = n + 1 THEN x ELSE f[i]]
    BY <2>2, <2>3
  <2>5. f = [i \in 1 .. n |-> f[i]]
    BY <2>1
  <2>6. IsSeq(f) /\ Len(f) = n /\ IntfsOf(t) = Append(f, x)
    BY <1>3, <2>4, <2>5
  <2> QED
    BY <2>6 DEF f, x
<1>7. InfosOf(t) = Append(InfosOf(s), Segment(e).info) /\ Len(InfosOf(s)) = n
  <2> DEFINE f == InfosOf(s)
             x == Segment(e).info
  <2>1. f = [i \in 1 .. n |-> Segment(s[i]).info]
    BY DEF InfosOf, n
  <2>2. InfosOf(t) = [i \in 1 .. (n + 1) |-> Segment(t[i]).info]
    BY <1>1 DEF InfosOf
  <2> HIDE DEF f, x
  <2>3. \A i \in 1 .. (n + 1) : Segment(t[i]).info = IF i = n + 1 THEN x ELSE f[i]
    BY <1>2, <1>4, <2>1 DEF x
  <2>4. InfosOf(t) = [i \in 1 .. (n + 1) |-> IF i = n + 1 THEN x ELSE f[i]]
    BY <2>2, <2>3
  <2>5. f = [i \in 1 .. n |-> f[i]]
    BY <2>1
  <2>6. IsSeq(f) /\ Len(f) = n /\ InfosOf(t) = Append(f, x)
    BY <1>3, <2>4, <2>5
  <2> QED
    BY <2>6 DEF f, x
<1>8. LensOf(t) = [i \in 1 .. 3 |-> IF i = n + 1 THEN Len(Segment(e).hops) ELSE LensOf(s)[i]]
  <2>1. LensOf(t) = [i \in 1 .. 3 |-> IF i \in 1 .. (n + 1) THEN Len(Segment(t[i]).hops) ELSE 0]
    BY <1>1 DEF LensOf
  <2>2. \A i \in 1 .. 3 : LensOf(s)[i] = IF i \in 1 .. n THEN Len(Segment(s[i]).hops) ELSE 0
    BY DEF LensOf, n
  <2>3. \A i \in 1 .. 3 : (IF i \in 1 .. (n + 1) THEN Len(Segment(t[i]).hops) ELSE 0)
                          = IF i = n + 1 THEN Len(Segment(e).hops) ELSE LensOf(s)[i]
    <3> SUFFICES ASSUME NEW i \in 1 .. 3
                 PROVE  (IF i \in 1 .. (n + 1) THEN Len(Segment(t[i]).hops) ELSE 0)
                        = IF i = n + 1 THEN Len(Segment(e).hops) ELSE LensOf(s)[i]
      OBVIOUS
    <3>1. CASE i = n + 1
      BY <1>1, <1>2, <3>1
    <3>2. CASE i # n + 1
      <4>1. i \in 1 .. (n + 1) <=> i \in 1 .. n
        BY <1>2, <3>2
      <4> QED
        BY <1>1, <2>2, <3>2, <4>1
    <3> QED
      BY <3>1, <3>2
  <2> QED
    BY <2>1, <2>3
<1> QED
  BY <1>5, <1>6, <1>7, <1>8 DEF t, n

\* A set that holds the elements of all the sequences.
LEMMA SequencesIn ==
  ASSUME NEW f, IsSeq(f), \A i \in 1 .. Len(f) : IsSeq(f[i]), NEW g, IsSeq(g)
  PROVE  \E S : f \in Seq(Seq(S)) /\ g \in Seq(S)
<1> DEFINE n == Len(f)
           X(x) == {x[j] : j \in 1 .. Len(x)}
           S == X(g) \cup UNION {X(f[i]) : i \in 1 .. n}
<1>1. n \in Nat
  BY DEF IsSeq
<1>2. ASSUME NEW x, IsSeq(x), NEW T, \A j \in 1 .. Len(x) : x[j] \in T PROVE x \in Seq(T)
  BY <1>2 DEF IsSeq
<1>3. g \in Seq(S)
  <2>1. \A j \in 1 .. Len(g) : g[j] \in S
    OBVIOUS
  <2> HIDE DEF S
  <2> QED
    BY <1>2, <2>1
<1>4. ASSUME NEW i \in 1 .. n PROVE f[i] \in Seq(S)
  <2>1. \A j \in 1 .. Len(f[i]) : f[i][j] \in X(f[i])
    OBVIOUS
  <2>2. X(f[i]) \subseteq S
    <3> HIDE DEF X
    <3> QED
      OBVIOUS
  <2>3. \A j \in 1 .. Len(f[i]) : f[i][j] \in S
    BY <2>1, <2>2
  <2> HIDE DEF S, X
  <2> QED
    BY <1>2, <2>3
<1> HIDE DEF S, X
<1>5. f \in Seq(Seq(S))
  <2>1. \A i \in 1 .. Len(f) : f[i] \in Seq(S)
    BY <1>4
  <2> QED
    BY <1>2, <2>1
<1> QED
  BY <1>3, <1>5

\* Flattening with one sequence more.
LEMMA FlattenMore ==
  ASSUME NEW f, IsSeq(f), \A i \in 1 .. Len(f) : IsSeq(f[i]), NEW g, IsSeq(g)
  PROVE  FlattenSeq(Append(f, g)) = FlattenSeq(f) \o g
<1>1. PICK S : f \in Seq(Seq(S)) /\ g \in Seq(S)
  BY SequencesIn
<1> QED
  BY <1>1, FlattenAppend

\* Path of one edge more is the path with one segment more.
LEMMA PathMore ==
  ASSUME NEW s, IsSeq(s), Sound(s), NEW e, IsSeq(Segment(e).hops), Segment(e).intfs \in Seq(Interfaces),
         NEW t, t = Append(s, e)
  PROVE  /\ Path(t).path = Longer(Path(s).path, Segment(e))
         /\ Path(t).intfs = Path(s).intfs \o Segment(e).intfs
<1> DEFINE p == Path(s).path
           q == Path(t).path
           g == Segment(e)
<1>0. IsSeq(t)
  BY SeqAppend
<1>1. /\ p = [segLen |-> LensOf(s), infos |-> InfosOf(s), hops |-> FlattenSeq(HopsOf(s)), currINF |-> 0, currHF |-> 0]
      /\ q = [segLen |-> LensOf(t), infos |-> InfosOf(t), hops |-> FlattenSeq(HopsOf(t)), currINF |-> 0, currHF |-> 0]
      /\ Path(s).intfs = FlattenSeq(IntfsOf(s))
      /\ Path(t).intfs = FlattenSeq(IntfsOf(t))
  BY <1>0, PathFields
<1>2. /\ HopsOf(t) = Append(HopsOf(s), Segment(e).hops)
      /\ IntfsOf(t) = Append(IntfsOf(s), Segment(e).intfs)
      /\ InfosOf(t) = Append(InfosOf(s), Segment(e).info)
      /\ LensOf(t) = [i \in 1 .. 3 |-> IF i = Len(s) + 1 THEN Len(Segment(e).hops) ELSE LensOf(s)[i]]
      /\ Len(InfosOf(s)) = Len(s) /\ IsSeq(HopsOf(s)) /\ IsSeq(IntfsOf(s)) /\ Len(HopsOf(s)) = Len(s) /\ Len(IntfsOf(s)) = Len(s)
  BY ListsMore
<1>3. FlattenSeq(HopsOf(t)) = FlattenSeq(HopsOf(s)) \o g.hops
  <2> DEFINE f == HopsOf(s)
             x == g.hops
  <2>1. \A i \in 1 .. Len(f) : IsSeq(f[i])
    BY <1>2 DEF Sound, HopsOf
  <2>2. IsSeq(f) /\ IsSeq(x) /\ HopsOf(t) = Append(f, x)
    BY <1>2
  <2> HIDE DEF f, x
  <2>3. FlattenSeq(HopsOf(t)) = FlattenSeq(f) \o x
    BY <2>1, <2>2, FlattenMore
  <2> QED
    BY <2>3 DEF f, x
<1>4. FlattenSeq(IntfsOf(t)) = FlattenSeq(IntfsOf(s)) \o g.intfs
  <2> DEFINE f == IntfsOf(s)
             x == g.intfs
  <2>1. \A i \in 1 .. Len(f) : f[i] \in Seq(Interfaces)
    BY <1>2 DEF Sound, IntfsOf
  <2>2. IsSeq(f) /\ IsSeq(x) /\ IntfsOf(t) = Append(f, x)
    BY <1>2, SeqTyped
  <2> HIDE DEF f, x
  <2>4. \A i \in 1 .. Len(f) : IsSeq(f[i])
    BY <2>1, SeqTyped
  <2>3. FlattenSeq(IntfsOf(t)) = FlattenSeq(f) \o x
    BY <2>2, <2>4, FlattenMore
  <2> QED
    BY <2>3 DEF f, x
<1>5. p.segLen = LensOf(s) /\ p.infos = InfosOf(s) /\ p.hops = FlattenSeq(HopsOf(s))
  BY <1>1
<1> HIDE DEF p, q, g
<1>6. q = Longer(p, g)
  BY <1>1, <1>2, <1>3, <1>5 DEF Longer, g
<1> QED
  BY <1>1, <1>4, <1>6 DEF p, q, g

\* Path of one edge is the path of its segment.
LEMMA PathOne ==
  ASSUME NEW e, IsSeq(Segment(e).hops), Segment(e).intfs \in Seq(Interfaces)
  PROVE  Path(<<e>>).path = Only(Segment(e)) /\ Path(<<e>>).intfs = Segment(e).intfs
<1> DEFINE s == <<e>>
           g == Segment(e)
<1>1. IsSeq(s) /\ Len(s) = 1 /\ s[1] = e
  BY DEF IsSeq
<1>2. /\ Path(s).path = [segLen |-> LensOf(s), infos |-> InfosOf(s), hops |-> FlattenSeq(HopsOf(s)), currINF |-> 0, currHF |-> 0]
      /\ Path(s).intfs = FlattenSeq(IntfsOf(s))
  BY <1>1, PathFields
<1>3. InfosOf(s) = <<g.info>> /\ HopsOf(s) = <<g.hops>> /\ IntfsOf(s) = <<g.intfs>>
  BY <1>1 DEF InfosOf, HopsOf, IntfsOf
<1>4. LensOf(s) = [i \in 1 .. 3 |-> IF i = 1 THEN Len(g.hops) ELSE 0]
  BY <1>1 DEF LensOf
<1>5. ASSUME NEW x, IsSeq(x) PROVE FlattenSeq(<<x>>) = x
  <2> DEFINE f == <<>>
  <2>1. IsSeq(f) /\ Len(f) = 0 /\ Append(f, x) = <<x>>
    BY DEF IsSeq
  <2>2. FlattenSeq(f) = <<>>
    <3>1. Len(f) = 0
      OBVIOUS
    <3> QED
      BY <3>1 DEF FlattenSeq
  <2> HIDE DEF f
  <2>3. FlattenSeq(Append(f, x)) = FlattenSeq(f) \o x
    <3>1. \A i \in 1 .. Len(f) : IsSeq(f[i])
      BY <2>1
    <3> QED
      BY <1>5, <2>1, <3>1, FlattenMore
  <2>4. <<>> \o x = x
    <3>1. x \in Seq({x[i] : i \in 1 .. Len(x)})
      BY <1>5, SeqIs
    <3> QED
      BY <3>1
  <2> QED
    BY <2>1, <2>2, <2>3, <2>4
<1>6. FlattenSeq(<<g.hops>>) = g.hops /\ FlattenSeq(<<g.intfs>>) = g.intfs
  BY <1>5, SeqTyped
<1> QED
  BY <1>2, <1>3, <1>4, <1>6 DEF Only

\* The walk w is the one of the edges s.
Route(s, w) ==
  /\ IsSeq(s) /\ Sound(s) /\ Len(Path(s).path.infos) = Len(s)
  /\ Walk(w, Path(s).intfs) /\ Laid(Path(s).path, w)

\* The ends of two walks joined.
LEMMA JoinEnds ==
  ASSUME NEW w, NEW c, NEW v, NEW d, Walk(w, c), Walk(v, d), NEW u, u = Join(w, c, v)
  PROVE  /\ u.ia[1] = w.ia[1] /\ u.ia[u.n] = v.ia[v.n] /\ In(u, u.n) = In(v, v.n)
         /\ u.n \in u.pr <=> v.n \in v.pr
         /\ v.n > 1 => (Linked(u, u.n - 1) <=> Linked(v, v.n - 1))
<1> DEFINE m == w.n
           k == v.n
           n == u.n
           z == w.sg[w.n]
           l == Len(c)
<1>1. n = m + k /\ Part(u, w, 0, 0, 0) /\ Part(u, v, m, z, l)
  BY JoinParts
<1>2. m \in Nat /\ m > 0 /\ k \in Nat /\ k > 0 /\ z \in Nat /\ l \in Nat
  BY DEF Walk
<1> HIDE DEF m, k, n, z, l
<1>3. 1 \in 1 .. m /\ 1 + 0 = 1 /\ k \in 1 .. k /\ n = k + m
  BY <1>1, <1>2
<1>4. SameHop(u, 1 + 0, w, 1, 0, 0) /\ SameHop(u, k + m, v, k, z, l)
  BY <1>1, <1>3 DEF Part, m, k
<1>5. u.ia[1] = w.ia[1] /\ u.ia[n] = v.ia[k] /\ In(u, n) = In(v, k) /\ (n \in u.pr <=> k \in v.pr)
  BY <1>3, <1>4 DEF SameHop
<1>6. k > 1 => (Linked(u, n - 1) <=> Linked(v, k - 1))
  <2> DEFINE i == n - 1
             j == k - 1
  <2>1. k > 1 => j \in 1 .. (k - 1) /\ i = j + m
    BY <1>1, <1>2
  <2> HIDE DEF i, j
  <2>2. k > 1 => (Linked(u, i) <=> Linked(v, j))
    BY <1>1, <1>2, <2>1, PartStep DEF k
  <2> QED
    BY <2>2 DEF i, j
<1> QED
  BY <1>5, <1>6 DEF n, k

\* One edge is a route.
LEMMA RouteOne ==
  ASSUME NEW e, Uses(e), e.peer # NoPeer => e.typ # "down", NEW s, s = <<e>>
  PROVE  /\ Route(s, EdgeWalk(e)) /\ Path(s).intfs = Segment(e).intfs /\ Len(s) = 1
<1> DEFINE w == EdgeWalk(e)
           g == Segment(e)
<1>1. Walk(w, g.intfs) /\ Bears(g, w) /\ EndsAs(e, w, g.intfs)
  BY EdgeWalkIs
<1>2. IsSeq(g.hops) /\ g.intfs \in Seq(Interfaces) /\ w.n \in Nat /\ w.n >= 1
  BY <1>1 DEF Bears, Walk
<1>3. Path(s).path = Only(g) /\ Path(s).intfs = g.intfs
  BY <1>2, PathOne
<1>4. IsSeq(s) /\ Len(s) = 1 /\ Sound(s)
  <2>1. IsSeq(s) /\ Len(s) = 1 /\ s[1] = e
    BY DEF IsSeq
  <2>2. \A i \in 1 .. Len(s) : s[i] = e
    BY <2>1
  <2> QED
    BY <1>2, <2>1, <2>2 DEF Sound
<1>5. \A h \in 1 .. w.n : h \in w.pr <=> g.info.peer /\ h = w.n
  <2>1. g.info.peer <=> e.peer # NoPeer
    BY SegmentInfo
  <2>2. w.pr = IF e.peer = NoPeer THEN {} ELSE {w.n}
    BY <1>1 DEF EndsAs
  <2> QED
    BY <2>1, <2>2
<1>6. Laid(Only(g), w)
  BY <1>1, <1>2, <1>5, LaidOnly
<1>7. Len(Only(g).infos) = 1
  BY <1>1, <1>2, OnlyPath
<1> QED
  BY <1>1, <1>3, <1>4, <1>6, <1>7 DEF Route

\* The edge f, with its walk v, continues the edges s.
Continues(s, w, c, f, v, t) ==
  /\ Route(s, w) /\ Len(s) \in {1, 2} /\ c = Path(s).intfs
  /\ Uses(f) /\ (f.peer # NoPeer => Len(s) = 1 /\ f.typ = "down")
  /\ v = EdgeWalk(f) /\ (PeerFits(w, c, v) \/ CrossFits(w, c, v))
  /\ t = Append(s, f)

\* A route continues with an edge that follows.
LEMMA RouteMore ==
  ASSUME NEW s, NEW w, NEW c, NEW f, NEW v, NEW t, Continues(s, w, c, f, v, t)
  PROVE  /\ Route(t, Join(w, c, v)) /\ Path(t).intfs = c \o Segment(f).intfs /\ Len(t) = Len(s) + 1
<1> DEFINE g == Segment(f)
           d == g.intfs
           u == Join(w, c, v)
           p == Path(s).path
           q == Path(t).path
<1>0. /\ Route(s, w) /\ Len(s) \in {1, 2} /\ c = Path(s).intfs
      /\ Uses(f) /\ (f.peer # NoPeer => Len(s) = 1 /\ f.typ = "down")
      /\ v = EdgeWalk(f) /\ (PeerFits(w, c, v) \/ CrossFits(w, c, v))
      /\ t = Append(s, f)
  BY DEF Continues
<1> USE <1>0
<1>1. Walk(v, d) /\ Bears(g, v) /\ EndsAs(f, v, d)
  BY EdgeWalkIs
<1>2. IsSeq(g.hops) /\ d \in Seq(Interfaces) /\ v.n \in Nat /\ v.n >= 1
  BY <1>1 DEF Bears, Walk
<1>3. IsSeq(s) /\ Sound(s) /\ Len(p.infos) = Len(s) /\ Walk(w, c) /\ Laid(p, w) /\ IsPath(p)
  BY DEF Route, Laid
<1>4. q = Longer(p, g) /\ Path(t).intfs = c \o d
  BY <1>2, <1>3, PathMore
<1>5. IsSeq(t) /\ Len(t) = Len(s) + 1 /\ t[Len(s) + 1] = f /\ \A i \in 1 .. Len(s) : t[i] = s[i]
  BY <1>3, SeqAppend
<1>6. Sound(t)
  <2> SUFFICES ASSUME NEW i \in 1 .. Len(t) PROVE IsSeq(Segment(t[i]).hops) /\ Segment(t[i]).intfs \in Seq(Interfaces)
    BY DEF Sound
  <2>1. i \in 1 .. Len(s) \/ i = Len(s) + 1
    BY <1>5
  <2> QED
    BY <1>2, <1>3, <1>5, <2>1 DEF Sound
<1>7. g.info.peer <=> f.peer # NoPeer
  BY SegmentInfo
<1>8. \A k \in 1 .. v.n : k \in v.pr <=> g.info.peer /\ k = 1
  <2>1. v.pr = IF f.peer = NoPeer THEN {} ELSE {1}
    BY <1>1 DEF EndsAs
  <2> QED
    BY <1>7, <2>1
<1>9. Walk(u, c \o d)
  BY <1>1, <1>3, JoinWalk
<1>10. u.n = w.n + v.n /\ Part(u, w, 0, 0, 0) /\ Part(u, v, w.n, w.sg[w.n], Len(c))
  BY <1>1, <1>3, JoinParts
<1>11. Len(p.infos) \in {1, 2} /\ (g.info.peer => Len(p.infos) = 1)
  BY <1>3, <1>7
<1> HIDE DEF g, d, u, p, q
<1>12. Laid(Longer(p, g), u)
  BY <1>1, <1>2, <1>3, <1>8, <1>10, <1>11, LaidLonger
<1>13. Len(Longer(p, g).infos) = Len(p.infos) + 1
  BY <1>1, <1>2, <1>3, <1>11, LongerPath
<1>14. Route(t, u)
  BY <1>3, <1>4, <1>5, <1>6, <1>9, <1>12, <1>13 DEF Route, q
<1> QED
  BY <1>4, <1>5, <1>14 DEF u, g, d

\* The solutions of the search: one, two or three edges.
Solved(s, dmg, src, dst) ==
  \/ \E e \in dmg : s = <<e>> /\ e.src = src /\ e.dst = dst
  \/ \E e, f \in dmg : s = Append(<<e>>, f) /\ e.src = src /\ Follows(e, f) /\ f.dst = dst
  \/ \E e, f, g \in dmg : s = Append(Append(<<e>>, f), g) /\ e.src = src /\ Follows(e, f) /\ Follows(f, g) /\ g.dst = dst

\* What GetPaths returns: one, two or three edges of the graph that follow each other.
LEMMA Solutions ==
  ASSUME NEW dmg, NEW src, NEW dst, NEW s, s \in GetPaths(dmg, src, dst)
  PROVE  Solved(s, dmg, src, dst)
<1> DEFINE open(e) == e.dst # dst
           one == {<<e>> : e \in {e \in dmg : e.src = src}}
           more(t) == {Append(t, f) : f \in {f \in dmg : f.src = Last(t).dst /\ validNextSeg(Last(t), f)}}
           extend(sols) == UNION {more(t) : t \in {t \in sols : open(Last(t))}}
           two == extend(one)
<1>1. (s \in one \/ s \in two \/ s \in extend(two)) /\ ~open(Last(s))
  BY DEF GetPaths
<1>2. ASSUME NEW t \in one PROVE \E e \in dmg : t = <<e>> /\ e.src = src /\ Last(t) = e
  <2>1. PICK e \in dmg : t = <<e>> /\ e.src = src
    OBVIOUS
  <2>2. Last(t) = e
    BY <2>1 DEF Last
  <2> QED
    BY <2>1, <2>2
<1>3. ASSUME NEW sols, NEW t \in extend(sols)
      PROVE  \E r \in sols : \E f \in dmg : t = Append(r, f) /\ Follows(Last(r), f)
  <2>1. PICK r \in sols : t \in more(r)
    BY <1>3
  <2>2. PICK f \in dmg : t = Append(r, f) /\ f.src = Last(r).dst /\ validNextSeg(Last(r), f)
    BY <2>1
  <2> QED
    BY <2>2 DEF Follows
<1>4. ASSUME NEW r, IsSeq(r), NEW f PROVE Last(Append(r, f)) = f
  <2>1. Len(Append(r, f)) = Len(r) + 1 /\ Append(r, f)[Len(r) + 1] = f
    BY <1>4, SeqAppend
  <2> QED
    BY <2>1 DEF Last
<1>5. ASSUME NEW e PROVE IsSeq(<<e>>)
  BY DEF IsSeq
<1> HIDE DEF extend
<1>6. ASSUME NEW t \in two
      PROVE  \E e, f \in dmg : t = Append(<<e>>, f) /\ e.src = src /\ Follows(e, f) /\ Last(t) = f
  <2>1. PICK r \in one, f \in dmg : t = Append(r, f) /\ Follows(Last(r), f)
    BY <1>3
  <2>2. PICK e \in dmg : r = <<e>> /\ e.src = src /\ Last(r) = e
    BY <1>2
  <2>3. Last(t) = f
    BY <1>4, <1>5, <2>1, <2>2
  <2> QED
    BY <2>1, <2>2, <2>3
<1>7. ASSUME s \in extend(two)
      PROVE  \E e, f, g \in dmg : s = Append(Append(<<e>>, f), g) /\ e.src = src /\ Follows(e, f) /\ Follows(f, g) /\ g.dst = dst
  <2> HIDE DEF two
  <2>1. PICK r \in two, g \in dmg : s = Append(r, g) /\ Follows(Last(r), g)
    BY <1>3, <1>7
  <2>2. PICK e, f \in dmg : r = Append(<<e>>, f) /\ e.src = src /\ Follows(e, f) /\ Last(r) = f
    BY <1>6
  <2>3. Last(s) = g
    <3>1. IsSeq(r)
      BY <1>5, <2>2, SeqAppend
    <3> QED
      BY <1>4, <2>1, <3>1
  <2> QED
    BY <1>1, <2>1, <2>2, <2>3
<1>8. ASSUME s \in two
      PROVE  \E e, f \in dmg : s = Append(<<e>>, f) /\ e.src = src /\ Follows(e, f) /\ f.dst = dst
  BY <1>1, <1>6, <1>8
<1>9. ASSUME s \in one
      PROVE  \E e \in dmg : s = <<e>> /\ e.src = src /\ e.dst = dst
  BY <1>1, <1>2, <1>9
<1> QED
  BY <1>1, <1>7, <1>8, <1>9 DEF Solved

\* A vertex of an AS is the far end of edges without peering only.
LEMMA FarVertex ==
  ASSUME NEW e, NEW x
  PROVE  LET a == e.seg.entries[e.shortcut + 1].local
         IN  /\ Far(e) = vertexFromIA(x) => e.peer = NoPeer /\ a = x
             /\ ReverseVertex(Far(e)) = vertexFromIA(x) => e.peer = NoPeer /\ a = x
<1> DEFINE a == e.seg.entries[e.shortcut + 1].local
           y == <<a, e.peer.hop.in>>
           z == <<e.peer.peer, e.peer.peerIf>>
<1>1. Far(e) = IF e.peer = NoPeer THEN vertexFromIA(a) ELSE vertexFromPeering(y, z)
  BY DEF Far
<1> HIDE DEF y, z, a
<1>2. /\ Far(e) = vertexFromIA(x) => e.peer = NoPeer /\ a = x
      /\ ReverseVertex(Far(e)) = vertexFromIA(x) => e.peer = NoPeer /\ a = x
  BY <1>1, Vertices
<1> QED
  BY <1>2 DEF a

\* The first edge of a solution starts at the source.
LEMMA SourceEdge ==
  ASSUME NEW e, Uses(e), NEW x, e.src = vertexFromIA(x)
  PROVE  (e.peer # NoPeer => e.typ # "down") /\ EdgeWalk(e).ia[1] = x /\ EdgeWalk(e).pos[1] = 0
<1> DEFINE w == EdgeWalk(e)
           c == Segment(e).intfs
           a == e.seg.entries[e.shortcut + 1].local
<1>1. EndsAs(e, w, c)
  BY EdgeWalkIs
<1>2. CASE e.typ # "down"
  <2>1. e.src = vertexFromIA(LastIA(e.seg))
    BY <1>2 DEF Uses
  <2>2. LastIA(e.seg) = x
    BY <2>1, Vertices
  <2> QED
    BY <1>1, <1>2, <2>2 DEF EndsAs
<1>3. CASE e.typ = "down"
  <2>1. e.src = ReverseVertex(Far(e))
    BY <1>3 DEF Uses
  <2>2. e.peer = NoPeer /\ a = x
    BY <2>1, FarVertex
  <2> QED
    BY <1>1, <1>3, <2>2 DEF EndsAs, a
<1> QED
  BY <1>2, <1>3

\* The last edge of a solution ends at the destination.
LEMMA TargetEdge ==
  ASSUME NEW e, Uses(e), NEW x, e.dst = vertexFromIA(x)
  PROVE  LET w == EdgeWalk(e)
         IN  (e.peer # NoPeer => e.typ = "down") /\ w.ia[w.n] = x /\ Len(Segment(e).intfs) = w.pos[w.n]
<1> DEFINE w == EdgeWalk(e)
           c == Segment(e).intfs
           a == e.seg.entries[e.shortcut + 1].local
<1>1. EndsAs(e, w, c) /\ w.pos[w.n] \in Nat
  BY EdgeWalkIs DEF Walk
<1>2. CASE e.typ = "down"
  <2>1. e.dst = vertexFromIA(LastIA(e.seg))
    BY <1>2 DEF Uses
  <2>2. LastIA(e.seg) = x
    BY <2>1, Vertices
  <2>3. Len(c) = w.pos[w.n]
    BY <1>1, <1>2 DEF EndsAs
  <2> QED
    BY <1>1, <1>2, <2>2, <2>3 DEF EndsAs
<1>3. CASE e.typ # "down"
  <2>1. e.dst = Far(e)
    BY <1>3 DEF Uses
  <2>2. e.peer = NoPeer /\ a = x
    BY <2>1, FarVertex
  <2>3. Len(c) = w.pos[w.n]
    BY <1>1, <2>2 DEF EndsAs
  <2> QED
    BY <1>1, <1>3, <2>2, <2>3 DEF EndsAs, a
<1> QED
  BY <1>2, <1>3

\* The peering flags of a path are those of its edges.
LEMMA PathPeers ==
  ASSUME NEW s, IsSeq(s), NEW i \in 1 .. Len(s)
  PROVE  Path(s).path.infos[i].peer <=> s[i].peer # NoPeer
<1> DEFINE p == Path(s).path
           x == InfosOf(s)
<1>0. p = [segLen |-> LensOf(s), infos |-> x, hops |-> FlattenSeq(HopsOf(s)), currINF |-> 0, currHF |-> 0]
  BY PathFields
<1>2. x[i] = Segment(s[i]).info
  BY DEF InfosOf
<1> HIDE DEF p, x
<1>1. p.infos = x
  BY <1>0
<1>3. Segment(s[i]).info.peer <=> s[i].peer # NoPeer
  BY SegmentInfo
<1>4. p.infos[i].peer <=> s[i].peer # NoPeer
  BY <1>1, <1>2, <1>3
<1> QED
  BY <1>4 DEF p

\* A solution leads from src to dst; peering links are used in paths of two segments only.
Journey(s, w, src, dst) ==
  /\ Route(s, w) /\ w.n > 1 /\ w.pos[1] = 0 /\ Len(Path(s).intfs) = w.pos[w.n]
  /\ w.ia[1] = src /\ w.ia[w.n] = dst
  /\ \A i \in 1 .. Len(s) : s[i].peer # NoPeer => Len(s) = 2

\* Solutions of one edge lead from source to destination.
LEMMA OneEdge ==
  ASSUME NEW e, Uses(e), NEW x, NEW y, e.src = vertexFromIA(x), e.dst = vertexFromIA(y), NEW s, s = <<e>>
  PROVE  \E w : Journey(s, w, x, y)
<1> DEFINE w == EdgeWalk(e)
<1>1. (e.peer # NoPeer => e.typ # "down") /\ w.ia[1] = x /\ w.pos[1] = 0
  BY SourceEdge
<1>2. (e.peer # NoPeer => e.typ = "down") /\ w.ia[w.n] = y /\ Len(Segment(e).intfs) = w.pos[w.n]
  BY TargetEdge
<1>3. e.peer = NoPeer
  BY <1>1, <1>2
<1>4. Route(s, w) /\ Path(s).intfs = Segment(e).intfs /\ Len(s) = 1
  BY <1>3, RouteOne
<1>5. w.n > 1
  BY <1>3, EdgeWalkIs DEF EndsAs
<1>6. \A i \in 1 .. Len(s) : s[i].peer = NoPeer
  <2>1. s[1] = e /\ \A i \in 1 .. Len(s) : i = 1
    BY <1>4
  <2> QED
    BY <1>3, <2>1
<1>7. Journey(s, w, x, y)
  BY <1>1, <1>2, <1>4, <1>5, <1>6 DEF Journey
<1> QED
  BY <1>7

\* So do those of two.
LEMMA TwoEdges ==
  ASSUME NEW e, NEW f, Uses(e), Uses(f), Follows(e, f), NEW x, NEW y, e.src = vertexFromIA(x), f.dst = vertexFromIA(y),
         NEW r, r = <<e>>, NEW s, s = Append(r, f)
  PROVE  \E w : Journey(s, w, x, y)
<1>0. PICK w, c, v, d : w = EdgeWalk(e) /\ c = Segment(e).intfs /\ v = EdgeWalk(f) /\ d = Segment(f).intfs
  OBVIOUS
<1>01. PICK u : u = Join(w, c, v)
  OBVIOUS
<1>1. (e.peer # NoPeer => e.typ # "down") /\ w.ia[1] = x /\ w.pos[1] = 0
  BY <1>0, SourceEdge
<1>2. (f.peer # NoPeer => f.typ = "down") /\ v.ia[v.n] = y /\ Len(d) = v.pos[v.n]
  BY <1>0, TargetEdge
<1>3. Route(r, w) /\ Path(r).intfs = c /\ Len(r) = 1
  BY <1>0, <1>1, RouteOne
<1>4. PeerFits(w, c, v) \/ CrossFits(w, c, v)
  BY <1>0, EdgesFit
<1>5. Walk(w, c) /\ Walk(v, d)
  BY <1>0, EdgeWalkIs
<1>6. w.n \in Nat /\ w.n >= 1 /\ v.n \in Nat /\ v.n >= 1 /\ Len(c) \in Nat /\ v.pos[v.n] \in Nat
  BY <1>5 DEF Walk
<1>7. Len(r) \in {1, 2} /\ (f.peer # NoPeer => Len(r) = 1 /\ f.typ = "down") /\ c = Path(r).intfs /\ v = EdgeWalk(f)
  BY <1>0, <1>2, <1>3
<1>8. Route(s, u) /\ Path(s).intfs = c \o d /\ Len(s) = 1 + 1
  <2>1. Route(s, Join(w, c, v)) /\ Path(s).intfs = c \o Segment(f).intfs /\ Len(s) = Len(r) + 1
    <3>1. Continues(r, w, c, f, v, s)
      BY <1>3, <1>4, <1>7 DEF Continues
    <3> QED
      BY <3>1, RouteMore
  <2> QED
    BY <1>0, <1>01, <1>3, <2>1
<1>9. Walk(u, c \o d) /\ u.n = w.n + v.n /\ u.pos[1] = w.pos[1] /\ u.pos[u.n] = v.pos[v.n] + Len(c) /\ Len(c \o d) = Len(c) + Len(d)
  BY ONLY <1>01, <1>4, <1>5, JoinWalk
<1>90. u.ia[1] = w.ia[1] /\ u.ia[u.n] = v.ia[v.n]
  BY <1>01, <1>5, JoinEnds
<1>10. u.n > 1 /\ u.pos[u.n] = Len(c) + Len(d) /\ Len(s) = 2
  BY <1>2, <1>6, <1>8, <1>9
<1>11. Journey(s, u, x, y)
  BY <1>1, <1>2, <1>8, <1>9, <1>90, <1>10 DEF Journey
<1> QED
  BY <1>11

\* And those of three.
LEMMA ThreeEdges ==
  ASSUME NEW e, NEW f, NEW g, Uses(e), Uses(f), Uses(g), Follows(e, f), Follows(f, g),
         NEW x, NEW y, e.src = vertexFromIA(x), g.dst = vertexFromIA(y),
         NEW r, r = <<e>>, NEW q, q = Append(r, f), NEW s, s = Append(q, g)
  PROVE  \E w : Journey(s, w, x, y)
<1>0. PICK w, c, v, d : w = EdgeWalk(e) /\ c = Segment(e).intfs /\ v = EdgeWalk(f) /\ d = Segment(f).intfs
  OBVIOUS
<1>01. PICK u, b, a, i : u = Join(w, c, v) /\ b = c \o d /\ a = EdgeWalk(g) /\ i = Segment(g).intfs
  OBVIOUS
<1>02. PICK z : z = Join(u, b, a)
  OBVIOUS
<1>1. (e.peer # NoPeer => e.typ # "down") /\ w.ia[1] = x /\ w.pos[1] = 0
  BY <1>0, SourceEdge
<1>2. a.ia[a.n] = y /\ Len(i) = a.pos[a.n]
  BY <1>01, TargetEdge
<1>3. e.peer = NoPeer /\ f.peer = NoPeer /\ g.peer = NoPeer
  <2>1. /\ <<e.typ, f.typ>> \in {<<"up", "core">>, <<"up", "down">>, <<"core", "down">>}
        /\ e.peer = NoPeer <=> f.peer = NoPeer
        /\ f.typ = "core" => f.peer = NoPeer
    BY SharedVertex
  <2>2. /\ <<f.typ, g.typ>> \in {<<"up", "core">>, <<"up", "down">>, <<"core", "down">>}
        /\ f.peer = NoPeer <=> g.peer = NoPeer
    BY SharedVertex
  <2>3. f.typ = "core"
    BY <2>1, <2>2
  <2> QED
    BY <2>1, <2>2, <2>3
<1>4. Route(r, w) /\ Path(r).intfs = c /\ Len(r) = 1
  BY <1>0, <1>1, RouteOne
<1>5. CrossFits(w, c, v)
  BY <1>0, <1>3, EdgesFit
<1>50. CrossFits(v, d, a)
  BY <1>0, <1>01, <1>3, EdgesFit
<1>6. Walk(w, c) /\ Walk(v, d) /\ Walk(a, i)
  BY <1>0, <1>01, EdgeWalkIs
<1>7. w.n \in Nat /\ w.n >= 1 /\ v.n \in Nat /\ v.n >= 1 /\ Len(c) \in Nat /\ v.pos[v.n] \in Nat /\ a.n \in Nat /\ a.n >= 1 /\ a.pos[a.n] \in Nat
  <2>1. w.n \in Nat /\ w.n >= 1 /\ c \in Seq(Interfaces)
    BY ONLY <1>6 DEF Walk
  <2>2. v.n \in Nat /\ v.n >= 1 /\ v.pos[v.n] \in Nat
    <3>1. v.n \in Nat /\ v.n > 0 /\ \A h \in 1 .. v.n : v.pos[h] \in Nat
      BY ONLY <1>6 DEF Walk
    <3> QED
      BY ONLY <3>1
  <2>3. a.n \in Nat /\ a.n >= 1 /\ a.pos[a.n] \in Nat
    <3>1. a.n \in Nat /\ a.n > 0 /\ \A h \in 1 .. a.n : a.pos[h] \in Nat
      BY ONLY <1>6 DEF Walk
    <3> QED
      BY ONLY <3>1
  <2>4. Len(c) \in Nat
    BY ONLY <2>1
  <2> QED
    BY ONLY <2>1, <2>2, <2>3, <2>4
<1>8. IsSeq(r) /\ Len(r) = 1 /\ r[1] = e
  BY DEF IsSeq
<1>80. IsSeq(q) /\ Len(q) = 2 /\ q[1] = e /\ q[2] = f
  BY <1>8, SeqAppend
<1>81. Len(s) = 3 /\ s[1] = e /\ s[2] = f /\ s[3] = g
  BY <1>80, SeqAppend
<1>9. Len(r) \in {1, 2} /\ (f.peer # NoPeer => Len(r) = 1 /\ f.typ = "down") /\ c = Path(r).intfs /\ v = EdgeWalk(f)
  BY <1>0, <1>3, <1>4
<1>10. Route(q, u) /\ Path(q).intfs = b
  <2>1. Route(q, Join(w, c, v)) /\ Path(q).intfs = c \o Segment(f).intfs
    <3>1. Continues(r, w, c, f, v, q)
      BY <1>4, <1>5, <1>9 DEF Continues
    <3> QED
      BY ONLY <3>1, RouteMore
  <2> QED
    BY <1>0, <1>01, <2>1
<1>11. Walk(u, b) /\ u.n = w.n + v.n /\ u.pos[1] = w.pos[1] /\ u.pos[u.n] = v.pos[v.n] + Len(c) /\ Len(b) = Len(c) + Len(d)
  BY <1>01, <1>5, <1>6, JoinWalk
<1>110. /\ u.ia[1] = w.ia[1] /\ u.ia[u.n] = v.ia[v.n] /\ In(u, u.n) = In(v, v.n)
        /\ u.n \in u.pr <=> v.n \in v.pr
        /\ v.n > 1 => (Linked(u, u.n - 1) <=> Linked(v, v.n - 1))
  BY <1>01, <1>6, JoinEnds
<1>12. CrossFits(u, b, a)
  <2>1. Len(d) = v.pos[v.n] /\ Len(d) \in Nat /\ v.n > 1
    BY <1>50, <1>7 DEF CrossFits
  <2>2. Len(b) = u.pos[u.n] /\ u.n > 1
    BY <1>7, <1>11, <2>1
  <2> QED
    BY <1>50, <1>110, <2>1, <2>2 DEF CrossFits
<1>13. Route(s, z) /\ Path(s).intfs = b \o i
  <2>1. Len(q) \in {1, 2} /\ (g.peer # NoPeer => Len(q) = 1 /\ g.typ = "down") /\ b = Path(q).intfs /\ a = EdgeWalk(g)
    BY <1>01, <1>3, <1>80, <1>10
  <2>2. Route(s, Join(u, b, a)) /\ Path(s).intfs = b \o Segment(g).intfs
    <3>1. Continues(q, u, b, g, a, s)
      BY <1>10, <1>12, <2>1 DEF Continues
    <3> QED
      BY ONLY <3>1, RouteMore
  <2> QED
    BY <1>01, <1>02, <2>2
<1>14. Walk(z, b \o i) /\ z.n = u.n + a.n /\ z.pos[1] = u.pos[1] /\ z.pos[z.n] = a.pos[a.n] + Len(b) /\ Len(b \o i) = Len(b) + Len(i)
  BY ONLY <1>02, <1>6, <1>11, <1>12, JoinWalk
<1>140. z.ia[1] = u.ia[1] /\ z.ia[z.n] = a.ia[a.n]
  BY <1>02, <1>6, <1>11, JoinEnds
<1>15. z.n > 1 /\ Len(b \o i) = z.pos[z.n]
  <2>1. Len(b) \in Nat /\ u.n \in Nat /\ u.n >= 1 /\ Len(i) \in Nat
    BY <1>6, <1>11 DEF Walk
  <2> QED
    BY ONLY <1>2, <1>7, <1>14, <2>1
<1>16. \A j \in 1 .. Len(s) : s[j].peer = NoPeer
  <2>1. \A j \in 1 .. Len(s) : j = 1 \/ j = 2 \/ j = 3
    BY <1>81
  <2> QED
    BY <1>3, <1>81, <2>1
<1>17. Journey(s, z, x, y)
  BY <1>1, <1>2, <1>11, <1>110, <1>13, <1>14, <1>140, <1>15, <1>16 DEF Journey
<1> QED
  BY <1>17

\* The path of a solution says what its walk does, and is ready to be sent.
LEMMA JourneyAt ==
  ASSUME NEW s, NEW w, NEW x, NEW y, Journey(s, w, x, y), NEW p, p = Path(s).path
  PROVE  At(p, w, 1, w.beta[1]) /\ Quiet(p)
<1>1. IsSeq(s) /\ Len(p.infos) = Len(s) /\ Walk(w, Path(s).intfs) /\ Laid(p, w)
  BY DEF Journey, Route
<1>2. /\ IsPath(p) /\ p.currINF = 0 /\ p.currHF = 0 /\ Quiet(p)
      /\ Len(p.hops) = w.n /\ w.sg[w.n] = Len(p.infos) /\ w.sg[1] = 1
      /\ p.infos[1].segID = w.beta[1]
      /\ \A h \in 1 .. w.n : Says(p, w, h)
      /\ \A h \in 2 .. w.n : w.sg[h - 1] # w.sg[h] => p.infos[w.sg[h]].segID = w.beta[h]
  BY <1>1 DEF Laid
<1>3. w.n \in Nat /\ w.n > 0 /\ \A h \in 1 .. w.n : w.sg[h] \in Nat /\ 1 <= w.sg[h] /\ w.sg[h] <= w.sg[w.n]
  BY <1>1 DEF Walk
<1>4. /\ p.segLen[1] \in Nat /\ p.segLen[1] > 0
      /\ Len(p.infos) = 2 => p.segLen[2] # 0 /\ p.segLen[3] = 0
  <2>1. Measured(p.segLen, Len(p.infos), Len(p.hops))
    BY <1>2 DEF IsPath
  <2> DEFINE m == Len(p.infos)
             len == p.segLen
  <2> HIDE DEF m, len
  <2>2. len[1] \in Nat /\ len[2] \in Nat /\ len[3] \in Nat /\ m \in 1 .. 3 /\ len[1] > 0 /\ (len[2] > 0 <=> m > 1) /\ (len[3] > 0 <=> m > 2)
    BY ONLY <2>1 DEF Measured, m, len
  <2>3. len[1] \in Nat /\ len[1] > 0 /\ (m = 2 => len[2] # 0 /\ len[3] = 0)
    BY ONLY <2>2
  <2> QED
    BY ONLY <2>3 DEF m, len
<1>5. ASSUME NEW h \in 1 .. w.n PROVE Content(p, w, h)
  <2>1. w.sg[h] \in 1 .. Len(s)
    BY <1>1, <1>2, <1>3
  <2>2. p.infos[w.sg[h]].peer <=> s[w.sg[h]].peer # NoPeer
    BY <1>1, <2>1, PathPeers
  <2>3. s[w.sg[h]].peer # NoPeer => Len(s) = 2
    BY <2>1 DEF Journey
  <2>4. p.infos[w.sg[h]].peer => p.segLen[2] # 0 /\ p.segLen[3] = 0
    BY <1>1, <1>4, <2>2, <2>3
  <2>5. Says(p, w, h)
    BY <1>2
  <2> QED
    BY <2>4, <2>5 DEF Says, Content
<1>6. Pointed(p)
  <2>1. infIndexForHF(p, 0) = 0
    BY <1>4 DEF infIndexForHF
  <2> QED
    BY <1>2, <1>3, <2>1 DEF Pointed
<1>7. Carries(p, w)
  BY <1>2, <1>5 DEF Carries
<1>8. SegIDs(p, w, 1, w.beta[1])
  <2>1. ASSUME NEW h \in 1 .. (w.n - 1) PROVE ~(w.sg[h] < w.sg[1])
    <3>1. w.sg[h] \in Nat /\ 1 <= w.sg[h]
      BY <1>3
    <3> QED
      BY <1>2, <3>1
  <2> QED
    BY <1>2, <2>1 DEF SegIDs
<1> QED
  BY <1>2, <1>3, <1>6, <1>7, <1>8 DEF At

\* A hop inside a walk lies between two interfaces of its AS.
LEMMA Middle ==
  ASSUME NEW w, NEW c, Walk(w, c), w.pos[1] = 0, NEW h \in 2 .. (w.n - 1)
  PROVE  LET i == w.pos[h]
         IN  i \in Nat /\ i >= 2 /\ i + 2 <= Len(c) /\ c[i][1] = w.ia[h] /\ c[i + 1][1] = w.ia[h]
<1>1. w.n \in Nat /\ \A g \in 1 .. (w.n - 1) : (Linked(w, g) => Link(w, c, g)) /\ (~Linked(w, g) => Switch(w, g))
  BY DEF Walk
<1>2. \A g \in 1 .. w.n : w.pos[g] \in Nat /\ w.pos[g] <= Len(c)
  BY DEF Walk
<1>20. Len(c) \in Nat
  BY DEF Walk
<1>3. ASSUME NEW g \in 1 .. (w.n - 1), Linked(w, g)
      PROVE  /\ w.pos[g] \in Nat /\ w.pos[g + 1] = w.pos[g] + 2
             /\ c[w.pos[g] + 1][1] = w.ia[g] /\ c[w.pos[g + 1]][1] = w.ia[g + 1]
             /\ w.pos[g] + 2 <= Len(c)
  <2>1. Link(w, c, g) /\ g \in 1 .. w.n /\ g + 1 \in 1 .. w.n
    BY <1>1, <1>3
  <2>2. w.pos[g + 1] = w.pos[g] + 2 /\ c[w.pos[g] + 1] = Eg(w, g) /\ c[w.pos[g] + 2] = In(w, g + 1)
    BY <2>1 DEF Link
  <2>3. Eg(w, g)[1] = w.ia[g] /\ In(w, g + 1)[1] = w.ia[g + 1]
    BY DEF Eg, In
  <2>4. w.pos[g] \in Nat /\ w.pos[g + 1] <= Len(c)
    BY <1>2, <2>1
  <2> QED
    BY <2>2, <2>3, <2>4
<1>4. ASSUME NEW g \in 1 .. (w.n - 1), ~Linked(w, g)
      PROVE  /\ g - 1 \in 1 .. (w.n - 1) /\ g + 1 \in 1 .. (w.n - 1) /\ Linked(w, g - 1) /\ Linked(w, g + 1)
             /\ w.ia[g + 1] = w.ia[g] /\ w.pos[g + 1] = w.pos[g]
  <2>1. Switch(w, g)
    BY <1>1, <1>4
  <2>2. 1 < g /\ g + 1 < w.n
    BY <2>1 DEF Switch
  <2>3. g - 1 \in 1 .. (w.n - 1) /\ g + 1 \in 1 .. (w.n - 1)
    BY <1>1, <2>2
  <2> QED
    BY <2>1, <2>3 DEF Switch
<1> DEFINE i == w.pos[h]
           f == h - 1
<1>5. f \in 1 .. (w.n - 1) /\ h \in 1 .. (w.n - 1) /\ f + 1 = h
  BY <1>1
<1>6. i \in Nat
  BY <1>1, <1>2
<1> HIDE DEF f
<1>7. i >= 2 /\ c[i][1] = w.ia[h]
  <2>1. CASE Linked(w, f)
    <3>1. w.pos[f] \in Nat /\ w.pos[f + 1] = w.pos[f] + 2 /\ c[w.pos[f + 1]][1] = w.ia[f + 1]
      BY <1>3, <1>5, <2>1
    <3> QED
      BY <1>5, <3>1
  <2>2. CASE ~Linked(w, f)
    <3> DEFINE e == f - 1
    <3>1. e \in 1 .. (w.n - 1) /\ Linked(w, e) /\ w.ia[f + 1] = w.ia[f] /\ w.pos[f + 1] = w.pos[f] /\ e + 1 = f
      BY <1>4, <1>5, <2>2
    <3> HIDE DEF e
    <3>2. w.pos[e] \in Nat /\ w.pos[e + 1] = w.pos[e] + 2 /\ c[w.pos[e + 1]][1] = w.ia[e + 1]
      BY <1>3, <3>1
    <3> QED
      BY <1>5, <3>1, <3>2
  <2> QED
    BY <2>1, <2>2
<1>8. i + 2 <= Len(c) /\ c[i + 1][1] = w.ia[h]
  <2>1. CASE Linked(w, h)
    <3>1. w.pos[h] + 2 <= Len(c) /\ c[w.pos[h] + 1][1] = w.ia[h]
      BY <1>3, <1>5, <2>1
    <3> QED
      BY <1>6, <1>20, <3>1
  <2>2. CASE ~Linked(w, h)
    <3> DEFINE e == h + 1
    <3>1. e \in 1 .. (w.n - 1) /\ Linked(w, e) /\ w.ia[e] = w.ia[h] /\ w.pos[e] = w.pos[h]
      BY <1>4, <1>5, <2>2
    <3> HIDE DEF e
    <3>2. w.pos[e] + 2 <= Len(c) /\ c[w.pos[e] + 1][1] = w.ia[e]
      BY <1>3, <3>1
    <3> QED
      BY <1>6, <1>20, <3>1, <3>2
  <2> QED
    BY <2>1, <2>2
<1> QED
  BY <1>6, <1>7, <1>8

\* A finite set of at most two elements has no three of them.
LEMMA NoThree ==
  ASSUME NEW S, IsFiniteSet(S), Cardinality(S) <= 2, NEW i \in S, NEW j \in S, NEW k \in S, i # j, i # k, j # k
  PROVE  FALSE
<1> DEFINE T == S \ {i}
           U == T \ {j}
           V == U \ {k}
<1>1. IsFiniteSet(T) /\ Cardinality(T) = Cardinality(S) - 1
  BY FS_RemoveElement
<1> HIDE DEF T
<1>2. IsFiniteSet(U) /\ Cardinality(U) = Cardinality(T) - 1
  BY <1>1, FS_RemoveElement DEF T
<1> HIDE DEF U
<1>3. IsFiniteSet(V) /\ Cardinality(V) = Cardinality(U) - 1
  BY <1>2, FS_RemoveElement DEF T, U
<1>4. Cardinality(V) \in Nat /\ Cardinality(S) \in Nat /\ Cardinality(T) \in Nat /\ Cardinality(U) \in Nat
  BY <1>1, <1>2, <1>3, FS_CardinalityType
<1> QED
  BY <1>1, <1>2, <1>3, <1>4

\* The filter lets no AS have three interfaces.
LEMMA Filtered ==
  ASSUME NEW P, NEW p \in filterLongPaths(P), NEW T, p.intfs \in Seq(T),
         NEW i \in 1 .. Len(p.intfs), NEW j \in 1 .. Len(p.intfs), NEW k \in 1 .. Len(p.intfs), i # j, i # k, j # k
  PROVE  ~(p.intfs[i][1] = p.intfs[j][1] /\ p.intfs[i][1] = p.intfs[k][1])
<1> DEFINE c == p.intfs
           S == {g \in DOMAIN c : c[g][1] = c[i][1]}
<1>1. DOMAIN c = 1 .. Len(c) /\ Len(c) \in Nat
  OBVIOUS
<1>2. Cardinality(S) <= 2
  BY <1>1 DEF filterLongPaths
<1>3. IsFiniteSet(1 .. Len(c))
  BY <1>1, FS_Interval
<1>4. IsFiniteSet(S)
  BY <1>1, <1>3, FS_Subset
<1> SUFFICES ASSUME c[i][1] = c[j][1], c[i][1] = c[k][1] PROVE FALSE
  OBVIOUS
<1>5. i \in S /\ j \in S /\ k \in S
  BY <1>1
<1> HIDE DEF S
<1> QED
  BY <1>2, <1>4, <1>5, NoThree

\* A solution that passes the filter enters its end points only at its ends.
LEMMA JourneyTrip ==
  ASSUME NEW P, NEW p \in filterLongPaths(P), NEW s, p = Path(s),
         NEW x, NEW y, x # y, NEW w, Journey(s, w, x, y)
  PROVE  Trip(w, p.intfs, x, y)
<1> DEFINE c == p.intfs
           n == w.n
<1>1. /\ Walk(w, c) /\ n > 1 /\ w.pos[1] = 0 /\ Len(c) = w.pos[n]
      /\ w.ia[1] = x /\ w.ia[n] = y
  BY DEF Journey, Route
<1>2. n \in Nat /\ c \in Seq(Interfaces) /\ Len(c) \in Nat
  BY <1>1 DEF Walk
<1>3. \A g \in 1 .. (n - 1) : ~Linked(w, g) => Switch(w, g)
  BY <1>1 DEF Walk
<1>4. Linked(w, 1) /\ Linked(w, n - 1)
  <2>1. 1 \in 1 .. (n - 1) /\ ~Switch(w, 1)
    BY <1>1, <1>2 DEF Switch
  <2> DEFINE g == n - 1
  <2>2. g \in 1 .. (n - 1) /\ g + 1 = n
    BY <1>1, <1>2
  <2> HIDE DEF g
  <2>3. ~Switch(w, g)
    BY <1>2, <2>2 DEF Switch
  <2>4. Linked(w, g)
    BY <1>3, <2>2, <2>3
  <2> QED
    BY <1>3, <2>1, <2>4 DEF g
<1>5. 1 \in 1 .. Len(c) /\ c[1][1] = x
  <2> DEFINE g == 1
  <2>1. g \in 1 .. (w.n - 1) /\ Linked(w, g) /\ w.pos[g] = 0
    BY <1>1, <1>2, <1>4
  <2> HIDE DEF g
  <2>2. w.pos[g + 1] = w.pos[g] + 2 /\ c[w.pos[g] + 1] = Eg(w, g)
    BY <1>1, <2>1, LinkFacts
  <2>3. w.pos[g + 1] <= Len(c) /\ g + 1 \in 1 .. n
    BY <1>1, <1>2, <2>1 DEF Walk
  <2>4. c[1] = Eg(w, g)
    BY <2>1, <2>2
  <2>5. c[1] = <<w.ia[1], w.eg[g]>>
    BY <2>4 DEF Eg, g
  <2> QED
    BY <1>1, <1>2, <2>1, <2>2, <2>3, <2>5
<1>6. Len(c) \in 1 .. Len(c) /\ c[Len(c)][1] = y
  <2> DEFINE g == n - 1
  <2>1. g \in 1 .. (w.n - 1) /\ Linked(w, g) /\ g + 1 = n
    BY <1>1, <1>2, <1>4
  <2> HIDE DEF g
  <2>2. w.pos[g] \in Nat /\ w.pos[g + 1] = w.pos[g] + 2 /\ c[w.pos[g] + 2] = In(w, g + 1)
    BY <1>1, <2>1, LinkFacts
  <2>3. Len(c) = w.pos[g] + 2
    BY <1>1, <2>1, <2>2
  <2>4. c[Len(c)] = In(w, n) /\ Len(c) >= 2
    BY <2>1, <2>2, <2>3
  <2>5. In(w, n)[1] = y
    BY <1>1 DEF In
  <2> QED
    BY <1>2, <2>4, <2>5
<1>7. ASSUME NEW h \in 2 .. (n - 1) PROVE w.ia[h] # x /\ w.ia[h] # y
  <2> DEFINE i == w.pos[h]
             j == i + 1
             l == Len(c)
             k == 1
  <2>1. i \in Nat /\ i >= 2 /\ i + 2 <= l /\ c[i][1] = w.ia[h] /\ c[j][1] = w.ia[h]
    BY <1>1, Middle
  <2>2. i \in 1 .. l /\ j \in 1 .. l /\ l \in 1 .. l /\ k \in 1 .. l /\ i # j /\ i # k /\ j # k /\ i # l /\ j # l
    <3>1. l \in Nat
      BY <1>2
    <3> HIDE DEF i, l
    <3> QED
      BY ONLY <2>1, <3>1 DEF j, k
  <2>3. c[k][1] = x /\ c[l][1] = y
    BY <1>5, <1>6
  <2> HIDE DEF i, j, k
  <2>4. ~(c[i][1] = c[j][1] /\ c[i][1] = c[k][1])
    BY <1>2, <2>2, Filtered
  <2>5. ~(c[i][1] = c[j][1] /\ c[i][1] = c[l][1])
    BY <1>2, <2>2, Filtered
  <2> QED
    BY <2>1, <2>3, <2>4, <2>5
<1>8. ASSUME NEW h \in 2 .. n PROVE w.ia[h] # x
  <2>1. h = n \/ h \in 2 .. (n - 1)
    BY <1>2
  <2> QED
    BY <1>1, <1>7, <2>1
<1>9. ASSUME NEW h \in 1 .. (n - 1) PROVE w.ia[h] # y
  <2>1. h = 1 \/ h \in 2 .. (n - 1)
    BY <1>2
  <2> QED
    BY <1>1, <1>7, <2>1
<1> QED
  BY <1>1, <1>8, <1>9 DEF Trip

\* A packet that sets out over p, with the list c of interfaces.
Ready(p, w, c, src, dst) == Trip(w, c, src, dst) /\ At(p, w, 1, w.beta[1])

\* Every path that Combine returns is ready for a packet and has no router alert.
LEMMA CombineReady ==
  ASSUME NEW ups, NEW cores, NEW downs,
         \A s \in ups : IsSegment(s, "child"), \A s \in cores : IsSegment(s, "core"), \A s \in downs : IsSegment(s, "child"),
         NEW x, NEW y, x # y, NEW p \in Combine(x, y, ups, cores, downs)
  PROVE  \E w : Ready(p.path, w, p.intfs, x, y) /\ Quiet(p.path)
<1> DEFINE dmg == newDMG(ups, cores, downs)
           src == vertexFromIA(x)
           dst == vertexFromIA(y)
           P == {Path(s) : s \in GetPaths(dmg, src, dst)}
<1>1. p \in filterLongPaths(P)
  BY DEF Combine
<1>2. PICK s \in GetPaths(dmg, src, dst) : p = Path(s)
  BY <1>1 DEF filterLongPaths
<1>3. \A e \in dmg : Uses(e)
  BY EdgeUses
<1> HIDE DEF dmg, src, dst, P
<1>40. Solved(s, dmg, src, dst)
  BY Solutions
<1>4. \/ \E e \in dmg : s = <<e>> /\ e.src = src /\ e.dst = dst
      \/ \E e, f \in dmg : s = Append(<<e>>, f) /\ e.src = src /\ Follows(e, f) /\ f.dst = dst
      \/ \E e, f, g \in dmg : s = Append(Append(<<e>>, f), g) /\ e.src = src /\ Follows(e, f) /\ Follows(f, g) /\ g.dst = dst
  BY ONLY <1>40 DEF Solved
<1>5. \E w : Journey(s, w, x, y)
  <2>1. CASE \E e \in dmg : s = <<e>> /\ e.src = src /\ e.dst = dst
    <3>1. PICK e \in dmg : s = <<e>> /\ e.src = src /\ e.dst = dst
      BY <2>1
    <3>2. Uses(e) /\ e.src = vertexFromIA(x) /\ e.dst = vertexFromIA(y)
      BY <1>3, <3>1 DEF src, dst
    <3> QED
      BY <3>1, <3>2, OneEdge
  <2>2. CASE \E e, f \in dmg : s = Append(<<e>>, f) /\ e.src = src /\ Follows(e, f) /\ f.dst = dst
    <3>1. PICK e, f \in dmg : s = Append(<<e>>, f) /\ e.src = src /\ Follows(e, f) /\ f.dst = dst
      BY <2>2
    <3>2. Uses(e) /\ Uses(f) /\ e.src = vertexFromIA(x) /\ f.dst = vertexFromIA(y)
      BY <1>3, <3>1 DEF src, dst
    <3> DEFINE r == <<e>>
    <3>3. r = <<e>> /\ s = Append(r, f) /\ Follows(e, f)
      BY <3>1
    <3> HIDE DEF r
    <3> QED
      BY ONLY <3>2, <3>3, TwoEdges
  <2>3. CASE \E e, f, g \in dmg : s = Append(Append(<<e>>, f), g) /\ e.src = src /\ Follows(e, f) /\ Follows(f, g) /\ g.dst = dst
    <3>1. PICK e, f, g \in dmg : s = Append(Append(<<e>>, f), g) /\ e.src = src /\ Follows(e, f) /\ Follows(f, g) /\ g.dst = dst
      BY <2>3
    <3>2. Uses(e) /\ Uses(f) /\ Uses(g) /\ e.src = vertexFromIA(x) /\ g.dst = vertexFromIA(y)
      BY <1>3, <3>1 DEF src, dst
    <3> DEFINE r == <<e>>
               q == Append(r, f)
    <3>3. r = <<e>> /\ q = Append(r, f) /\ s = Append(q, g) /\ Follows(e, f) /\ Follows(f, g)
      BY <3>1
    <3> HIDE DEF r, q
    <3> QED
      BY ONLY <3>2, <3>3, ThreeEdges
  <2> QED
    BY <1>4, <2>1, <2>2, <2>3
<1>6. PICK w : Journey(s, w, x, y)
  BY <1>5
<1>7. Trip(w, p.intfs, x, y)
  BY <1>1, <1>2, <1>6, JourneyTrip
<1>8. At(p.path, w, 1, w.beta[1]) /\ Quiet(p.path)
  BY <1>2, <1>6, JourneyAt
<1> QED
  BY <1>7, <1>8 DEF Ready

\* All paths a host is offered are ready.
LEMMA PathsReady ==
  ASSUME NEW x \in ASes, NEW y \in ASes, x # y, NEW p \in Paths[<<x, y>>]
  PROVE  \E w : Ready(p.path, w, p.intfs, x, y) /\ Quiet(p.path)
<1>1. \A s \in DownSegments : IsSegment(s, "child")
  BY BeaconAssumption, BeaconSegment DEF DownSegments
<1>2. \A s \in CoreSegments : IsSegment(s, "core")
  BY BeaconAssumption, BeaconSegment DEF CoreSegments
<1> DEFINE ups == UpSegmentsOf(x)
           downs == UpSegmentsOf(y)
           pair == <<x, y>>
<1>3. (\A s \in ups : IsSegment(s, "child")) /\ \A s \in downs : IsSegment(s, "child")
  BY <1>1 DEF UpSegmentsOf
<1>4. Paths[pair] = Combine(pair[1], pair[2], UpSegmentsOf(pair[1]), CoreSegments, UpSegmentsOf(pair[2]))
  BY DEF Paths
<1>5. p \in Combine(x, y, ups, CoreSegments, downs)
  BY <1>4
<1> HIDE DEF ups, downs
<1> QED
  BY <1>2, <1>3, <1>5, CombineReady

---------------------------------------------------------------------------
(* The inductive invariant.                                                  *)

\* Prefixes of a sequence.
LEMMA PrefixFacts ==
  ASSUME NEW T, NEW c, c \in Seq(T), NEW n \in 0 .. Len(c)
  PROVE  /\ IsPrefix(SubSeq(c, 1, n), c) /\ SubSeq(c, 1, Len(c)) = c /\ SubSeq(c, 1, 0) = <<>>
         /\ IsPrefix(<<>>, c) /\ IsPrefix(c, c)
<1> DEFINE s == SubSeq(c, 1, n)
<1>1. s \in Seq(T) /\ Len(s) = n /\ Len(c) \in Nat
  OBVIOUS
<1>2. SubSeq(s, 1, Len(s)) = s /\ SubSeq(c, 1, Len(c)) = c
  OBVIOUS
<1>3. SubSeq(c, 1, 0) = <<>> /\ SubSeq(<<>>, 1, 0) = <<>> /\ Len(<<>>) = 0
  OBVIOUS
<1>4. IsPrefix(s, c)
  BY <1>1, <1>2 DEF IsPrefix
<1>5. IsPrefix(<<>>, c) /\ IsPrefix(c, c)
  BY <1>1, <1>3 DEF IsPrefix
<1> QED
  BY <1>2, <1>3, <1>4, <1>5

\* A prefix that grows by two elements.
LEMMA TwoMore ==
  ASSUME NEW T, NEW c, c \in Seq(T), NEW n \in Nat, n + 2 <= Len(c), NEW x, x = c[n + 1], NEW y, y = c[n + 2]
  PROVE  SubSeq(c, 1, n) \o <<x, y>> = SubSeq(c, 1, n + 2)
<1> DEFINE s == SubSeq(c, 1, n)
           t == s \o <<x, y>>
           u == SubSeq(c, 1, n + 2)
<1>1. Len(c) \in Nat /\ s \in Seq(T) /\ Len(s) = n /\ \A i \in 1 .. n : s[i] = c[i]
  OBVIOUS
<1>2. x \in T /\ y \in T
  OBVIOUS
<1>3. <<x, y>> \in Seq(T) /\ Len(<<x, y>>) = 2
  BY <1>2
<1>4. u \in Seq(T) /\ Len(u) = n + 2 /\ \A i \in 1 .. (n + 2) : u[i] = c[i]
  OBVIOUS
<1>5. t \in Seq(T) /\ Len(t) = n + 2 /\ \A i \in 1 .. (n + 2) : t[i] = c[i]
  <2>1. t \in Seq(T) /\ Len(t) = n + 2
    BY <1>1, <1>3
  <2>2. ASSUME NEW i \in 1 .. (n + 2) PROVE t[i] = c[i]
    <3>1. i \in 1 .. n \/ i = n + 1 \/ i = n + 2
      OBVIOUS
    <3>2. CASE i \in 1 .. n
      BY <1>1, <1>3, <3>2
    <3>3. CASE i = n + 1
      BY <1>1, <1>3, <3>3
    <3>4. CASE i = n + 2
      BY <1>1, <1>3, <3>4
    <3> QED
      BY <3>1, <3>2, <3>3, <3>4
  <2> QED
    BY <2>1, <2>2
<1> HIDE DEF s, t, u
<1>6. t = u
  BY <1>4, <1>5, SeqEqual
<1> QED
  BY <1>6 DEF s, t, u

\* A packet that is not idle.
Header(pk) ==
  /\ pk = [kind |-> pk.kind, src |-> pk.src, dst |-> pk.dst, onehop |-> pk.onehop, path |-> pk.path,
           code |-> pk.code, names |-> pk.names]
  /\ pk.kind \in {"data", "svc", "request", "reply", "error"} /\ pk.onehop \in BOOLEAN
  /\ IsPath(pk.path) /\ Pointed(pk.path)

\* The packet pk of the exchange f, at the place l, is at hop k of the walk w and
\* has crossed the interfaces o.
Onto(w, k, f, pk, l, o) ==
  /\ Trip(w, f.intfs, f.src, f.dst) /\ k \in 1 .. w.n /\ Where(w, k, l.in, l.from, l.router)
  /\ At(pk.path, w, k, IF l.in = 0 THEN w.beta[k] ELSE Acc(w, k))
  /\ o = SubSeq(f.intfs, 1, w.pos[k])

Travels(f, pk, l, o) ==
  /\ pk.src = f.src /\ pk.dst = f.dst
  /\ l.at \in {"router", "host"} /\ pk.kind # "request" => Quiet(pk.path)
  /\ l.at = "router" => \E w, k : Onto(w, k, f, pk, l, o)
  /\ l.at = "host" => /\ l.ia = f.dst /\ o = f.intfs
                      /\ \E w : Trip(w, f.intfs, f.src, f.dst) /\ At(pk.path, w, w.n, w.beta[w.n])
  /\ l.at = "slow" => (l.do = "slow" => l.arg \in Excuses) /\ (l.do = "alert" => pk.kind = "request")
  /\ l.at # "dropped"

\* The path of a beacon sent over interface i: its first hop field, and x in
\* the accumulator.  Its second hop field once it is delivered.
OneHopID == {[seg |-> "onehop"]}
OneHopMAC(i) == MAC(i[1], OneHopID, 0, ExpTime[i[1]], 0, i[2])
OneHopAcc(i) == SymDiff(OneHopID, {OneHopMAC(i)})

OneHopFirst(i, p, x) ==
  /\ Len(p.infos) = 1 /\ Len(p.hops) = 2 /\ p.segLen[1] = 2 /\ p.currHF = 0 /\ p.currINF = 0 /\ Quiet(p)
  /\ p.infos[1].segID = x /\ p.infos[1].ts = 0 /\ p.infos[1].consDir /\ ~p.infos[1].peer
  /\ p.hops[1].in = 0 /\ p.hops[1].eg = i[2] /\ p.hops[1].exp = ExpTime[i[1]] /\ p.hops[1].mac = OneHopMAC(i)

OneHopSecond(i, p) ==
  /\ p.hops[2].in = Remote[i][2] /\ p.hops[2].eg = 0
  /\ p.hops[2].mac = MAC(Remote[i][1], OneHopAcc(i), 0, p.hops[2].exp, Remote[i][2], 0)

OneHop(f, pk, l, o) == \E i \in Interfaces :
  /\ f.src = i[1] /\ f.dst = Remote[i][1] /\ f.intfs = <<i, Remote[i]>>
  /\ pk.src = f.src /\ pk.dst = f.dst /\ pk.kind = "svc"
  /\ l.at \in {"router", "host", "dropped"}
  /\ l.at = "router" /\ l.in = 0 => l.router = RouterOf[i] /\ OneHopFirst(i, pk.path, OneHopID) /\ o = <<>>
  /\ l.at = "router" /\ l.in # 0 => /\ l.router = RouterOf[Remote[i]] /\ l.in = Remote[i][2]
                                    /\ OneHopFirst(i, pk.path, OneHopAcc(i)) /\ o = f.intfs
  /\ l.at = "host" => l.ia = f.dst /\ o = f.intfs /\ OneHopFirst(i, pk.path, OneHopAcc(i)) /\ OneHopSecond(i, pk.path)
  /\ l.at = "dropped" => f.dst \notin Backends

\* Packets that are not answers are on a walk of the exchange; answers stay readable.
Sits(f, pk, l, o) ==
  /\ l.at \in {"idle", "host", "router", "slow", "dropped"} /\ IsPrefix(o, f.intfs)
  /\ l.at = "slow" => l.do \in {"slow", "alert"}
  /\ l.at # "idle" => /\ Header(pk)
                      /\ ~IsAnswer(pk) /\ pk.onehop => OneHop(f, pk, l, o)
                      /\ ~IsAnswer(pk) /\ ~pk.onehop => Travels(f, pk, l, o)

Environment == down \subseteq Sessions /\ flaps \in 0 .. MaxFlaps /\ now \in Start .. MaxTime

IInv == Environment /\ Sits(flow, pkt, loc, out)

\* The fields of a packet.
LEMMA PacketFields ==
  ASSUME NEW kind, NEW x, NEW y, NEW b, NEW p, NEW c, NEW m,
         NEW pk, pk = [kind |-> kind, src |-> x, dst |-> y, onehop |-> b, path |-> p, code |-> c, names |-> m]
  PROVE  /\ pk.kind = kind /\ pk.src = x /\ pk.dst = y /\ pk.onehop = b /\ pk.path = p
         /\ pk = [kind |-> pk.kind, src |-> pk.src, dst |-> pk.dst, onehop |-> pk.onehop, path |-> pk.path,
                  code |-> pk.code, names |-> pk.names]
         /\ kind \in {"data", "svc", "request", "reply", "error"} /\ b \in BOOLEAN /\ IsPath(p) /\ Pointed(p) => Header(pk)
<1>1. /\ pk.kind = kind /\ pk.src = x /\ pk.dst = y /\ pk.onehop = b /\ pk.path = p /\ pk.code = c /\ pk.names = m
  OBVIOUS
<1> QED
  BY <1>1 DEF Header

\* A packet of a host is readable when its path is.
LEMMA PacketIs ==
  ASSUME NEW kind, NEW x, NEW y, NEW p, NEW pk, pk = Packet(kind, x, y, p)
  PROVE  /\ pk.kind = kind /\ pk.src = x /\ pk.dst = y /\ ~pk.onehop /\ pk.path = p
         /\ kind \in {"data", "svc", "request", "reply", "error"} /\ IsPath(p) /\ Pointed(p) => Header(pk)
<1> DEFINE b == FALSE
           c == ""
           m == <<>>
<1>1. pk = [kind |-> kind, src |-> x, dst |-> y, onehop |-> b, path |-> p, code |-> c, names |-> m]
  BY Zenon DEF Packet
<1>2. b \in BOOLEAN /\ ~b
  OBVIOUS
<1> HIDE DEF b, c, m
<1>3. /\ pk.kind = kind /\ pk.src = x /\ pk.dst = y /\ pk.onehop = b /\ pk.path = p
      /\ kind \in {"data", "svc", "request", "reply", "error"} /\ b \in BOOLEAN /\ IsPath(p) /\ Pointed(p) => Header(pk)
  BY <1>1, PacketFields
<1> QED
  BY <1>2, <1>3

\* A host sends a packet over a path that is ready.
LEMMA DepartSits ==
  ASSUME NEW kind \in {"data", "svc", "request"}, NEW p, NEW w, NEW c, NEW x, NEW y, Ready(p, w, c, x, y),
         kind # "request" => Quiet(p), NEW probe, NEW replied,
         NEW f, f = [src |-> x, dst |-> y, intfs |-> c, probe |-> probe, replied |-> replied],
         NEW pk, pk = Packet(kind, x, y, p), NEW l, l = FirstRouter(x, p), NEW o, o = <<>>
  PROVE  Sits(f, pk, l, o)
<1>1. f.src = x /\ f.dst = y /\ f.intfs = c
  OBVIOUS
<1>2. pk.kind = kind /\ pk.src = x /\ pk.dst = y /\ ~pk.onehop /\ pk.path = p
  BY PacketIs
<1>3. l.at = "router" /\ l.router = RouterOf[<<x, egressInterface(p)>>] /\ l.in = 0 /\ l.from = "host"
  BY DEF FirstRouter, AtRouter
<1> DEFINE k == 1
<1>4. Trip(w, c, x, y) /\ At(p, w, k, w.beta[k])
  BY DEF Ready
<1>5. IsPath(p) /\ Pointed(p) /\ Carries(p, w) /\ k \in 1 .. w.n /\ p.currHF = k - 1
  BY <1>4 DEF At, Carries
<1>6. Header(pk)
  BY <1>5, PacketIs
<1>7. w.ia[k] = x /\ w.pos[k] = 0 /\ c \in Seq(Interfaces)
  BY <1>4 DEF Trip, Walk
<1>8. k = 1
  OBVIOUS
<1> HIDE DEF k
<1>9. egressInterface(p) = w.eg[k]
  BY <1>5, HopFacts
<1>10. l.router = RouterOf[Eg(w, k)]
  BY <1>3, <1>7, <1>9 DEF Eg
<1>11. Where(w, k, l.in, l.from, l.router)
  BY <1>3, <1>8, <1>10 DEF Where
<1>12. o = SubSeq(c, 1, w.pos[k]) /\ IsPrefix(o, c)
  <2>1. 0 \in 0 .. Len(c)
    BY <1>7
  <2> QED
    BY <1>7, <2>1, PrefixFacts
<1>13. Onto(w, k, f, pk, l, o)
  BY <1>1, <1>2, <1>3, <1>4, <1>5, <1>11, <1>12 DEF Onto
<1>14. Travels(f, pk, l, o)
  BY <1>1, <1>2, <1>3, <1>13 DEF Travels
<1> QED
  BY <1>1, <1>2, <1>3, <1>6, <1>12, <1>14 DEF Sits

\* A probe of a traceroute goes the way of its path.
LEMMA ProbeReady ==
  ASSUME NEW p, NEW w, NEW c, NEW x, NEW y, Ready(p, w, c, x, y), NEW probe, NEW q, q = SetAlert(p, probe)
  PROVE  Ready(q, w, c, x, y)
<1>1. Trip(w, c, x, y) /\ At(p, w, 1, w.beta[1])
  BY DEF Ready
<1>2. IsPath(p) /\ Pointed(p) /\ Carries(p, w) /\ SegIDs(p, w, 1, w.beta[1]) /\ p.currHF = 1 - 1 /\ 1 \in 1 .. w.n
  BY <1>1 DEF At, Carries
<1>3. Alike(p, q) /\ q.currHF = p.currHF /\ q.currINF = p.currINF /\ q.infos = p.infos
  BY <1>2, SetAlertFacts
<1>4. Carries(q, w)
  BY <1>2, <1>3, AlikeCarries
<1>5. Pointed(q)
  BY <1>2, <1>3, AlikePointed DEF Moves
<1>6. SegIDs(q, w, 1, w.beta[1])
  BY <1>2, <1>3 DEF SegIDs
<1> QED
  BY <1>1, <1>2, <1>3, <1>4, <1>5, <1>6 DEF Ready, At

\* A packet with another path.
LEMMA HeaderPath ==
  ASSUME NEW pk, Header(pk), NEW p, IsPath(p), Pointed(p), NEW qk, qk = [pk EXCEPT !.path = p]
  PROVE  /\ Header(qk) /\ qk.kind = pk.kind /\ qk.src = pk.src /\ qk.dst = pk.dst /\ qk.onehop = pk.onehop /\ qk.path = p
         /\ IsAnswer(qk) <=> IsAnswer(pk)
<1>0. pk = [kind |-> pk.kind, src |-> pk.src, dst |-> pk.dst, onehop |-> pk.onehop, path |-> pk.path, code |-> pk.code, names |-> pk.names]
  BY DEF Header
<1>1. qk = [kind |-> pk.kind, src |-> pk.src, dst |-> pk.dst, onehop |-> pk.onehop, path |-> p, code |-> pk.code, names |-> pk.names]
  BY <1>0
<1>2. pk.kind \in {"data", "svc", "request", "reply", "error"} /\ pk.onehop \in BOOLEAN
  BY DEF Header
<1> DEFINE kind == pk.kind
           x == pk.src
           y == pk.dst
           b == pk.onehop
           c == pk.code
           m == pk.names
<1> HIDE DEF kind, x, y, b, c, m
<1>3. /\ qk.kind = kind /\ qk.src = x /\ qk.dst = y /\ qk.onehop = b /\ qk.path = p
      /\ kind \in {"data", "svc", "request", "reply", "error"} /\ b \in BOOLEAN /\ IsPath(p) /\ Pointed(p) => Header(qk)
  <2>1. qk = [kind |-> kind, src |-> x, dst |-> y, onehop |-> b, path |-> p, code |-> c, names |-> m]
    BY <1>1 DEF kind, x, y, b, c, m
  <2> QED
    BY ONLY <2>1, PacketFields
<1>4. kind \in {"data", "svc", "request", "reply", "error"} /\ b \in BOOLEAN
  BY <1>2 DEF kind, b
<1>5. Header(qk) /\ qk.kind = pk.kind /\ qk.src = pk.src /\ qk.dst = pk.dst /\ qk.onehop = pk.onehop /\ qk.path = p
  BY <1>3, <1>4 DEF kind, x, y, b
<1> QED
  BY <1>5 DEF IsAnswer

\* The link a packet crosses when router r sends it over interface id.
Leaving(r, id) == <<IA(r), id>>

\* Where the outcome z of the fast path at l puts the packet.
Lands(l, z, m) ==
  /\ z.do = "drop" => m = Dropped(IA(l.router))
  /\ z.do = "deliver" => m = AtHost(IA(l.router))
  /\ z.do = "internal" => m = AtRouter(SiblingFor(l.router, z.arg), 0, l.router)
  /\ z.do \in {"slow", "alert"} => m = AtSlowPath(l, z.do, z.arg)
  /\ z.do = "external" =>
        m = AtRouter(RouterOf[Remote[Leaving(l.router, z.arg)]], Remote[Leaving(l.router, z.arg)][2], "neighbour")

Passed(l, z, o, u) ==
  /\ z.do # "external" => u = o
  /\ z.do = "external" => u = o \o <<Leaving(l.router, z.arg), Remote[Leaving(l.router, z.arg)]>>

\* Where a packet lands after the fast path.
LEMMA Places ==
  ASSUME NEW l, NEW z, NEW m, Lands(l, z, m)
  PROVE  /\ z.do = "drop" => m.at = "dropped" /\ m.ia = IA(l.router)
         /\ z.do = "deliver" => m.at = "host" /\ m.ia = IA(l.router)
         /\ z.do = "internal" => m.at = "router" /\ m.in = 0 /\ m.from = l.router /\ m.router = SiblingFor(l.router, z.arg)
         /\ z.do \in {"slow", "alert"} => m.at = "slow" /\ m.do = z.do /\ m.arg = z.arg
         /\ z.do = "external" => LET i == Leaving(l.router, z.arg)
                                 IN  m.at = "router" /\ m.in = Remote[i][2] /\ m.from = "neighbour" /\ m.router = RouterOf[Remote[i]]
         /\ z.do \in Dispositions => /\ m.at \in {"host", "router", "slow", "dropped"}
                                     /\ m.at = "slow" => m.do \in {"slow", "alert"}
<1>1. z.do = "drop" => m.at = "dropped" /\ m.ia = IA(l.router)
  BY DEF Lands, Dropped
<1>2. z.do = "deliver" => m.at = "host" /\ m.ia = IA(l.router)
  BY DEF Lands, AtHost
<1>3. z.do = "internal" => m.at = "router" /\ m.in = 0 /\ m.from = l.router /\ m.router = SiblingFor(l.router, z.arg)
  BY DEF Lands, AtRouter
<1>4. z.do \in {"slow", "alert"} => m.at = "slow" /\ m.do = z.do /\ m.arg = z.arg
  BY DEF Lands, AtSlowPath
<1>5. z.do = "external" => LET i == Leaving(l.router, z.arg)
                           IN  m.at = "router" /\ m.in = Remote[i][2] /\ m.from = "neighbour" /\ m.router = RouterOf[Remote[i]]
  BY DEF Lands, AtRouter
<1> QED
  BY <1>1, <1>2, <1>3, <1>4, <1>5 DEF Dispositions

\* The fast path keeps a packet on its walk.
LEMMA FastTravels ==
  ASSUME NEW f, NEW pk, NEW l, NEW o, Header(pk), ~IsAnswer(pk), ~pk.onehop, Travels(f, pk, l, o), l.at = "router",
         NEW now_, NEW down_, NEW z, z = process(l.router, l.in, l.from, pk, now_, down_),
         NEW qk, qk = [pk EXCEPT !.path = z.path], NEW m, Lands(l, z, m), NEW u, Passed(l, z, o, u)
  PROVE  Sits(f, qk, m, u)
<1>1. PICK w, k : Onto(w, k, f, pk, l, o)
  BY DEF Travels
<1> DEFINE c == f.intfs
           src == f.src
           dst == f.dst
           in == l.in
           from == l.from
           r == l.router
<1>2. /\ Trip(w, c, src, dst) /\ k \in 1 .. w.n /\ Where(w, k, in, from, r)
      /\ At(pk.path, w, k, IF in = 0 THEN w.beta[k] ELSE Acc(w, k))
      /\ o = SubSeq(c, 1, w.pos[k])
  BY <1>1 DEF Onto
<1>3. pk.src = src /\ pk.dst = dst /\ (pk.kind # "request" => Quiet(pk.path))
  BY DEF Travels
<1>4. z = process(r, in, from, pk, now_, down_)
  OBVIOUS
<1>5. IsPath(pk.path) /\ Pointed(pk.path)
  BY DEF Header
<1> HIDE DEF c, src, dst, in, from, r
<1>6. Onward(w, k, r, pk, z)
  BY <1>2, <1>3, <1>4, ProcessOnward
<1>7. z.do \in Dispositions /\ IsPath(z.path) /\ Pointed(z.path)
  BY <1>4, <1>5, ProcessDisposes DEF Disposes, Moves, Alike
<1>8. /\ Header(qk) /\ qk.kind = pk.kind /\ qk.src = pk.src /\ qk.dst = pk.dst /\ qk.onehop = pk.onehop /\ qk.path = z.path
      /\ ~IsAnswer(qk)
  BY <1>7, HeaderPath
<1>9. Walk(w, c) /\ c \in Seq(Interfaces) /\ Len(c) \in Nat /\ Len(c) = w.pos[w.n] /\ w.n \in Nat /\ w.ia[w.n] = dst
  BY <1>2 DEF Trip, Walk
<1>10. \A h \in 1 .. w.n : w.pos[h] \in 0 .. Len(c)
  BY <1>9 DEF Walk
<1>11. m.at \in {"host", "router", "slow", "dropped"} /\ (m.at = "slow" => m.do \in {"slow", "alert"})
  BY <1>7, Places
<1>12. SUFFICES Travels(f, qk, m, u) /\ IsPrefix(u, c)
  BY <1>8, <1>11 DEF Sits, c
<1>13. IsPrefix(o, c)
  BY <1>2, <1>9, <1>10, PrefixFacts
<1>14. z.path.hops = pk.path.hops => (qk.kind # "request" => Quiet(qk.path))
  BY <1>3, <1>8 DEF Quiet
<1>15. CASE z.do = "slow" /\ z.arg \in Excuses
  <2>1. m.at = "slow" /\ m.do = "slow" /\ m.arg = z.arg /\ u = o
    BY <1>15, Places DEF Passed
  <2> QED
    BY <1>3, <1>8, <1>13, <1>15, <2>1 DEF Travels, src, dst
<1>16. CASE z.do = "alert" /\ pk.kind = "request"
  <2>1. m.at = "slow" /\ m.do = "alert" /\ u = o
    BY <1>16, Places DEF Passed
  <2> QED
    BY <1>3, <1>8, <1>13, <1>16, <2>1 DEF Travels, src, dst
<1>17. CASE /\ z.do = "deliver" /\ z.path.hops = pk.path.hops
            /\ k = w.n /\ IA(r) = w.ia[w.n] /\ At(z.path, w, w.n, w.beta[w.n])
  <2>1. m.at = "host" /\ m.ia = IA(l.router) /\ u = o
    BY <1>17, Places DEF Passed
  <2>2. m.ia = dst
    BY <1>9, <1>17, <2>1 DEF r
  <2>3. o = c
    <3>1. o = SubSeq(c, 1, Len(c)) /\ Len(c) \in 0 .. Len(c)
      BY <1>2, <1>9, <1>17
    <3> QED
      BY <1>9, <3>1, PrefixFacts
  <2>4. Trip(w, f.intfs, f.src, f.dst) /\ At(qk.path, w, w.n, w.beta[w.n])
    BY <1>2, <1>8, <1>17 DEF c, src, dst
  <2>5. Travels(f, qk, m, u)
    BY <1>3, <1>8, <1>14, <1>17, <2>1, <2>2, <2>3, <2>4 DEF Travels, src, dst, c
  <2> QED
    BY <1>13, <2>1, <2>5
<1>18. ASSUME z.do = "external", z.path.hops = pk.path.hops, NEW j \in 1 .. (w.n - 1),
              Linked(w, j), w.pos[j] = w.pos[k], IA(r) = w.ia[j], z.arg = w.eg[j], At(z.path, w, j + 1, Acc(w, j + 1))
       PROVE  Travels(f, qk, m, u) /\ IsPrefix(u, c)
  <2> DEFINE i == Leaving(l.router, z.arg)
             y == Remote[i]
             g == j + 1
             n == w.pos[j]
  <2>1. m.at = "router" /\ m.in = y[2] /\ m.from = "neighbour" /\ m.router = RouterOf[y] /\ u = o \o <<i, y>>
    BY <1>18, Places DEF Passed
  <2>2. i = Eg(w, j)
    BY <1>18 DEF Leaving, Eg, r
  <2>3. /\ Remote[Eg(w, j)] = In(w, g) /\ w.in[g] # 0 /\ n \in Nat /\ w.pos[g] = n + 2
        /\ c[n + 1] = Eg(w, j) /\ c[n + 2] = In(w, g)
    BY <1>9, <1>18, LinkFacts
  <2>4. y = In(w, g)
    BY <2>2, <2>3
  <2>5. m.in = w.in[g] /\ m.router = RouterOf[In(w, g)]
    BY <2>1, <2>4 DEF In
  <2>6. g \in 1 .. w.n /\ g > 1 /\ g - 1 = j
    BY <1>9
  <2>7. Where(w, g, m.in, m.from, m.router)
    BY <1>18, <2>3, <2>5, <2>6 DEF Where
  <2> HIDE DEF i, y, g, n
  <2>80. w.pos[g] \in 0 .. Len(c)
    BY <1>10, <2>6
  <2>8. w.pos[g] \in 0 .. Len(c) /\ n + 2 <= Len(c)
    BY <1>9, <2>3, <2>80
  <2>9. SubSeq(c, 1, n) \o <<i, y>> = SubSeq(c, 1, n + 2)
    BY <1>9, <2>2, <2>3, <2>4, <2>8, TwoMore
  <2>10. o = SubSeq(c, 1, n)
    BY <1>2, <1>18 DEF n
  <2>11. u = SubSeq(c, 1, w.pos[g])
    BY <2>1, <2>3, <2>9, <2>10
  <2>12. IsPrefix(u, c)
    BY <1>9, <2>8, <2>11, PrefixFacts
  <2>13. At(qk.path, w, g, IF m.in = 0 THEN w.beta[g] ELSE Acc(w, g))
    BY <1>8, <1>18, <2>3, <2>5 DEF g
  <2>14. Onto(w, g, f, qk, m, u)
    BY <1>2, <2>6, <2>7, <2>11, <2>13 DEF Onto, c, src, dst
  <2>15. Travels(f, qk, m, u)
    BY <1>3, <1>8, <1>14, <1>18, <2>1, <2>14 DEF Travels, src, dst
  <2> QED
    BY <2>12, <2>15
<1>19. ASSUME z.do = "internal", z.path.hops = pk.path.hops, NEW j \in 1 .. w.n, w.pos[j] = w.pos[k],
              At(z.path, w, j, w.beta[j]), Where(w, j, 0, r, SiblingFor(r, z.arg))
       PROVE  Travels(f, qk, m, u) /\ IsPrefix(u, c)
  <2>1. m.at = "router" /\ m.in = 0 /\ m.from = r /\ m.router = SiblingFor(r, z.arg) /\ u = o
    BY <1>19, Places DEF Passed, r
  <2>2. Onto(w, j, f, qk, m, u)
    BY <1>2, <1>8, <1>19, <2>1 DEF Onto, c, src, dst
  <2>3. Travels(f, qk, m, u)
    BY <1>3, <1>8, <1>14, <1>19, <2>1, <2>2 DEF Travels, src, dst
  <2> QED
    BY <1>13, <2>1, <2>3
<1> QED
  BY <1>6, <1>15, <1>16, <1>17, <1>18, <1>19 DEF Onward

\* A beacon sets out.
LEMMA OneHopDeparts ==
  ASSUME NEW i \in Interfaces, NEW p,
         p = [segLen |-> <<2, 0, 0>>, infos |-> <<InfoField(OneHopID, 0, TRUE, FALSE)>>,
              hops |-> <<createHopF(i[1], 0, i[2], 0, OneHopID), HopField(0, 0, 0, <<>>)>>, currINF |-> 0, currHF |-> 0]
  PROVE  IsPath(p) /\ Pointed(p) /\ OneHopFirst(i, p, OneHopID)
<1> DEFINE x == InfoField(OneHopID, 0, TRUE, FALSE)
           g == createHopF(i[1], 0, i[2], 0, OneHopID)
           h == HopField(0, 0, 0, <<>>)
           len == <<2, 0, 0>>
           infos == <<x>>
           hops == <<g, h>>
<1>1. IsInfo(x) /\ x.segID = OneHopID /\ x.ts = 0 /\ x.consDir /\ ~x.peer
  <2> DEFINE c == TRUE
             d == FALSE
             o == 0
  <2>1. c \in BOOLEAN /\ d \in BOOLEAN /\ c /\ ~d
    OBVIOUS
  <2>3. x = InfoField(OneHopID, o, c, d)
    BY Zenon
  <2> HIDE DEF x, c, d, o
  <2>2. IsInfo(x) /\ x.segID = OneHopID /\ x.ts = o /\ x.consDir = c /\ x.peer = d
    <3>1. x = [segID |-> OneHopID, ts |-> o, consDir |-> c, peer |-> d]
      BY <2>3 DEF InfoField
    <3>2. x.segID = OneHopID /\ x.ts = o /\ x.consDir = c /\ x.peer = d
      BY ONLY <3>1
    <3>3. IsInfo(x)
      BY ONLY <2>1, <3>1, <3>2 DEF IsInfo
    <3> QED
      BY <3>2, <3>3
  <2> QED
    BY <2>1, <2>2 DEF o
<1>2. /\ IsHop(g) /\ g.in = 0 /\ g.eg = i[2] /\ g.exp = ExpTime[i[1]] /\ g.mac = OneHopMAC(i)
      /\ g.inAlert = FALSE /\ g.egAlert = FALSE
  <2> DEFINE a == i[1]
             b == i[2]
             o == 0
             u == ExpTime[a]
             mac == MAC(a, OneHopID, 0, u, 0, b)
  <2>1. g = HopField(o, b, u, mac)
    BY Zenon DEF createHopF
  <2> HIDE DEF g, o, u, mac
  <2>2. IsHop(g) /\ g.in = o /\ g.eg = b /\ g.exp = u /\ g.mac = mac /\ g.inAlert = FALSE /\ g.egAlert = FALSE
    BY ONLY <2>1 DEF HopField, IsHop
  <2> QED
    BY <2>2 DEF OneHopMAC, mac, o, u
<1>3. IsHop(h) /\ h.inAlert = FALSE /\ h.egAlert = FALSE
  BY ONLY DEF HopField, IsHop
<1> HIDE DEF x, g, h
<1>4. IsSeq(infos) /\ Len(infos) = 1 /\ infos[1] = x
  BY DEF IsSeq
<1>5. IsSeq(hops) /\ Len(hops) = 2 /\ hops[1] = g /\ hops[2] = h
  BY DEF IsSeq
<1>6. len = [j \in 1 .. 3 |-> len[j]] /\ len[1] = 2 /\ len[2] = 0 /\ len[3] = 0
  OBVIOUS
<1>7. p = [segLen |-> len, infos |-> infos, hops |-> hops, currINF |-> 0, currHF |-> 0]
  BY DEF x, g, h
<1> HIDE DEF infos, hops, len
<1>8. p.segLen = len /\ p.infos = infos /\ p.hops = hops /\ p.currINF = 0 /\ p.currHF = 0
  BY ONLY <1>7
<1>9. Measured(len, 1, 2)
  BY <1>6 DEF Measured
<1>10. /\ \A j \in 1 .. Len(infos) : infos[j] = x
       /\ \A j \in 1 .. Len(hops) : hops[j] \in {g, h}
  BY <1>4, <1>5
<1>11. IsPath(p)
  BY <1>1, <1>2, <1>3, <1>4, <1>5, <1>7, <1>8, <1>9, <1>10 DEF IsPath
<1>12. infIndexForHF(p, 0) = 0
  BY <1>6, <1>8 DEF infIndexForHF
<1>13. Pointed(p)
  BY <1>5, <1>8, <1>12 DEF Pointed
<1>14. Quiet(p)
  BY <1>2, <1>3, <1>8, <1>10 DEF Quiet
<1> QED
  BY <1>1, <1>2, <1>4, <1>5, <1>6, <1>8, <1>11, <1>13, <1>14 DEF OneHopFirst

\* The router at the origin sends it over the link.
LEMMA OneHopLeaves ==
  ASSUME NEW i \in Interfaces, NEW pk, IsPath(pk.path), Pointed(pk.path), OneHopFirst(i, pk.path, OneHopID),
         pk.src = i[1], pk.dst = Remote[i][1], NEW r, r = RouterOf[i], NEW in, in = 0
  PROVE  LET z == processOHP(r, in, pk)
         IN  z.do = "external" /\ z.arg = i[2] /\ OneHopFirst(i, z.path, OneHopAcc(i))
<1> DEFINE p == pk.path
           q == UpdateSegID(p)
           z == processOHP(r, in, pk)
<1>1. r \in Routers /\ IA(r) = i[1] /\ i = <<i[1], i[2]>>
  BY InterfaceFacts
<1>2. i[2] \in external(r)
  <2> DEFINE ia == i[1]
             id == i[2]
  <2>1. <<ia, id>> \in Interfaces /\ RouterOf[<<ia, id>>] = r /\ IA(r) = ia
    BY <1>1
  <2> HIDE DEF ia, id
  <2>2. id \in external(r)
    BY <1>1, <2>1, KnownInterfaces
  <2> QED
    BY <2>2 DEF id
<1>3. Info(p) = p.infos[1] /\ Hop(p) = p.hops[1]
  BY DEF Info, Hop, OneHopFirst
<1>4. /\ Info(p).consDir /\ Info(p).segID = OneHopID /\ Info(p).ts = 0 /\ Hop(p).in = 0 /\ Hop(p).eg = i[2]
      /\ Hop(p).exp = ExpTime[i[1]] /\ Hop(p).mac = OneHopMAC(i)
  BY <1>3 DEF OneHopFirst
<1>5. verifyCurrentMAC(r, p)
  BY <1>1, <1>4 DEF verifyCurrentMAC, OneHopMAC
<1>6. z = Outcome("external", Hop(p).eg, q)
  <2>1. pk.dst = Remote[<<IA(r), Hop(p).eg>>][1]
    BY <1>1, <1>4
  <2> QED
    BY <1>1, <1>2, <1>4, <1>5, <2>1 DEF processOHP
<1>7. /\ Alike(p, q) /\ q.currHF = p.currHF /\ q.currINF = p.currINF /\ q.hops = p.hops
      /\ \A j \in 1 .. Len(p.infos) : q.infos[j].segID =
            IF j = p.currINF + 1 THEN SymDiff(p.infos[j].segID, {Hop(p).mac}) ELSE p.infos[j].segID
  BY UpdateFacts
<1>8. z.do = "external" /\ z.arg = i[2] /\ z.path = q
  BY <1>4, <1>6 DEF Outcome
<1> HIDE DEF q, z
<1>9. Len(p.infos) = 1 /\ p.currINF + 1 = 1 /\ 1 \in 1 .. Len(p.infos)
  BY DEF OneHopFirst
<1>10. /\ q.infos[1].segID = OneHopAcc(i) /\ q.infos[1].ts = p.infos[1].ts /\ q.infos[1].consDir = p.infos[1].consDir
       /\ q.infos[1].peer = p.infos[1].peer /\ q.segLen = p.segLen /\ Len(q.infos) = 1
  BY <1>3, <1>4, <1>7, <1>9 DEF Alike, OneHopAcc
<1>11. OneHopFirst(i, q, OneHopAcc(i))
  BY <1>7, <1>10 DEF OneHopFirst, Quiet
<1> QED
  BY <1>8, <1>11 DEF z

\* The router behind the link fills in the second hop field and delivers it.
LEMMA OneHopArrives ==
  ASSUME NEW i \in Interfaces, NEW pk, IsPath(pk.path), Pointed(pk.path), OneHopFirst(i, pk.path, OneHopAcc(i)),
         pk.src = i[1], pk.dst = Remote[i][1], NEW r, r = RouterOf[Remote[i]], NEW in, in = Remote[i][2]
  PROVE  LET z == processOHP(r, in, pk)
         IN  \/ z.do = "drop" /\ Remote[i][1] \notin Backends
             \/ z.do = "deliver" /\ OneHopFirst(i, z.path, OneHopAcc(i)) /\ OneHopSecond(i, z.path)
<1> DEFINE p == pk.path
           z == processOHP(r, in, pk)
           y == Remote[i]
           second == createHopF(IA(r), in, 0, Info(p).ts, Info(p).segID)
           mac == MAC(IA(r), Info(p).segID, Info(p).ts, Hop(p).exp, in, 0)
           x == [second EXCEPT !.exp = Hop(p).exp, !.mac = mac]
           k == 2
           q == WithHop(p, k, x)
<1>1. y \in Interfaces /\ Remote[y] = i
  BY InterfaceFacts
<1>2. r \in Routers /\ IA(r) = y[1] /\ y = <<y[1], y[2]>> /\ in # 0
  BY <1>1, InterfaceFacts
<1>3. Info(p) = p.infos[1] /\ Hop(p) = p.hops[1]
  BY DEF Info, Hop, OneHopFirst
<1>4. Info(p).consDir /\ Info(p).segID = OneHopAcc(i) /\ Info(p).ts = 0
  BY <1>3 DEF OneHopFirst
<1>5. pk.dst = IA(r) /\ pk.src = Remote[<<IA(r), in>>][1]
  BY <1>1, <1>2
<1>6. (z = Outcome("drop", 0, p) /\ y[1] \notin Backends) \/ z = Outcome("deliver", 0, q)
  BY <1>2, <1>4, <1>5 DEF processOHP, WithHop
<1>7. second = HopField(in, 0, second.exp, second.mac)
  BY DEF createHopF, HopField
<1>8. /\ IsHop(x) /\ x.in = in /\ x.eg = 0 /\ x.exp = Hop(p).exp /\ x.mac = mac /\ x.inAlert = FALSE /\ x.egAlert = FALSE
  <2>1. IsHop(second) /\ second.in = in /\ second.eg = 0 /\ second.inAlert = FALSE /\ second.egAlert = FALSE
    BY DEF createHopF, HopField, IsHop
  <2> DEFINE u == [second EXCEPT !.exp = Hop(p).exp]
  <2>2. x = [u EXCEPT !.mac = mac]
    OBVIOUS
  <2> HIDE DEF second, mac, x
  <2>3. IsHop(u) /\ u.in = in /\ u.eg = 0 /\ u.exp = Hop(p).exp /\ u.inAlert = FALSE /\ u.egAlert = FALSE
    BY <2>1 DEF IsHop
  <2> HIDE DEF u
  <2> QED
    BY <2>2, <2>3 DEF IsHop
<1> HIDE DEF x, k
<1>9. /\ IsPath(q) /\ q.segLen = p.segLen /\ q.infos = p.infos /\ Len(q.hops) = Len(p.hops)
      /\ q.currHF = p.currHF /\ q.currINF = p.currINF
      /\ \A h \in 1 .. Len(p.hops) : q.hops[h] = IF h = k THEN x ELSE p.hops[h]
  BY <1>8, WithHopPath
<1> HIDE DEF q, z
<1>10. Len(p.hops) = 2
  BY DEF OneHopFirst
<1>11. q.hops[1] = p.hops[1] /\ q.hops[2] = x
  BY <1>9, <1>10 DEF k
<1>12. Quiet(q)
  <2>1. \A h \in 1 .. Len(q.hops) : h = 1 \/ h = 2
    BY <1>9, <1>10
  <2>2. p.hops[1].inAlert = FALSE /\ p.hops[1].egAlert = FALSE
    BY <1>10 DEF OneHopFirst, Quiet
  <2> QED
    BY <1>8, <1>11, <2>1, <2>2 DEF Quiet
<1>13. OneHopFirst(i, q, OneHopAcc(i))
  BY <1>9, <1>11, <1>12 DEF OneHopFirst
<1>14. OneHopSecond(i, q)
  <2>1. mac = MAC(y[1], OneHopAcc(i), 0, x.exp, y[2], 0)
    BY <1>2, <1>4, <1>8
  <2> QED
    BY <1>8, <1>11, <2>1 DEF OneHopSecond
<1>15. CASE z = Outcome("drop", 0, p) /\ y[1] \notin Backends
  BY <1>15 DEF Outcome, z
<1>16. CASE z = Outcome("deliver", 0, q)
  <2>1. z.do = "deliver" /\ z.path = q
    BY <1>16 DEF Outcome
  <2> QED
    BY <1>13, <1>14, <2>1 DEF z
<1> QED
  BY <1>6, <1>15, <1>16

\* The two hops of a beacon.
OneHopWalk(i, p) ==
  [n |-> 2, ia |-> <<i[1], Remote[i][1]>>, in |-> <<0, Remote[i][2]>>, eg |-> <<i[2], 0>>, sg |-> <<1, 1>>,
   cd |-> {1, 2}, pr |-> {}, beta |-> <<OneHopID, OneHopAcc(i)>>, mac |-> <<OneHopMAC(i), p.hops[2].mac>>, pos |-> <<0, 2>>]

\* The fields of the walk of a beacon.
LEMMA OneHopWalkFields ==
  ASSUME NEW i, NEW p, NEW w, w = OneHopWalk(i, p)
  PROVE  /\ w.n = 2 /\ w.ia[1] = i[1] /\ w.ia[2] = Remote[i][1] /\ w.in[1] = 0 /\ w.in[2] = Remote[i][2]
         /\ w.eg[1] = i[2] /\ w.eg[2] = 0 /\ w.sg[1] = 1 /\ w.sg[2] = 1 /\ w.cd = {1, 2} /\ w.pr = {}
         /\ w.beta[1] = OneHopID /\ w.beta[2] = OneHopAcc(i)
         /\ w.mac[1] = OneHopMAC(i) /\ w.mac[2] = p.hops[2].mac
         /\ w.pos[1] = 0 /\ w.pos[2] = 2
<1>1. /\ w.n = 2 /\ w.ia = <<i[1], Remote[i][1]>> /\ w.in = <<0, Remote[i][2]>> /\ w.eg = <<i[2], 0>> /\ w.sg = <<1, 1>>
      /\ w.cd = {1, 2} /\ w.pr = {} /\ w.beta = <<OneHopID, OneHopAcc(i)>> /\ w.mac = <<OneHopMAC(i), p.hops[2].mac>> /\ w.pos = <<0, 2>>
  BY DEF OneHopWalk
<1> QED
  BY ONLY <1>1

\* A beacon goes over one link.
LEMMA OneHopTrip ==
  ASSUME NEW i \in Interfaces, NEW p, NEW w, w = OneHopWalk(i, p), NEW c, c = <<i, Remote[i]>>
  PROVE  Trip(w, c, i[1], Remote[i][1])
<1> DEFINE y == Remote[i]
<1>1. y \in Interfaces /\ y[1] # i[1] /\ i = <<i[1], i[2]>>
  BY InterfaceFacts
<1>2. y = <<y[1], y[2]>>
  BY <1>1, InterfaceFacts
<1>3. /\ w.n = 2 /\ w.ia[1] = i[1] /\ w.ia[2] = y[1] /\ w.in[1] = 0 /\ w.in[2] = y[2]
      /\ w.eg[1] = i[2] /\ w.eg[2] = 0 /\ w.sg[1] = 1 /\ w.sg[2] = 1 /\ w.cd = {1, 2} /\ w.pr = {}
      /\ w.beta[1] = OneHopID /\ w.beta[2] = OneHopAcc(i)
      /\ w.mac[1] = OneHopMAC(i)
      /\ w.pos[1] = 0 /\ w.pos[2] = 2
  BY OneHopWalkFields
<1>4. c \in Seq(Interfaces) /\ Len(c) = 2 /\ c[1] = i /\ c[2] = y
  BY <1>1
<1> HIDE DEF y
<1>5. Eg(w, 1) = i /\ In(w, 2) = y
  BY <1>1, <1>2, <1>3 DEF Eg, In
<1>6. Linked(w, 1)
  BY <1>3 DEF Linked
<1>7. Link(w, c, 1)
  BY <1>3, <1>4, <1>5 DEF Link, y
<1>8. Chained(w, 1)
  BY <1>3 DEF Chained, OneHopAcc
<1>9. Walk(w, c)
  <2>1. \A h \in 1 .. w.n : h = 1 \/ h = 2
    BY <1>3
  <2>2. \A h \in 1 .. (w.n - 1) : h = 1
    BY <1>3
  <2>3. \A h \in 2 .. (w.n - 1) : FALSE
    BY <1>3
  <2>4. \A h \in 1 .. w.n : w.pos[h] \in Nat /\ w.pos[h] <= Len(c) /\ w.sg[h] \in Nat /\ 1 <= w.sg[h] /\ w.sg[h] <= w.sg[w.n]
    BY <1>3, <1>4, <2>1
  <2>5. w.n \in Nat /\ w.n > 0 /\ w.pos[1] \in {0, 1} /\ Len(c) = w.pos[w.n] /\ Len(c) # w.pos[w.n] + 1 /\ w.pos[1] # 1
    BY <1>3, <1>4
  <2> QED
    BY <1>3, <1>4, <1>6, <1>7, <1>8, <2>2, <2>3, <2>4, <2>5 DEF Walk
<1>10. /\ \A h \in 2 .. w.n : w.ia[h] # i[1]
       /\ \A h \in 1 .. (w.n - 1) : w.ia[h] # y[1]
  <2>1. (\A h \in 2 .. w.n : h = 2) /\ \A h \in 1 .. (w.n - 1) : h = 1
    BY <1>3
  <2> QED
    BY <1>1, <1>3, <2>1
<1>11. w.n > 1 /\ w.pos[1] = 0 /\ Len(c) = w.pos[w.n] /\ w.ia[1] = i[1] /\ w.ia[w.n] = y[1]
  BY <1>3, <1>4
<1> QED
  BY <1>9, <1>10, <1>11 DEF Trip, y

\* The receiver of a beacon moves the pointers on.
LEMMA OneHopEnds ==
  ASSUME NEW i \in Interfaces, NEW p, IsPath(p), Pointed(p), OneHopFirst(i, p, OneHopAcc(i)), OneHopSecond(i, p),
         NEW w, w = OneHopWalk(i, p), NEW c, c = <<i, Remote[i]>>
  PROVE  At(IncPath(p), w, w.n, w.beta[w.n]) /\ Quiet(IncPath(p))
<1>1. Trip(w, c, i[1], Remote[i][1])
  BY OneHopTrip
<1>2. Walk(w, c)
  BY <1>1 DEF Trip
<1>3. /\ w.n = 2 /\ w.ia[1] = i[1] /\ w.ia[2] = Remote[i][1] /\ w.in[1] = 0 /\ w.in[2] = Remote[i][2]
      /\ w.eg[1] = i[2] /\ w.eg[2] = 0 /\ w.sg[1] = 1 /\ w.sg[2] = 1 /\ w.cd = {1, 2} /\ w.pr = {}
      /\ w.beta[1] = OneHopID /\ w.beta[2] = OneHopAcc(i)
      /\ w.mac[1] = OneHopMAC(i) /\ w.mac[2] = p.hops[2].mac
  BY OneHopWalkFields
<1>4. /\ Len(p.infos) = 1 /\ Len(p.hops) = 2 /\ p.segLen[1] = 2 /\ p.currHF = 0 /\ Quiet(p)
      /\ p.infos[1].segID = OneHopAcc(i) /\ p.infos[1].ts = 0 /\ p.infos[1].consDir /\ ~p.infos[1].peer
      /\ p.hops[1].in = 0 /\ p.hops[1].eg = i[2] /\ p.hops[1].exp = ExpTime[i[1]] /\ p.hops[1].mac = OneHopMAC(i)
  BY DEF OneHopFirst
<1>5. /\ p.hops[2].in = Remote[i][2] /\ p.hops[2].eg = 0
      /\ p.hops[2].mac = MAC(Remote[i][1], OneHopAcc(i), 0, p.hops[2].exp, Remote[i][2], 0)
  BY DEF OneHopSecond
<1>6. infIndexForHF(p, 0) = 0 /\ infIndexForHF(p, 1) = 0
  BY <1>4 DEF infIndexForHF
<1>7. Content(p, w, 1)
  <2>1. p.hops[1].mac = MAC(w.ia[1], w.beta[1], p.infos[1].ts, p.hops[1].exp, p.hops[1].in, p.hops[1].eg)
    BY <1>3, <1>4 DEF OneHopMAC
  <2>2. IngressOf(p.infos[1], p.hops[1]) = w.in[1] /\ EgressOf(p.infos[1], p.hops[1]) = w.eg[1]
    BY <1>3, <1>4 DEF IngressOf, EgressOf
  <2>3. w.sg[1] = infIndexForHF(p, 1 - 1) + 1
    BY <1>3, <1>6
  <2> QED
    BY <1>3, <1>4, <2>1, <2>2, <2>3 DEF Content
<1>8. Content(p, w, 2)
  <2>1. p.hops[2].mac = MAC(w.ia[2], w.beta[2], p.infos[1].ts, p.hops[2].exp, p.hops[2].in, p.hops[2].eg)
    BY <1>3, <1>4, <1>5
  <2>2. IngressOf(p.infos[1], p.hops[2]) = w.in[2] /\ EgressOf(p.infos[1], p.hops[2]) = w.eg[2]
    BY <1>3, <1>4, <1>5 DEF IngressOf, EgressOf
  <2>3. w.sg[2] = infIndexForHF(p, 2 - 1) + 1
    BY <1>3, <1>6
  <2> QED
    BY <1>3, <1>4, <2>1, <2>2, <2>3 DEF Content
<1>9. Carries(p, w)
  <2>1. \A h \in 1 .. w.n : h = 1 \/ h = 2
    BY <1>3
  <2> QED
    BY <1>3, <1>4, <1>7, <1>8, <2>1 DEF Carries
<1> DEFINE j == 1
           x == OneHopAcc(i)
<1>10. SegIDs(p, w, j, x)
  <2>1. \A h \in 1 .. (w.n - 1) : ~(w.sg[h] < w.sg[j])
    <3>1. \A h \in 1 .. (w.n - 1) : h = 1
      BY <1>3
    <3> QED
      BY <1>3, <3>1
  <2>2. \A h \in 2 .. w.n : ~(w.sg[h] > w.sg[j])
    <3>1. \A h \in 2 .. w.n : h = 2
      BY <1>3
    <3> QED
      BY <1>3, <3>1
  <2> QED
    BY <1>3, <1>4, <2>1, <2>2 DEF SegIDs
<1>11. At(p, w, j, x)
  BY <1>3, <1>4, <1>9, <1>10 DEF At
<1>12. j < w.n /\ w.sg[j + 1] = w.sg[j] /\ j + 1 = w.n /\ w.beta[w.n] = x
  BY <1>3
<1> HIDE DEF j, x
<1>13. At(IncPath(p), w, j + 1, x)
  <2>1. /\ w.sg[j + 1] = w.sg[j] => x = x
        /\ w.sg[j + 1] # w.sg[j] => x = w.beta[j] /\ x = w.beta[j + 1]
    BY <1>12
  <2> QED
    BY <1>2, <1>11, <1>12, <2>1, AtNext
<1>14. IncPath(p).hops = p.hops
  BY IncFacts
<1> QED
  BY <1>4, <1>12, <1>13, <1>14 DEF Quiet

\* The fast path keeps a beacon on its way.
LEMMA FastOneHop ==
  ASSUME NEW f, NEW pk, NEW l, NEW o, Header(pk), ~IsAnswer(pk), pk.onehop, OneHop(f, pk, l, o), l.at = "router",
         NEW z, z = processOHP(l.router, l.in, pk),
         NEW qk, qk = [pk EXCEPT !.path = z.path], NEW m, Lands(l, z, m), NEW u, Passed(l, z, o, u)
  PROVE  Sits(f, qk, m, u)
<1>1. PICK i \in Interfaces :
        /\ f.src = i[1] /\ f.dst = Remote[i][1] /\ f.intfs = <<i, Remote[i]>>
        /\ pk.src = f.src /\ pk.dst = f.dst /\ pk.kind = "svc"
        /\ l.at = "router" /\ l.in = 0 => l.router = RouterOf[i] /\ OneHopFirst(i, pk.path, OneHopID) /\ o = <<>>
        /\ l.at = "router" /\ l.in # 0 => /\ l.router = RouterOf[Remote[i]] /\ l.in = Remote[i][2]
                                          /\ OneHopFirst(i, pk.path, OneHopAcc(i)) /\ o = f.intfs
  BY DEF OneHop
<1> DEFINE r == l.router
           in == l.in
           c == f.intfs
           y == Remote[i]
<1>2. IsPath(pk.path) /\ Pointed(pk.path)
  BY DEF Header
<1>3. z.do \in Dispositions /\ IsPath(z.path) /\ Pointed(z.path)
  BY <1>2, OneHopPath
<1>4. /\ Header(qk) /\ qk.kind = pk.kind /\ qk.src = pk.src /\ qk.dst = pk.dst /\ qk.onehop = pk.onehop /\ qk.path = z.path
      /\ ~IsAnswer(qk)
  <2> DEFINE q == z.path
  <2>1. Header(pk) /\ qk = [pk EXCEPT !.path = q] /\ ~IsAnswer(pk) /\ IsPath(q) /\ Pointed(q)
    BY <1>3
  <2> HIDE DEF q
  <2>2. /\ Header(qk) /\ qk.kind = pk.kind /\ qk.src = pk.src /\ qk.dst = pk.dst /\ qk.onehop = pk.onehop /\ qk.path = q
        /\ (IsAnswer(qk) <=> IsAnswer(pk))
    BY ONLY <2>1, HeaderPath
  <2> QED
    BY <2>1, <2>2 DEF q
<1>5. y \in Interfaces /\ i = <<i[1], i[2]>> /\ IA(RouterOf[i]) = i[1]
  BY InterfaceFacts
<1>6. y[2] # 0 /\ IA(RouterOf[y]) = y[1]
  BY <1>5, InterfaceFacts
<1>7. c \in Seq(Interfaces) /\ Len(c) = 2 /\ IsPrefix(c, c)
  <2>1. c \in Seq(Interfaces) /\ Len(c) = 2
    BY <1>1, <1>5
  <2>2. 0 \in 0 .. Len(c)
    BY <2>1
  <2> QED
    BY <2>1, <2>2, PrefixFacts
<1>8. CASE in = 0
  <2>1. r = RouterOf[i] /\ OneHopFirst(i, pk.path, OneHopID) /\ o = <<>>
    BY <1>1, <1>8
  <2>2. z = processOHP(r, in, pk) /\ pk.src = i[1] /\ pk.dst = Remote[i][1]
    BY <1>1
  <2> HIDE DEF r, in
  <2>3. z.do = "external" /\ z.arg = i[2] /\ OneHopFirst(i, z.path, OneHopAcc(i))
    BY <1>2, <1>8, <2>1, <2>2, OneHopLeaves
  <2>4. Leaving(l.router, z.arg) = i
    BY <1>5, <2>1, <2>3 DEF Leaving, r
  <2>5. m.at = "router" /\ m.in = y[2] /\ m.router = RouterOf[y] /\ u = o \o <<i, y>>
    BY <2>3, <2>4, Places DEF Passed
  <2>6. u = c
    <3>1. <<>> \o c = c
      BY <1>7
    <3> QED
      BY <1>1, <2>1, <2>5, <3>1
  <2>7. OneHop(f, qk, m, u)
    <3>1. /\ f.src = i[1] /\ f.dst = y[1] /\ c = <<i, y>> /\ qk.src = f.src /\ qk.dst = f.dst /\ qk.kind = "svc"
          /\ m.at = "router" /\ m.in # 0 /\ m.router = RouterOf[y] /\ m.in = y[2]
          /\ OneHopFirst(i, qk.path, OneHopAcc(i)) /\ u = c
      BY <1>1, <1>4, <1>6, <2>3, <2>5, <2>6
    <3>2. i \in Interfaces
      OBVIOUS
    <3> QED
      BY ONLY <3>1, <3>2 DEF OneHop, y, c
  <2> QED
    BY <1>4, <1>7, <2>5, <2>6, <2>7 DEF Sits
<1>9. CASE in # 0
  <2>1. r = RouterOf[y] /\ in = y[2] /\ OneHopFirst(i, pk.path, OneHopAcc(i)) /\ o = c
    BY <1>1, <1>9
  <2>2. z = processOHP(r, in, pk) /\ pk.src = i[1] /\ pk.dst = Remote[i][1]
    BY <1>1
  <2> HIDE DEF r, in
  <2>3. \/ z.do = "drop" /\ y[1] \notin Backends
        \/ z.do = "deliver" /\ OneHopFirst(i, z.path, OneHopAcc(i)) /\ OneHopSecond(i, z.path)
    BY <1>2, <2>1, <2>2, OneHopArrives
  <2>4. u = o
    BY <2>3 DEF Passed
  <2>5. CASE z.do = "drop" /\ y[1] \notin Backends
    <3>1. m.at = "dropped"
      BY <2>5, Places
    <3>2. OneHop(f, qk, m, u)
      BY <1>1, <1>4, <2>5, <3>1 DEF OneHop
    <3> QED
      BY <1>4, <1>7, <2>1, <2>4, <3>1, <3>2 DEF Sits
  <2>6. CASE z.do = "deliver" /\ OneHopFirst(i, z.path, OneHopAcc(i)) /\ OneHopSecond(i, z.path)
    <3>1. m.at = "host" /\ m.ia = y[1]
      BY <1>6, <2>1, <2>6, Places DEF r
    <3>2. OneHop(f, qk, m, u)
      BY <1>1, <1>4, <2>1, <2>4, <2>6, <3>1 DEF OneHop
    <3> QED
      BY <1>4, <1>7, <2>1, <2>4, <3>1, <3>2 DEF Sits
  <2> QED
    BY <2>3, <2>5, <2>6
<1> QED
  BY <1>8, <1>9

\* The fast path leaves an answer readable.
LEMMA FastAnswer ==
  ASSUME NEW f, NEW pk, NEW l, NEW o, Sits(f, pk, l, o), IsAnswer(pk), l.at = "router",
         NEW now_, NEW down_,
         NEW z, z = IF pk.onehop THEN processOHP(l.router, l.in, pk) ELSE process(l.router, l.in, l.from, pk, now_, down_),
         NEW qk, qk = [pk EXCEPT !.path = z.path], NEW m, Lands(l, z, m)
  PROVE  Sits(f, qk, m, o)
<1>1. Header(pk) /\ IsPrefix(o, f.intfs)
  BY DEF Sits
<1>2. IsPath(pk.path) /\ Pointed(pk.path)
  BY <1>1 DEF Header
<1>3. z.do \in Dispositions /\ IsPath(z.path) /\ Pointed(z.path)
  <2>1. CASE pk.onehop
    <3>1. z = processOHP(l.router, l.in, pk)
      BY <2>1
    <3> QED
      BY <1>2, <3>1, OneHopPath
  <2>2. CASE ~pk.onehop
    <3>1. z = process(l.router, l.in, l.from, pk, now_, down_)
      BY <2>2
    <3> QED
      BY <1>2, <3>1, ProcessDisposes DEF Disposes, Moves, Alike
  <2> QED
    BY <2>1, <2>2
<1>4. Header(qk) /\ IsAnswer(qk)
  BY <1>1, <1>3, HeaderPath
<1>5. m.at \in {"host", "router", "slow", "dropped"} /\ (m.at = "slow" => m.do \in {"slow", "alert"})
  BY <1>3, Places
<1> QED
  BY <1>1, <1>4, <1>5 DEF Sits

---------------------------------------------------------------------------
(* The steps.                                                                *)

\* What the fast path does, for every packet.
LEMMA FastFacts ==
  ASSUME FastPath
  PROVE  LET z == IF pkt.onehop THEN processOHP(loc.router, loc.in, pkt) ELSE process(loc.router, loc.in, loc.from, pkt, now, down)
         IN  /\ loc.at = "router" /\ pkt' = [pkt EXCEPT !.path = z.path]
             /\ z.do \in Dispositions => Lands(loc, z, loc')
             /\ ~IsAnswer(pkt') => Passed(loc, z, out, out')
             /\ IsAnswer(pkt') => out' = out
             /\ flow' = flow /\ down' = down /\ flaps' = flaps /\ now' = now
<1> DEFINE z == IF pkt.onehop THEN processOHP(loc.router, loc.in, pkt) ELSE process(loc.router, loc.in, loc.from, pkt, now, down)
<1>1. /\ loc.at = "router"
      /\ \E o \in {z} :
           /\ pkt' = [pkt EXCEPT !.path = o.path]
           /\ \/ o.do = "external" /\ Cross(loc.router, o.arg)
              \/ o.do # "external" /\ UNCHANGED <<out, back>> /\
                 loc' = CASE o.do = "drop" -> Dropped(IA(loc.router))
                          [] o.do = "deliver" -> AtHost(IA(loc.router))
                          [] o.do = "internal" -> AtRouter(SiblingFor(loc.router, o.arg), 0, loc.router)
                          [] o.do \in {"slow", "alert"} -> AtSlowPath(loc, o.do, o.arg)
      /\ UNCHANGED <<flow, down, flaps, now>>
  BY Zenon DEF FastPath
<1> SUFFICES /\ loc.at = "router" /\ pkt' = [pkt EXCEPT !.path = z.path]
             /\ z.do \in Dispositions => Lands(loc, z, loc')
             /\ ~IsAnswer(pkt') => Passed(loc, z, out, out')
             /\ IsAnswer(pkt') => out' = out
             /\ flow' = flow /\ down' = down /\ flaps' = flaps /\ now' = now
  BY Zenon
<1> HIDE DEF z
<1>2. /\ pkt' = [pkt EXCEPT !.path = z.path]
      /\ \/ z.do = "external" /\ Cross(loc.router, z.arg)
         \/ z.do # "external" /\ UNCHANGED <<out, back>> /\
            loc' = CASE z.do = "drop" -> Dropped(IA(loc.router))
                     [] z.do = "deliver" -> AtHost(IA(loc.router))
                     [] z.do = "internal" -> AtRouter(SiblingFor(loc.router, z.arg), 0, loc.router)
                     [] z.do \in {"slow", "alert"} -> AtSlowPath(loc, z.do, z.arg)
  BY <1>1, Zenon
<1>3. CASE z.do = "external"
  <2>1. Cross(loc.router, z.arg)
    BY <1>2, <1>3
  <2>2. /\ loc' = AtRouter(RouterOf[Remote[Leaving(loc.router, z.arg)]], Remote[Leaving(loc.router, z.arg)][2], "neighbour")
        /\ IsAnswer(pkt') => out' = out
        /\ ~IsAnswer(pkt') => out' = out \o <<Leaving(loc.router, z.arg), Remote[Leaving(loc.router, z.arg)]>>
    BY <2>1 DEF Cross, Leaving
  <2> QED
    BY <1>1, <1>2, <1>3, <2>2 DEF Lands, Passed
<1>4. CASE z.do # "external"
  <2>1. out' = out /\ loc' = CASE z.do = "drop" -> Dropped(IA(loc.router))
                               [] z.do = "deliver" -> AtHost(IA(loc.router))
                               [] z.do = "internal" -> AtRouter(SiblingFor(loc.router, z.arg), 0, loc.router)
                               [] z.do \in {"slow", "alert"} -> AtSlowPath(loc, z.do, z.arg)
    BY <1>2, <1>4
  <2>2. Lands(loc, z, loc')
    BY <1>4, <2>1 DEF Lands
  <2> QED
    BY <1>1, <1>2, <1>4, <2>1, <2>2 DEF Passed
<1> QED
  BY <1>3, <1>4

\* The fast path keeps the packet where it belongs.
LEMMA FastSits ==
  ASSUME FastPath, Sits(flow, pkt, loc, out)
  PROVE  Sits(flow', pkt', loc', out')
<1> DEFINE z == IF pkt.onehop THEN processOHP(loc.router, loc.in, pkt) ELSE process(loc.router, loc.in, loc.from, pkt, now, down)
<1>1. /\ loc.at = "router" /\ pkt' = [pkt EXCEPT !.path = z.path]
      /\ z.do \in Dispositions => Lands(loc, z, loc')
      /\ ~IsAnswer(pkt') => Passed(loc, z, out, out')
      /\ IsAnswer(pkt') => out' = out
      /\ flow' = flow
  BY FastFacts
<1>2. Header(pkt)
  BY <1>1 DEF Sits
<1>3. IsPath(pkt.path) /\ Pointed(pkt.path)
  BY <1>2 DEF Header
<1>4. /\ pkt.onehop => z = processOHP(loc.router, loc.in, pkt)
      /\ ~pkt.onehop => z = process(loc.router, loc.in, loc.from, pkt, now, down)
  OBVIOUS
<1>40. z = IF pkt.onehop THEN processOHP(loc.router, loc.in, pkt) ELSE process(loc.router, loc.in, loc.from, pkt, now, down)
  OBVIOUS
<1> HIDE DEF z
<1>5. z.do \in Dispositions /\ IsPath(z.path) /\ Pointed(z.path)
  <2>1. CASE pkt.onehop
    BY <1>3, <1>4, <2>1, OneHopPath
  <2>2. CASE ~pkt.onehop
    BY <1>3, <1>4, <2>2, ProcessDisposes DEF Disposes, Moves, Alike
  <2> QED
    BY <2>1, <2>2
<1>6. Lands(loc, z, loc') /\ (IsAnswer(pkt') <=> IsAnswer(pkt))
  BY <1>1, <1>2, <1>5, HeaderPath
<1>7. CASE IsAnswer(pkt)
  <2>1. Sits(flow, pkt', loc', out)
    BY <1>1, <1>6, <1>7, <1>40, FastAnswer
  <2> QED
    BY <1>1, <1>6, <1>7, <2>1
<1>8. CASE ~IsAnswer(pkt) /\ pkt.onehop
  <2>1. OneHop(flow, pkt, loc, out)
    BY <1>1, <1>8 DEF Sits
  <2>2. Sits(flow, pkt', loc', out')
    BY <1>1, <1>2, <1>4, <1>6, <1>8, <2>1, FastOneHop
  <2> QED
    BY <1>1, <2>2
<1>9. CASE ~IsAnswer(pkt) /\ ~pkt.onehop
  <2>1. Travels(flow, pkt, loc, out)
    BY <1>1, <1>9 DEF Sits
  <2>2. Sits(flow, pkt', loc', out')
    BY <1>1, <1>2, <1>4, <1>6, <1>9, <2>1, FastTravels
  <2> QED
    BY <1>1, <2>2
<1> QED
  BY <1>7, <1>8, <1>9

\* An answer of the slow path.
LEMMA AnswerHeader ==
  ASSUME NEW r, NEW in, NEW pk, Header(pk), NEW kind \in {"reply", "error"}, NEW code, NEW names,
         NEW qk, qk = Answer(r, in, pk, kind, code, names)
  PROVE  Header(qk) /\ IsAnswer(qk)
<1> DEFINE b == FALSE
           p == prepareSCMP(pk.path, in)
           x == IA(r)
           y == pk.src
<1>1. IsPath(p) /\ Pointed(p)
  BY AnswerPath DEF Header
<1>2. qk = [kind |-> kind, src |-> x, dst |-> y, onehop |-> b, path |-> p, code |-> code, names |-> names]
  BY Zenon DEF Answer
<1>3. b \in BOOLEAN
  OBVIOUS
<1> HIDE DEF b, p, x, y
<1>4. /\ qk.kind = kind
      /\ kind \in {"data", "svc", "request", "reply", "error"} /\ b \in BOOLEAN /\ IsPath(p) /\ Pointed(p) => Header(qk)
  BY ONLY <1>2, PacketFields
<1> QED
  BY <1>1, <1>3, <1>4 DEF IsAnswer

\* An answer crosses no interface of the way out.
LEMMA SendBackFacts ==
  ASSUME SendBack, IsAnswer(pkt')
  PROVE  out' = out /\ loc'.at \in {"host", "router"}
<1>1. CASE loc.in # 0
  <2>1. Cross(loc.router, loc.in)
    BY <1>1 DEF SendBack
  <2> QED
    BY <2>1 DEF Cross, AtRouter
<1>2. CASE loc.in = 0
  <2>1. out' = out /\ (loc' = AtHost(IA(loc.router)) \/ loc' = AtRouter(loc.from, 0, loc.router))
    BY <1>2 DEF SendBack
  <2>2. AtHost(IA(loc.router)).at = "host" /\ AtRouter(loc.from, 0, loc.router).at = "router"
    BY DEF AtHost, AtRouter
  <2> QED
    BY <2>1, <2>2
<1> QED
  BY <1>1, <1>2

\* The slow path drops or answers; a packet that is no answer is never dropped by it.
LEMMA SlowSits ==
  ASSUME SlowPathSCMP \/ handleSCMPTraceRouteRequest, Sits(flow, pkt, loc, out)
  PROVE  Sits(flow', pkt', loc', out')
<1>0. loc.at = "slow" /\ flow' = flow
  <2>1. CASE SlowPathSCMP
    BY <2>1, Zenon DEF SlowPathSCMP
  <2>2. CASE handleSCMPTraceRouteRequest
    BY <2>2, Zenon DEF handleSCMPTraceRouteRequest
  <2> QED
    BY <2>1, <2>2
<1>1. loc.at = "slow" /\ flow' = flow /\ Header(pkt) /\ IsPrefix(out, flow.intfs)
  BY <1>0 DEF Sits
<1>2. \/ /\ loc' = Dropped(IA(loc.router)) /\ pkt' = pkt /\ out' = out
         /\ pkt.kind = "error" \/ (loc.do = "alert" /\ pkt.kind # "request")
      \/ SendBack /\ \E kind \in {"reply", "error"} : \E code, names : pkt' = Answer(loc.router, loc.in, pkt, kind, code, names)
  <2>1. CASE SlowPathSCMP /\ pkt.kind = "error"
    <3>1. loc' = Dropped(IA(loc.router)) /\ UNCHANGED <<pkt, out, back>>
      BY <2>1, Zenon DEF SlowPathSCMP
    <3> QED
      BY <2>1, <3>1
  <2>2. CASE SlowPathSCMP /\ pkt.kind # "error"
    <3>1. SendBack /\ pkt' = Answer(loc.router, loc.in, pkt, "error", loc.arg, <<>>)
      BY <2>2, Zenon DEF SlowPathSCMP
    <3> QED
      BY <3>1, Zenon
  <2>3. CASE handleSCMPTraceRouteRequest /\ pkt.kind # "request"
    <3>1. loc.do = "alert" /\ loc' = Dropped(IA(loc.router)) /\ UNCHANGED <<pkt, out, back>>
      BY <2>3, Zenon DEF handleSCMPTraceRouteRequest
    <3> QED
      BY <2>3, <3>1
  <2>4. CASE handleSCMPTraceRouteRequest /\ pkt.kind = "request"
    <3>1. SendBack /\ pkt' = Answer(loc.router, loc.in, pkt, "reply", "", <<IA(loc.router), loc.arg>>)
      BY <2>4, Zenon DEF handleSCMPTraceRouteRequest
    <3> QED
      BY <3>1, Zenon
  <2> QED
    BY <2>1, <2>2, <2>3, <2>4
<1>3. CASE /\ loc' = Dropped(IA(loc.router)) /\ pkt' = pkt /\ out' = out
           /\ pkt.kind = "error" \/ (loc.do = "alert" /\ pkt.kind # "request")
  <2>1. loc'.at = "dropped"
    BY <1>3 DEF Dropped
  <2>2. IsAnswer(pkt)
    <3>1. ASSUME ~IsAnswer(pkt) PROVE FALSE
      <4>1. ~pkt.onehop
        BY <1>1, <3>1 DEF Sits, OneHop
      <4>2. Travels(flow, pkt, loc, out)
        BY <1>1, <3>1, <4>1 DEF Sits
      <4> QED
        BY <1>1, <1>3, <3>1, <4>2 DEF Travels, IsAnswer
    <3> QED
      BY <3>1
  <2> QED
    BY <1>1, <1>3, <2>1, <2>2 DEF Sits
<1>4. CASE SendBack /\ \E kind \in {"reply", "error"} : \E code, names : pkt' = Answer(loc.router, loc.in, pkt, kind, code, names)
  <2>1. PICK kind \in {"reply", "error"} : \E code, names : pkt' = Answer(loc.router, loc.in, pkt, kind, code, names)
    BY <1>4
  <2>2. PICK code, names : pkt' = Answer(loc.router, loc.in, pkt, kind, code, names)
    BY <2>1
  <2>3. Header(pkt') /\ IsAnswer(pkt')
    BY <1>1, <2>2, AnswerHeader
  <2>4. out' = out /\ loc'.at \in {"host", "router"}
    BY <1>4, <2>3, SendBackFacts
  <2> QED
    BY <1>1, <2>3, <2>4 DEF Sits
<1> QED
  BY <1>2, <1>3, <1>4

\* A host sends a packet over a path that is ready.
LEMMA SendSits ==
  ASSUME NEW kind \in {"data", "svc", "request"}, NEW p, NEW w, NEW c, NEW x, NEW y, Ready(p, w, c, x, y),
         kind # "request" => Quiet(p), NEW probe, NEW replied, Send(x, y, c, probe, replied, Packet(kind, x, y, p))
  PROVE  Sits(flow', pkt', loc', out') /\ UNCHANGED <<down, flaps, now>>
<1> DEFINE pk == Packet(kind, x, y, p)
<1>1. pk.path = p
  BY PacketIs
<1> HIDE DEF pk
<1>2. Send(x, y, c, probe, replied, pk)
  BY DEF pk
<1>3. /\ flow' = [src |-> x, dst |-> y, intfs |-> c, probe |-> probe, replied |-> replied]
      /\ pkt' = pk /\ loc' = FirstRouter(x, pk.path) /\ out' = <<>> /\ UNCHANGED <<down, flaps, now>>
  BY <1>2, Zenon DEF Send
<1>4. pkt' = Packet(kind, x, y, p) /\ loc' = FirstRouter(x, p)
  BY <1>1, <1>3 DEF pk
<1> QED
  BY <1>3, <1>4, DepartSits

\* Hosts send data and requests to services over the paths of the combinator.
LEMMA HostSendSits ==
  ASSUME NEW x \in ASes, NEW y \in ASes, x # y, NEW kind \in {"data", "svc"}, HostSend(x, y, kind)
  PROVE  Sits(flow', pkt', loc', out') /\ UNCHANGED <<down, flaps, now>>
<1> DEFINE b == FALSE
           n == 0
<1>1. PICK p \in Paths[<<x, y>>] : Send(x, y, p.intfs, n, b, Packet(kind, x, y, p.path))
  BY Zenon DEF HostSend
<1> HIDE DEF b, n
<1>2. PICK w : Ready(p.path, w, p.intfs, x, y) /\ Quiet(p.path)
  BY PathsReady
<1> DEFINE q == p.path
           c == p.intfs
<1>3. Send(x, y, c, n, b, Packet(kind, x, y, q)) /\ Ready(q, w, c, x, y) /\ Quiet(q)
  BY <1>1, <1>2
<1> HIDE DEF q, c
<1> QED
  BY <1>3, SendSits

\* Hosts send traceroute probes over the paths of the combinator.
LEMMA TracerouteSits ==
  ASSUME NEW x \in ASes, NEW y \in ASes, x # y, HostTraceroute(x, y)
  PROVE  Sits(flow', pkt', loc', out') /\ UNCHANGED <<down, flaps, now>>
<1> DEFINE b == FALSE
           kind == "request"
<1>1. PICK p \in Paths[<<x, y>>] : \E k \in DOMAIN Probes(p.path) :
           Send(x, y, p.intfs, k, b, Packet(kind, x, y, SetAlert(p.path, Probes(p.path)[k])))
  BY Zenon DEF HostTraceroute
<1>2. PICK k \in DOMAIN Probes(p.path) : Send(x, y, p.intfs, k, b, Packet(kind, x, y, SetAlert(p.path, Probes(p.path)[k])))
  BY <1>1, Zenon
<1>3. kind = "request"
  OBVIOUS
<1> HIDE DEF b, kind
<1>4. PICK w : Ready(p.path, w, p.intfs, x, y)
  BY PathsReady
<1> DEFINE probe == Probes(p.path)[k]
           r == p.path
           q == SetAlert(r, probe)
           c == p.intfs
<1>5. Send(x, y, c, k, b, Packet(kind, x, y, q)) /\ Ready(r, w, c, x, y)
  BY <1>2, <1>4
<1> HIDE DEF probe, c, r
<1>6. Ready(q, w, c, x, y)
  BY <1>5, ProbeReady
<1> HIDE DEF q
<1> QED
  BY <1>3, <1>5, <1>6, SendSits

\* A control service sends a beacon.
LEMMA SendOneHopSits ==
  ASSUME NEW i \in Interfaces, SendOneHop(i)
  PROVE  Sits(flow', pkt', loc', out') /\ UNCHANGED <<down, flaps, now>>
<1> DEFINE p == [segLen |-> <<2, 0, 0>>, infos |-> <<InfoField(OneHopID, 0, TRUE, FALSE)>>,
                 hops |-> <<createHopF(i[1], 0, i[2], 0, OneHopID), HopField(0, 0, 0, <<>>)>>, currINF |-> 0, currHF |-> 0]
           a == i[1]
           y == Remote[i][1]
           c == <<i, Remote[i]>>
           b == TRUE
           kind == "svc"
           code == ""
           names == <<>>
           pk == [Packet(kind, a, y, p) EXCEPT !.onehop = b]
           n == 0
           rep == FALSE
<1>1. Send(a, y, c, n, rep, pk)
  BY Zenon DEF SendOneHop, OneHopID
<1>2. IsPath(p) /\ Pointed(p) /\ OneHopFirst(i, p, OneHopID)
  BY OneHopDeparts
<1>3. b \in BOOLEAN /\ b /\ kind = "svc"
  OBVIOUS
<1>4. a = i[1] /\ y = Remote[i][1] /\ c = <<i, Remote[i]>>
  OBVIOUS
<1> HIDE DEF p, a, y, c, n, rep
<1>5. pk = [kind |-> kind, src |-> a, dst |-> y, onehop |-> b, path |-> p, code |-> code, names |-> names]
  <2> DEFINE d == FALSE
             q == Packet(kind, a, y, p)
  <2>1. q = [kind |-> kind, src |-> a, dst |-> y, onehop |-> d, path |-> p, code |-> code, names |-> names]
    BY Zenon DEF Packet
  <2>2. pk = [q EXCEPT !.onehop = b]
    OBVIOUS
  <2> HIDE DEF d, q, b, kind, code, names, pk
  <2> QED
    BY ONLY <2>1, <2>2
<1> HIDE DEF pk, b, kind, code, names
<1>6. /\ pk.kind = kind /\ pk.src = a /\ pk.dst = y /\ pk.onehop = b /\ pk.path = p
      /\ kind \in {"data", "svc", "request", "reply", "error"} /\ b \in BOOLEAN /\ IsPath(p) /\ Pointed(p) => Header(pk)
  BY ONLY <1>5, PacketFields
<1>7. Header(pk) /\ ~IsAnswer(pk) /\ pk.onehop
  BY <1>2, <1>3, <1>6 DEF IsAnswer
<1>8. /\ flow' = [src |-> a, dst |-> y, intfs |-> c, probe |-> n, replied |-> rep]
      /\ pkt' = pk /\ loc' = FirstRouter(a, pk.path) /\ out' = <<>> /\ UNCHANGED <<down, flaps, now>>
  BY <1>1, Zenon DEF Send
<1>9. flow'.src = a /\ flow'.dst = y /\ flow'.intfs = c
  BY <1>8
<1>10. egressInterface(p) = i[2]
  <2>1. p.currHF = 0 /\ p.currINF = 0 /\ p.infos[1].consDir /\ p.hops[1].eg = i[2]
    BY <1>2 DEF OneHopFirst
  <2>2. Info(p) = p.infos[1] /\ Hop(p) = p.hops[1]
    BY <2>1 DEF Info, Hop
  <2> QED
    BY <2>1, <2>2 DEF egressInterface, EgressOf
<1>11. loc'.at = "router" /\ loc'.in = 0 /\ loc'.router = RouterOf[i]
  <2>1. <<a, egressInterface(p)>> = i
    BY <1>4, <1>10, InterfaceFacts
  <2> QED
    BY <1>6, <1>8, <2>1 DEF FirstRouter, AtRouter
<1>12. IsPrefix(out', c)
  <2>1. c \in Seq(Interfaces) /\ 0 \in 0 .. Len(c)
    BY <1>4, InterfaceFacts
  <2>2. out' = SubSeq(c, 1, 0)
    BY <1>8, <2>1
  <2> QED
    BY <2>1, <2>2, PrefixFacts
<1>13. OneHop(flow', pkt', loc', out')
  BY <1>2, <1>3, <1>4, <1>6, <1>8, <1>9, <1>11 DEF OneHop
<1> QED
  BY <1>7, <1>8, <1>9, <1>11, <1>12, <1>13 DEF Sits

\* The receiver answers over the reversed path.
LEMMA ReplySits ==
  ASSUME HostReply, Sits(flow, pkt, loc, out)
  PROVE  Sits(flow', pkt', loc', out') /\ UNCHANGED <<down, flaps, now>>
<1> DEFINE path == IF pkt.onehop THEN OneHopReverse(pkt.path) ELSE ReversePath(pkt.path)
           b == TRUE
           n == 0
           kind == "data"
           x == flow.src
           y == flow.dst
           c == flow.intfs
           e == Reverse(c)
<1>1. loc.at = "host" /\ pkt.kind \in {"data", "svc"}
  BY Zenon DEF HostReply
<1>2. Send(y, x, e, n, b, Packet(kind, y, x, path))
  BY Zenon DEF HostReply
<1>3. kind = "data"
  OBVIOUS
<1>4. Header(pkt) /\ ~IsAnswer(pkt)
  BY <1>1 DEF Sits, IsAnswer
<1>5. IsPath(pkt.path) /\ Pointed(pkt.path) /\ pkt.onehop \in BOOLEAN
  BY <1>4 DEF Header
<1>6. \E p, w : Trip(w, c, x, y) /\ At(p, w, w.n, w.beta[w.n]) /\ Quiet(p) /\ path = ReversePath(p)
  <2>1. CASE pkt.onehop
    <3>1. OneHop(flow, pkt, loc, out)
      BY <1>1, <1>4, <2>1 DEF Sits
    <3>2. PICK i \in Interfaces : /\ x = i[1] /\ y = Remote[i][1] /\ c = <<i, Remote[i]>>
                                  /\ OneHopFirst(i, pkt.path, OneHopAcc(i)) /\ OneHopSecond(i, pkt.path)
      BY <1>1, <3>1 DEF OneHop
    <3> DEFINE r == pkt.path
               w == OneHopWalk(i, r)
    <3>3. IsPath(r) /\ Pointed(r) /\ OneHopFirst(i, r, OneHopAcc(i)) /\ OneHopSecond(i, r)
      BY <1>5, <3>2
    <3>4. path = ReversePath(IncPath(r))
      BY <2>1 DEF OneHopReverse
    <3> HIDE DEF r, w, c, path, x, y
    <3>5. Trip(w, c, x, y)
      BY <3>2, OneHopTrip DEF w
    <3>6. At(IncPath(r), w, w.n, w.beta[w.n]) /\ Quiet(IncPath(r))
      BY <3>2, <3>3, OneHopEnds DEF w
    <3> DEFINE p == IncPath(r)
    <3>7. At(p, w, w.n, w.beta[w.n]) /\ Quiet(p) /\ path = ReversePath(p)
      BY <3>4, <3>6
    <3> HIDE DEF p
    <3> QED
      BY <3>5, <3>7
  <2>2. CASE ~pkt.onehop
    <3>1. Travels(flow, pkt, loc, out)
      BY <1>1, <1>4, <2>2 DEF Sits
    <3>2. Quiet(pkt.path) /\ \E w : Trip(w, c, x, y) /\ At(pkt.path, w, w.n, w.beta[w.n])
      BY <1>1, <3>1 DEF Travels
    <3> DEFINE p == pkt.path
    <3>3. path = ReversePath(p)
      BY <2>2
    <3> HIDE DEF p, c, path, x, y
    <3> QED
      BY <3>2, <3>3 DEF p
  <2> QED
    BY <1>5, <2>1, <2>2
<1> HIDE DEF path, b, n, kind, x, y, c
<1>7. PICK p, w : Trip(w, c, x, y) /\ At(p, w, w.n, w.beta[w.n]) /\ Quiet(p) /\ path = ReversePath(p)
  BY <1>6
<1>8. Walk(w, c) /\ IsPath(p) /\ Pointed(p)
  BY <1>7 DEF Trip, At, Carries
<1> DEFINE u == Turn(w, c)
<1>9. Trip(u, e, y, x) /\ At(path, u, 1, u.beta[1]) /\ Quiet(path)
  BY <1>7, <1>8, TurnTrip, TurnAt, TurnQuiet
<1> HIDE DEF u, e
<1>10. Ready(path, u, e, y, x)
  BY <1>9 DEF Ready
<1> QED
  BY <1>2, <1>3, <1>9, <1>10, SendSits

\* Before and after an exchange.
LEMMA IdleSits ==
  ASSUME NEW f, f = NoFlow, NEW pk, NEW l, l = Idle, NEW o, o = <<>>
  PROVE  Sits(f, pk, l, o)
<1>1. f.intfs = <<>>
  BY Zenon DEF NoFlow
<1>2. l.at = "idle"
  BY DEF Idle
<1>3. IsPrefix(<<>>, <<>>)
  <2> DEFINE c == <<>>
  <2>1. c \in Seq({}) /\ 0 \in 0 .. Len(c)
    OBVIOUS
  <2> HIDE DEF c
  <2>2. IsPrefix(c, c)
    BY <2>1, PrefixFacts
  <2> QED
    BY <2>2 DEF c
<1> QED
  BY <1>1, <1>2, <1>3 DEF Sits

\* The end of an exchange.
LEMMA DoneSits ==
  ASSUME HostDone
  PROVE  Sits(flow', pkt', loc', out') /\ UNCHANGED <<down, flaps, now>>
<1>1. flow' = NoFlow /\ loc' = Idle /\ out' = <<>> /\ UNCHANGED <<down, flaps, now>>
  BY Zenon DEF HostDone
<1> QED
  BY <1>1, IdleSits

\* The invariant holds initially.
LEMMA InitIInv == Init => IInv
<1> SUFFICES ASSUME Init PROVE IInv
  OBVIOUS
<1>1. flow = NoFlow /\ loc = Idle /\ out = <<>> /\ down = {} /\ flaps = 0 /\ now = Start
  BY Zenon DEF Init
<1>2. Environment
  BY <1>1, BoundsAssumption DEF Environment
<1>3. Sits(flow, pkt, loc, out)
  BY <1>1, IdleSits
<1> QED
  BY <1>2, <1>3 DEF IInv

\* Every step keeps the invariant.
LEMMA NextIInv == IInv /\ [Next]_vars => IInv'
<1> SUFFICES ASSUME IInv, [Next]_vars PROVE IInv'
  OBVIOUS
<1>1. Environment /\ Sits(flow, pkt, loc, out)
  BY DEF IInv
<1>2. ASSUME Sits(flow', pkt', loc', out'), UNCHANGED <<down, flaps, now>> PROVE IInv'
  <2>1. Environment'
    BY <1>1, <1>2 DEF Environment
  <2> QED
    BY <1>2, <2>1 DEF IInv
<1>3. ASSUME Environment', UNCHANGED <<flow, pkt, loc, out>> PROVE IInv'
  <2>1. Sits(flow', pkt', loc', out')
    BY <1>1, <1>3
  <2> QED
    BY <1>3, <2>1 DEF IInv
<1>4. ASSUME NEW src \in ASes, NEW dst \in ASes, src # dst, NEW kind \in Kinds \cap {"data", "svc"}, HostSend(src, dst, kind)
      PROVE  IInv'
  BY <1>2, <1>4, HostSendSits
<1>5. ASSUME NEW src \in ASes, NEW dst \in ASes, src # dst, HostTraceroute(src, dst) PROVE IInv'
  BY <1>2, <1>5, TracerouteSits
<1>6. ASSUME NEW i \in Interfaces, SendOneHop(i) PROVE IInv'
  BY <1>2, <1>6, SendOneHopSits
<1>7. CASE HostReply
  BY <1>1, <1>2, <1>7, ReplySits
<1>8. CASE HostDone
  BY <1>2, <1>8, DoneSits
<1>9. CASE FastPath
  <2>1. UNCHANGED <<down, flaps, now>>
    BY <1>9, Zenon DEF FastPath
  <2> QED
    BY <1>1, <1>2, <1>9, <2>1, FastSits
<1>10. CASE SlowPathSCMP
  <2>1. UNCHANGED <<down, flaps, now>>
    BY <1>10, Zenon DEF SlowPathSCMP
  <2> QED
    BY <1>1, <1>2, <1>10, <2>1, SlowSits
<1>11. CASE handleSCMPTraceRouteRequest
  <2>1. UNCHANGED <<down, flaps, now>>
    BY <1>11, Zenon DEF handleSCMPTraceRouteRequest
  <2> QED
    BY <1>1, <1>2, <1>11, <2>1, SlowSits
<1>12. CASE SessionGoesDown
  BY <1>1, <1>3, <1>12, BoundsAssumption DEF SessionGoesDown, Environment
<1>13. CASE SessionComesUp
  BY <1>1, <1>3, <1>13, BoundsAssumption DEF SessionComesUp, Environment
<1>14. CASE Tick
  BY <1>1, <1>3, <1>14, BoundsAssumption DEF Tick, Environment
<1>15. CASE UNCHANGED vars
  <2>1. UNCHANGED <<flow, pkt, loc, out>> /\ UNCHANGED <<down, flaps, now>>
    BY <1>15 DEF vars
  <2> QED
    BY <1>1, <1>2, <2>1
<1> QED
  BY <1>4, <1>5, <1>6, <1>7, <1>8, <1>9, <1>10, <1>11, <1>12, <1>13, <1>14, <1>15, Zenon DEF Next

\* No invariant that ranges over walks can be evaluated; what the invariant says of
\* the packet is checked by the runs.
LEMMA IInvHolds == Spec => []IInv
<1> QED
  BY InitIInv, NextIInv, PTL DEF Spec

\* On the way from router to router, over every combination of segments and back
\* again, the pointers of the path header stay inside the path and CurrINF stays the
\* segment of CurrHF: what DecodeFromBytes and IncPath rely on (raw.go, base.go).
THEOREM ForwardingTypeOK == Spec => []TypeOK
<1>1. IInv => TypeOK
  <2> SUFFICES ASSUME IInv PROVE TypeOK
    OBVIOUS
  <2>1. Environment /\ Sits(flow, pkt, loc, out)
    BY DEF IInv
  <2>2. CASE loc.at = "idle"
    BY <2>1, <2>2 DEF TypeOK, Environment
  <2>3. CASE loc.at # "idle"
    <3>1. Header(pkt) /\ loc.at \in {"idle", "host", "router", "slow", "dropped"}
      BY <2>1, <2>3 DEF Sits
    <3>2. IsPath(pkt.path) /\ Pointed(pkt.path) /\ pkt.kind \in {"data", "svc", "request", "reply", "error"}
      BY <3>1 DEF Header
    <3> DEFINE p == pkt.path
    <3>3. /\ p.currHF \in Nat /\ p.currHF + 1 \in 1 .. Len(p.hops)
          /\ p.currINF \in 0 .. 2 /\ p.currINF + 1 \in 1 .. Len(p.infos)
          /\ p.currINF = infIndexForHF(p, p.currHF)
          /\ Len(p.infos) \in 1 .. 3 /\ Len(p.hops) \in Nat
      BY <3>2, PointedFacts
    <3> DEFINE h == p.currHF
               i == p.currINF
               hops == Len(p.hops)
               infos == Len(p.infos)
    <3>4. hops \in Nat /\ infos \in Nat /\ h \in Nat /\ i \in Nat /\ h + 1 <= hops /\ i + 1 <= infos
      BY <3>3
    <3> HIDE DEF h, i, hops, infos
    <3>5. h \in 0 .. (hops - 1) /\ i < infos
      BY ONLY <3>4
    <3>6. p.currHF \in 0 .. (NumHops(p) - 1) /\ p.currINF < NumINF(p)
      BY <3>5 DEF NumHops, NumINF, h, i, hops, infos
    <3> QED
      BY <2>1, <3>1, <3>2, <3>3, <3>6 DEF TypeOK, Environment
  <2> QED
    BY <2>2, <2>3
<1> QED
  BY <1>1, IInvHolds, PTL

\* Every router on the way accepts a path of the combinator, and its reversal by the
\* receiver, whatever the topology and the beacons: the MACs verify, the interfaces
\* are known and the link types fit (process, dataplane.go).  A packet that is not an
\* answer leaves the fast path for the slow one only for a session that is down, an
\* expired hop field, a missing service or a router alert, and only a beacon to an AS
\* without a service is dropped.
THEOREM ForwardingPathsAreValid == Spec => []PathsAreValid
<1>1. IInv => PathsAreValid
  <2> SUFFICES ASSUME IInv, ~IsAnswer(pkt)
               PROVE  /\ loc.at = "dropped" => pkt.onehop /\ flow.dst \notin Backends
                      /\ loc.at = "slow" /\ loc.do = "slow" => loc.arg \in Excuses
    BY DEF PathsAreValid
  <2>1. Sits(flow, pkt, loc, out)
    BY DEF IInv
  <2>2. CASE loc.at = "idle"
    BY <2>2
  <2>3. CASE loc.at # "idle" /\ pkt.onehop
    BY <2>1, <2>3 DEF Sits, OneHop
  <2>4. CASE loc.at # "idle" /\ ~pkt.onehop
    BY <2>1, <2>4 DEF Sits, Travels
  <2> QED
    BY <2>2, <2>3, <2>4
<1> QED
  BY <1>1, IInvHolds, PTL

\* A packet crosses the interfaces the metadata of its path lists, in their order and
\* all of them before it is delivered, and it is delivered in the destination AS
\* only: the interfaces the combinator computes are those the routers take
\* (combinator/graph.go, dataplane.go).
THEOREM ForwardingStaysOnPath == Spec => []StaysOnPath
<1>1. IInv => StaysOnPath
  <2> SUFFICES ASSUME IInv
               PROVE  /\ IsPrefix(out, flow.intfs)
                      /\ loc.at = "host" /\ ~IsAnswer(pkt) => loc.ia = flow.dst /\ out = flow.intfs
    BY DEF StaysOnPath
  <2>1. Sits(flow, pkt, loc, out)
    BY DEF IInv
  <2>2. CASE pkt.onehop
    BY <2>1, <2>2 DEF Sits, OneHop
  <2>3. CASE ~pkt.onehop
    BY <2>1, <2>3 DEF Sits, Travels
  <2> QED
    BY <2>2, <2>3
<1> QED
  BY <1>1, IInvHolds, PTL
=============================================================================
