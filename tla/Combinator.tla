---------------------------- MODULE Combinator ----------------------------
(* From beacons to forwarding paths.  Extend is what every AS does to a        *)
(* beacon (control/beaconing/extender.go); Combine turns up, core and down     *)
(* segments into paths (private/path/combinator).                              *)
(*                                                                             *)
(* Signatures, static info, MTUs, EPIC and FABRID data and the order of the    *)
(* result are left out.  Combine is the variant with findAllIdentical = true.  *)
EXTENDS ScionPath

CONSTANTS
    LinkType,   \* [interface -> {"core", "parent", "child", "peer"}]
    Remote,     \* [interface -> interface], the other end of the link
    ExpTime     \* [AS -> expiry of the hop fields it makes, relative to the beacon]

\* An interface is <<ia, id>>; id 0 stands for the inside of the AS.
Interfaces == DOMAIN LinkType
PeersOf(ia) == {i \in Interfaces : i[1] = ia /\ LinkType[i] = "peer"}

\* Remote is symmetric; a link joins two ASes, which agree on its type.
ASSUME TopologyAssumption ==
    /\ DOMAIN Remote = Interfaces
    /\ \A i \in Interfaces :
        /\ i = <<i[1], i[2]>> /\ i[2] \in Nat \ {0}
        /\ Remote[i] \in Interfaces /\ Remote[i][1] # i[1]
        /\ Remote[Remote[i]] = i
        /\ <<LinkType[i], LinkType[Remote[i]]>> \in
               {<<"core", "core">>, <<"parent", "child">>,
                <<"child", "parent">>, <<"peer", "peer">>}

---------------------------------------------------------------------------
(* Beacons: [id, ts, entries], an entry is [local, hop, peers].               *)

\* The accumulator after the MACs of the first n entries.
BetaAfter(pseg, n) ==
    LET beta[k \in 0..n] == IF k = 0 THEN {[seg |-> pseg.id]}
                            ELSE SymDiff(beta[k - 1], {pseg.entries[k].hop.mac})
    IN  beta[n]

extractBeta(pseg) == BetaAfter(pseg, Len(pseg.entries))

createHopF(ia, in, eg, ts, beta) ==
    HopField(in, eg, ExpTime[ia], MAC(ia, beta, ts, ExpTime[ia], in, eg))

createPeerEntry(peer, eg, ts, beta) ==
    [peer |-> Remote[peer][1], peerIf |-> Remote[peer][2],
     hop |-> createHopF(peer[1], peer[2], eg, ts, beta)]

\* Peer hop fields chain to the regular hop field of the same AS, like the
\* hop field of a child.
ExtendPeersAsSiblings(pseg, ia, in, eg) ==
    LET beta == extractBeta(pseg)
        hop == createHopF(ia, in, eg, pseg.ts, beta)
    IN  [pseg EXCEPT !.entries = Append(@,
            [local |-> ia, hop |-> hop,
             peers |-> {createPeerEntry(i, eg, pseg.ts, beta) : i \in PeersOf(ia)}])]

Extend(pseg, ia, in, eg) ==
    LET beta == extractBeta(pseg)
        hop == createHopF(ia, in, eg, pseg.ts, beta)
        peerBeta == SymDiff(beta, {hop.mac})
    IN  [pseg EXCEPT !.entries = Append(@,
            [local |-> ia, hop |-> hop,
             peers |-> {createPeerEntry(i, eg, pseg.ts, peerBeta) : i \in PeersOf(ia)}])]

\* The interfaces through which a beacon leaves its origin and every AS on its
\* way, all of one link type.
IsTrail(exits, type) ==
    /\ exits \in Seq(Interfaces) /\ exits # <<>>
    /\ \A k \in 1..Len(exits) : LinkType[exits[k]] = type
    /\ \A k \in 1..(Len(exits) - 1) : exits[k + 1][1] = Remote[exits[k]][1]

\* A beacon that left its origin through the interfaces exits, one per AS, and
\* was terminated in the AS behind the last one.
Beacon(id, exits) ==
    LET n == Len(exits)
        sent[k \in 0..n] ==
            IF k = 0 THEN Extend([id |-> id, ts |-> 0, entries |-> <<>>], exits[1][1], 0, exits[1][2])
            ELSE Extend(sent[k - 1], Remote[exits[k]][1], Remote[exits[k]][2],
                        IF k < n THEN exits[k + 1][2] ELSE 0)
    IN  sent[n]

LastIA(pseg) == Last(pseg.entries).local

---------------------------------------------------------------------------
(* The graph of segments.  A vertex is an AS or a peering link, an edge is     *)
(* one way to use a segment: shortcut is the 0-based index of the entry where  *)
(* it ends (up) or starts (down), peer the peer entry used there or NoPeer.    *)

NoPeer == [peer |-> "none"]

vertexFromIA(ia) == [ia |-> ia]
vertexFromPeering(up, down) == [up |-> up, down |-> down]

Edge(typ, pseg, shortcut, peer, src, dst) ==
    [typ |-> typ, seg |-> pseg, shortcut |-> shortcut, peer |-> peer, src |-> src, dst |-> dst]

CoreEdges(pseg) ==
    {Edge("core", pseg, 0, NoPeer, vertexFromIA(LastIA(pseg)), vertexFromIA(pseg.entries[1].local))}

\* For down segments the edges and the peering vertices are turned around.
UpEdges(pseg) ==
    LET pinned == vertexFromIA(LastIA(pseg))
        entry(i) == pseg.entries[i + 1]
        own(i, e) == <<entry(i).local, e.hop.in>>
    IN  {Edge("up", pseg, i, NoPeer, pinned, vertexFromIA(entry(i).local)) :
             i \in 0..(Len(pseg.entries) - 2)}
        \cup UNION {{Edge("up", pseg, i, e, pinned,
                          vertexFromPeering(own(i, e), <<e.peer, e.peerIf>>)) :
                             e \in entry(i).peers} : i \in 0..(Len(pseg.entries) - 1)}

ReverseVertex(v) == IF "up" \in DOMAIN v THEN [up |-> v.down, down |-> v.up] ELSE v

AsDown(e) == [e EXCEPT !.typ = "down", !.src = ReverseVertex(e.dst), !.dst = ReverseVertex(e.src)]

DownEdges(pseg) == {AsDown(e) : e \in UpEdges(pseg)}

newDMG(ups, cores, downs) ==
    (UNION {UpEdges(s) : s \in ups}) \cup (UNION {CoreEdges(s) : s \in cores})
        \cup (UNION {DownEdges(s) : s \in downs})

validNextSeg(curr, next) == <<curr.typ, next.typ>> \in
                                {<<"up", "core">>, <<"up", "down">>, <<"core", "down">>}

\* The search stops at dst; validNextSeg bounds the length of a solution to 3.
GetPaths(dmg, src, dst) ==
    LET follows(e, f) == f.src = e.dst /\ validNextSeg(e, f)
        open(e) == e.dst # dst
        one == {<<e>> : e \in {e \in dmg : e.src = src}}
        extend(sols) == UNION {{Append(s, f) : f \in {f \in dmg : follows(Last(s), f)}} :
                                   s \in {s \in sols : open(Last(s))}}
        two == extend(one)
    IN  {s \in one \cup two \cup extend(two) : ~open(Last(s))}

---------------------------------------------------------------------------
(* A solution becomes a path with its list of interfaces.                      *)

calculateBetaIgnoresPeer(e) ==
    BetaAfter(e.seg, IF e.typ = "down" THEN e.shortcut ELSE Len(e.seg.entries) - 1)

calculateBeta(e) ==
    LET last == Len(e.seg.entries) - 1
        isPeer == e.peer # NoPeer
        index == IF e.typ = "down"
                   THEN e.shortcut + (IF isPeer THEN 1 ELSE 0)
                   ELSE last + (IF isPeer /\ last = e.shortcut THEN 1 ELSE 0)
    IN  BetaAfter(e.seg, index)

\* The hop fields and interfaces of one edge in forwarding order.
SegmentHop(e, i) ==
    IF i = e.shortcut /\ e.peer # NoPeer THEN e.peer.hop ELSE e.seg.entries[i + 1].hop

SegmentHopInterfacesOfWholeHop(e, i) ==
    LET hop == SegmentHop(e, i)
        ia == e.seg.entries[i + 1].local
    IN  (IF hop.eg # 0 THEN <<<<ia, hop.eg>>>> ELSE <<>>)
        \o (IF hop.in # 0 THEN <<<<ia, hop.in>>>> ELSE <<>>)

\* In a shortcut that is not a peering the AS is not traversed completely.
SegmentHopInterfaces(e, i) ==
    LET hop == SegmentHop(e, i)
        ia == e.seg.entries[i + 1].local
        isShortcut == i = e.shortcut /\ e.shortcut # 0
        isPeer == i = e.shortcut /\ e.peer # NoPeer
    IN  (IF hop.eg # 0 THEN <<<<ia, hop.eg>>>> ELSE <<>>)
        \o (IF hop.in # 0 /\ (~isShortcut \/ isPeer) THEN <<<<ia, hop.in>>>> ELSE <<>>)

Segment(e) ==
    LET last == Len(e.seg.entries) - 1
        n == last - e.shortcut + 1
        upward(op(_, _)) == [k \in 1..n |-> op(e, last + 1 - k)]
        hops == upward(SegmentHop)
        intfs == FlattenSeq(upward(SegmentHopInterfaces))
        down == e.typ = "down"
    IN  [info |-> InfoField(calculateBeta(e), e.seg.ts, down, e.peer # NoPeer),
         hops |-> IF down THEN Reverse(hops) ELSE hops,
         intfs |-> IF down THEN Reverse(intfs) ELSE intfs]

Path(solution) ==
    LET segs == [i \in DOMAIN solution |-> Segment(solution[i])]
    IN  [path |-> [segLen |-> [i \in 1..3 |-> IF i \in DOMAIN segs THEN Len(segs[i].hops) ELSE 0],
                   infos |-> [i \in DOMAIN segs |-> segs[i].info],
                   hops |-> FlattenSeq([i \in DOMAIN segs |-> segs[i].hops]),
                   currINF |-> 0, currHF |-> 0],
         intfs |-> FlattenSeq([i \in DOMAIN segs |-> segs[i].intfs])]

\* Paths that use more than two interfaces of an AS are removed.
filterLongPaths(paths) ==
    {p \in paths : \A i \in DOMAIN p.intfs :
        Cardinality({j \in DOMAIN p.intfs : p.intfs[j][1] = p.intfs[i][1]}) <= 2}

Combine(src, dst, ups, cores, downs) ==
    filterLongPaths({Path(s) : s \in GetPaths(newDMG(ups, cores, downs),
                                              vertexFromIA(src), vertexFromIA(dst))})
=============================================================================
