------------------------------ MODULE Router ------------------------------
(* What a border router does to one packet: the fast path (process and         *)
(* processOHP of router/dataplane.go) and the slow path (packSCMP,             *)
(* prepareSCMP, traceroute).  Every operator returns an outcome, the packet as *)
(* it is in the buffer at that moment included, because an early return leaves *)
(* the mutations made so far in the packet the slow path works on.             *)
(*                                                                             *)
(* A packet is [kind, src, dst, onehop, path, code, names]: kind is "data" or  *)
(* "svc" (addressed to a service), "request" and "reply" (SCMP traceroute) or  *)
(* "error" (SCMP error).  Packets are well formed: payload length, address     *)
(* parsing, hop-by-hop options, authentication and EPIC are left out.          *)
EXTENDS Combinator

CONSTANTS
    RouterOf,   \* [interface -> the router of the AS that owns it]
    Backends    \* the ASes where the addressed service is registered

Routers == {RouterOf[i] : i \in Interfaces}
IA(r) == (CHOOSE i \in Interfaces : RouterOf[i] = r)[1]

\* Every interface has a router of its own AS.
ASSUME RouterAssumption ==
    /\ DOMAIN RouterOf = Interfaces
    /\ \A i, j \in Interfaces : RouterOf[i] = RouterOf[j] => i[1] = j[1]

external(r) == {i[2] : i \in {i \in Interfaces : RouterOf[i] = r}}
internalNextHops(r) == {i[2] : i \in {i \in Interfaces : i[1] = IA(r) /\ RouterOf[i] # r}}
SiblingFor(r, id) == RouterOf[<<IA(r), id>>]
linkType(r, id) == IF id = 0 THEN "unset" ELSE LinkType[<<IA(r), id>>]

\* One BFD session per external interface, one per sibling router.
bfdSession(r, id) ==
    IF id \in external(r) THEN [at |-> r, link |-> id] ELSE [at |-> r, sibling |-> SiblingFor(r, id)]

sessionDown(r, id, down) ==
    id \in external(r) \cup internalNextHops(r) /\ bfdSession(r, id) \in down

Sessions == UNION {{bfdSession(r, i[2]) : i \in {i \in Interfaces : i[1] = IA(r)}} : r \in Routers}

Outcome(do, arg, path) == [do |-> do, arg |-> arg, path |-> path]

---------------------------------------------------------------------------
(* Helpers of the fast path.                                                   *)

\* The peering hops are the last of the first and the first of the second segment.
determinePeer(p) == Info(p).peer /\ p.currHF \in {p.segLen[1] - 1, p.segLen[1]}

\* The errors of determinePeer: a peering path has exactly two segments.
malformedPeering(p) == Info(p).peer /\ (p.segLen[1] = 0 \/ p.segLen[2] = 0 \/ p.segLen[3] # 0)

hopExpired(p, now) == Info(p).ts + Hop(p).exp < now

verifyCurrentMAC(r, p) ==
    Hop(p).mac = MAC(IA(r), Info(p).segID, Info(p).ts, Hop(p).exp, Hop(p).in, Hop(p).eg)

ingressInterface(p, peering) ==
    IF ~peering /\ IsFirstHopAfterXover(p)
      THEN IngressOf(p.infos[p.currINF], p.hops[p.currHF])
      ELSE IngressOf(Info(p), Hop(p))

egressInterface(p) == EgressOf(Info(p), Hop(p))

invalidTransitSrc(r, in, from, p, peering) ==
    /\ ~IsFirstHop(p) /\ in = 0
    /\ LET id == ingressInterface(p, peering)
       IN  id \notin internalNextHops(r) \/ from # SiblingFor(r, id)

invalidSrcIA(r, in, pkt) ==
    IF in = 0 THEN IsFirstHop(pkt.path) /\ pkt.src # IA(r) ELSE pkt.src = IA(r)

invalidDstIA(r, in, pkt) ==
    IF in = 0 THEN pkt.dst = IA(r) ELSE IsLastHop(pkt.path) # (pkt.dst = IA(r))

updateNonConsDirIngressSegID(p, in, peering) ==
    IF ~Info(p).consDir /\ in # 0 /\ ~peering THEN UpdateSegID(p) ELSE p

\* Which pairs of links a packet may use, within a segment and across two.
withinSegment == {<<"core", "core">>, <<"child", "parent">>, <<"parent", "child">>,
                  <<"child", "peer">>, <<"peer", "child">>}
acrossSegments == {<<"core", "child">>, <<"child", "core">>, <<"child", "child">>}

unknownEgress(r, in, p) ==
    egressInterface(p) \notin external(r) \cup (IF in = 0 THEN {} ELSE internalNextHops(r))

invalidPair(r, in, p, xover) ==
    LET pair == <<linkType(r, in), linkType(r, egressInterface(p))>>
    IN  IF xover THEN pair \notin acrossSegments ELSE in # 0 /\ pair \notin withinSegment

ingressRouterAlertUndirected(p) == Hop(p).inAlert
ingressRouterAlert(p) == IF Info(p).consDir THEN Hop(p).inAlert ELSE Hop(p).egAlert
egressRouterAlert(p) == IF Info(p).consDir THEN Hop(p).egAlert ELSE Hop(p).inAlert

clearIngressAlert(p) == SetHopField(p,
    IF Info(p).consDir THEN [Hop(p) EXCEPT !.inAlert = FALSE] ELSE [Hop(p) EXCEPT !.egAlert = FALSE])
clearEgressAlert(p) == SetHopField(p,
    IF Info(p).consDir THEN [Hop(p) EXCEPT !.egAlert = FALSE] ELSE [Hop(p) EXCEPT !.inAlert = FALSE])

doXover(p, peering) == IF IsXover(p) /\ ~peering THEN IncPath(p) ELSE p

processEgress(p, peering) ==
    IncPath(IF Info(p).consDir /\ ~peering THEN UpdateSegID(p) ELSE p)

---------------------------------------------------------------------------
(* The fast path: the first check that fails, or the first of the ways to      *)
(* dispose of the packet that applies, ends the processing.  Without a         *)
(* cross-over the second expiry and MAC checks repeat the first ones.          *)

\* Checks of the hop field the packet arrives with, and delivery; then rest.
inbound(r, in, from, pkt, now, peering, p1, rest) ==
    LET p0 == pkt.path
    IN  IF malformedPeering(p0) THEN Outcome("drop", 0, p0)
        ELSE IF hopExpired(p0, now) THEN Outcome("slow", "PathExpired", p0)
        ELSE IF in \notin {0, IngressOf(Info(p0), Hop(p0))} THEN Outcome("slow", "UnknownHopFieldIngress", p0)
        ELSE IF invalidTransitSrc(r, in, from, p0, peering) THEN Outcome("drop", 0, p0)
        ELSE IF invalidSrcIA(r, in, pkt) THEN Outcome("slow", "InvalidSourceAddress", p0)
        ELSE IF invalidDstIA(r, in, pkt) THEN Outcome("slow", "InvalidDestinationAddress", p0)
        ELSE IF ~verifyCurrentMAC(r, p1) THEN Outcome("slow", "InvalidHopFieldMAC", p1)
        ELSE IF in # 0 /\ ingressRouterAlert(p1) THEN Outcome("alert", in, clearIngressAlert(p1))
        ELSE IF pkt.dst # IA(r) THEN rest
        ELSE IF pkt.kind = "svc" /\ IA(r) \notin Backends THEN Outcome("slow", "NoRoute", p1)
        ELSE Outcome("deliver", 0, p1)

handleEgressRouterAlert(r, p, rest) ==
    IF egressRouterAlert(p) /\ egressInterface(p) \in external(r)
      THEN Outcome("alert", egressInterface(p), clearEgressAlert(p)) ELSE rest

validateEgressUp(r, p, down, rest) ==
    IF sessionDown(r, egressInterface(p), down)
      THEN Outcome("slow", IF egressInterface(p) \in external(r) THEN "ExternalInterfaceDown"
                                                               ELSE "InternalConnectivityDown", p)
      ELSE rest

\* The alert comes first: a traceroute is answered by the interface that failed.
egressChecksSessionFirst(r, p, down, rest) == validateEgressUp(r, p, down, handleEgressRouterAlert(r, p, rest))
egressChecks(r, p, down, rest) == handleEgressRouterAlert(r, p, validateEgressUp(r, p, down, rest))

\* Checks of the hop field the packet leaves with, p2, after a cross-over.
outbound(r, in, now, down, peering, xover, p2) ==
    IF hopExpired(p2, now) THEN Outcome("slow", "PathExpired", p2)
    ELSE IF ~verifyCurrentMAC(r, p2) THEN Outcome("slow", "InvalidHopFieldMAC", p2)
    ELSE IF unknownEgress(r, in, p2) THEN Outcome("slow", "UnknownHopFieldEgress", p2)
    ELSE IF invalidPair(r, in, p2, xover) THEN Outcome("slow", "InvalidPath", p2)
    ELSE egressChecks(r, p2, down,
        IF egressInterface(p2) \in external(r)
          THEN Outcome("external", egressInterface(p2), processEgress(p2, peering))
          ELSE Outcome("internal", egressInterface(p2), p2))

process(r, in, from, pkt, now, down) ==
    LET peering == determinePeer(pkt.path)
        p1 == updateNonConsDirIngressSegID(pkt.path, in, peering)
        p2 == doXover(p1, peering)
    IN  inbound(r, in, from, pkt, now, peering, p1,
                outbound(r, in, now, down, peering, p2.currHF # p1.currHF, p2))

\* One-hop paths carry beacons between neighbours.  The second hop field is
\* made by the router that receives the packet.
processOHP(r, in, pkt) ==
    LET p == pkt.path
        first == Hop(p)
        second == createHopF(IA(r), in, 0, Info(p).ts, Info(p).segID)
    IN  IF ~Info(p).consDir THEN Outcome("drop", 0, p)
        ELSE IF in = 0 THEN
            IF \/ pkt.src # IA(r)
               \/ first.eg \notin external(r)
               \/ pkt.dst # Remote[<<IA(r), first.eg>>][1]
               \/ ~verifyCurrentMAC(r, p) THEN Outcome("drop", 0, p)
            ELSE Outcome("external", first.eg, UpdateSegID(p))
        ELSE IF pkt.dst # IA(r) \/ pkt.src # Remote[<<IA(r), in>>][1] THEN Outcome("drop", 0, p)
        ELSE IF pkt.kind = "svc" /\ IA(r) \notin Backends THEN Outcome("drop", 0, p)
        ELSE Outcome("deliver", 0, [p EXCEPT !.hops[2] =
            [second EXCEPT !.exp = first.exp,
                           !.mac = MAC(IA(r), Info(p).segID, Info(p).ts, first.exp, in, 0)]])

---------------------------------------------------------------------------
(* The slow path.                                                              *)

prepareSCMPKeepsSegID(p, in) ==
    LET rev == ReversePath(p)
        rev1 == doXover(rev, determinePeer(rev))
    IN  IF in = 0 THEN rev1 ELSE IncPath(rev1)

\* The path of an answer: reversed, a cross-over made before the error undone,
\* and moved on as the egress router would if it leaves by an external link.
prepareSCMP(p, in) ==
    LET rev == ReversePath(p)
        peering == determinePeer(rev)
        rev1 == doXover(rev, peering)
    IN  IF in = 0 THEN rev1 ELSE processEgress(rev1, peering)

Answer(r, in, pkt, kind, code, names) ==
    [kind |-> kind, src |-> IA(r), dst |-> pkt.src, onehop |-> FALSE,
     path |-> prepareSCMP(pkt.path, in), code |-> code, names |-> names]
=============================================================================
