---------------------------- MODULE Forwarding ----------------------------
(* A packet on its way through the routers of several ASes, its answers        *)
(* included.  Routers keep no state between packets except their BFD           *)
(* sessions, so one packet at a time shows what any of them meets.  Fast and   *)
(* slow path of a router are separate goroutines and separate steps: sessions  *)
(* change and hop fields expire between them.                                  *)
EXTENDS Router

CONSTANTS
    DownBeacons,    \* the beacons registered as up and down segments: [id, exits]
    CoreBeacons,    \* the beacons registered as core segments
    Kinds,          \* what hosts send: subset of {"data", "svc", "request", "onehop"}
    MaxDown,        \* number of sessions that are down at a time
    MaxFlaps,       \* bound on the changes of sessions
    Start, MaxTime  \* the clock starts at Start and stops at MaxTime

VARIABLES
    flow,       \* the exchange: who asks whom, over which interfaces, which probe
    pkt,        \* the packet
    loc,        \* where it is
    out,        \* the interfaces it crossed on the way to dst
    back,       \* the interfaces its SCMP answer crossed
    down,       \* the BFD sessions that are not up
    flaps,      \* number of session changes so far
    now         \* the clock of all routers

vars == <<flow, pkt, loc, out, back, down, flaps, now>>

\* Beacons within an ISD go down to children, core beacons to core neighbours.
ASSUME BeaconAssumption ==
    /\ \A b \in DownBeacons : IsTrail(b.exits, "child")
    /\ \A b \in CoreBeacons : IsTrail(b.exits, "core")

ASSUME BoundsAssumption == {MaxDown, MaxFlaps, Start, MaxTime} \subseteq Nat /\ Start <= MaxTime

ASes == {i[1] : i \in Interfaces}
NoFlow == [src |-> "none", dst |-> "none", intfs |-> <<>>, probe |-> 0, replied |-> FALSE]
NoPacket == [kind |-> "none"]

Idle == [at |-> "idle"]
AtHost(ia) == [at |-> "host", ia |-> ia]
Dropped(ia) == [at |-> "dropped", ia |-> ia]
AtRouter(r, in, from) == [at |-> "router", router |-> r, in |-> in, from |-> from]
AtSlowPath(l, do, arg) == [at |-> "slow", router |-> l.router, in |-> l.in, from |-> l.from,
                           do |-> do, arg |-> arg]

Init ==
    /\ flow = NoFlow /\ pkt = NoPacket /\ loc = Idle
    /\ out = <<>> /\ back = <<>>
    /\ down = {} /\ flaps = 0 /\ now = Start

---------------------------------------------------------------------------
(* Hosts.                                                                      *)

DownSegments == {Beacon(b.id, b.exits) : b \in DownBeacons}
CoreSegments == {Beacon(b.id, b.exits) : b \in CoreBeacons}

UpSegmentsOf(ia) == {s \in DownSegments : LastIA(s) = ia}

\* All that the combinator offers, for all pairs of ASes.
Paths == [pair \in {q \in ASes \X ASes : q[1] # q[2]} |->
             Combine(pair[1], pair[2], UpSegmentsOf(pair[1]), CoreSegments, UpSegmentsOf(pair[2]))]

\* The hop fields a traceroute probes, in order: [hf, egress], egress telling
\* which alert flag of the hop field is set.
ProbesAt(p, hf) ==
    LET at(h) == [p EXCEPT !.currHF = h, !.currINF = infIndexForHF(p, h)]
        xover(h) == IsXover(at(h)) /\ ~Info(at(h)).peer
        consDir == Info(at(hf)).consDir
    IN  (IF hf # 0 /\ ~xover(hf - 1) THEN <<[hf |-> hf, egress |-> ~consDir]>> ELSE <<>>)
        \o (IF hf < NumHops(p) - 1 /\ ~xover(hf) THEN <<[hf |-> hf, egress |-> consDir]>> ELSE <<>>)

Probes(p) == FlattenSeq([k \in 1..NumHops(p) |-> ProbesAt(p, k - 1)])

SetAlert(p, probe) == IF probe.egress THEN [p EXCEPT !.hops[probe.hf + 1].egAlert = TRUE]
                                      ELSE [p EXCEPT !.hops[probe.hf + 1].inAlert = TRUE]

\* The host hands the packet to the router of the first egress interface.
FirstRouter(ia, p) == AtRouter(RouterOf[<<ia, egressInterface(p)>>], 0, "host")

Packet(kind, src, dst, path) == [kind |-> kind, src |-> src, dst |-> dst, onehop |-> FALSE,
                                 path |-> path, code |-> "", names |-> <<>>]

Send(src, dst, intfs, probe, replied, packet) ==
    /\ flow' = [src |-> src, dst |-> dst, intfs |-> intfs, probe |-> probe, replied |-> replied]
    /\ pkt' = packet
    /\ loc' = FirstRouter(src, packet.path)
    /\ out' = <<>> /\ back' = <<>>
    /\ UNCHANGED <<down, flaps, now>>

HostSend(src, dst, kind) ==
    /\ loc = Idle
    /\ \E p \in Paths[<<src, dst>>] :
           Send(src, dst, p.intfs, 0, FALSE, Packet(kind, src, dst, p.path))

HostTraceroute(src, dst) ==
    /\ loc = Idle
    /\ \E p \in Paths[<<src, dst>>] : \E k \in DOMAIN Probes(p.path) :
           Send(src, dst, p.intfs, k, FALSE,
                Packet("request", src, dst, SetAlert(p.path, Probes(p.path)[k])))

\* The control service sends a beacon over interface i, addressed to the
\* service of the neighbour.
SendOneHop(i) ==
    /\ loc = Idle
    /\ LET segID == {[seg |-> "onehop"]}
           first == createHopF(i[1], 0, i[2], 0, segID)
           path == [segLen |-> <<2, 0, 0>>, infos |-> <<InfoField(segID, 0, TRUE, FALSE)>>,
                    hops |-> <<first, HopField(0, 0, 0, <<>>)>>, currINF |-> 0, currHF |-> 0]
           dst == Remote[i][1]
       IN  Send(i[1], dst, <<i, Remote[i]>>, 0, FALSE,
                [Packet("svc", i[1], dst, path) EXCEPT !.onehop = TRUE])

\* The receiver answers over the reversed path (ReplyPath).
HostReply ==
    /\ loc.at = "host"
    /\ pkt.kind \in {"data", "svc"} /\ ~flow.replied
    /\ LET path == IF pkt.onehop THEN OneHopReverse(pkt.path) ELSE ReversePath(pkt.path)
       IN  Send(flow.dst, flow.src, Reverse(flow.intfs), 0, TRUE,
                Packet("data", flow.dst, flow.src, path))

\* The exchange is over for the sender: it has its answer, or gives up.
HostDone ==
    /\ loc.at \in {"host", "dropped"}
    /\ flow' = NoFlow /\ pkt' = NoPacket /\ loc' = Idle
    /\ out' = <<>> /\ back' = <<>>
    /\ UNCHANGED <<down, flaps, now>>

---------------------------------------------------------------------------
(* Routers.                                                                    *)

IsAnswer(p) == p.kind \in {"reply", "error"}

\* The packet crosses the link of interface id of router r.
Cross(r, id) ==
    LET i == <<IA(r), id>>
        hop == <<i, Remote[i]>>
    IN  /\ loc' = AtRouter(RouterOf[Remote[i]], Remote[i][2], "neighbour")
        /\ IF IsAnswer(pkt') THEN back' = back \o hop /\ UNCHANGED out
                             ELSE out' = out \o hop /\ UNCHANGED back

FastPath ==
    /\ loc.at = "router"
    /\ \E o \in {IF pkt.onehop THEN processOHP(loc.router, loc.in, pkt)
                                ELSE process(loc.router, loc.in, loc.from, pkt, now, down)} :
          /\ pkt' = [pkt EXCEPT !.path = o.path]
          /\ \/ o.do = "external" /\ Cross(loc.router, o.arg)
             \/ o.do # "external" /\ UNCHANGED <<out, back>> /\
                loc' = CASE o.do = "drop" -> Dropped(IA(loc.router))
                         [] o.do = "deliver" -> AtHost(IA(loc.router))
                         [] o.do = "internal" -> AtRouter(SiblingFor(loc.router, o.arg), 0, loc.router)
                         [] o.do \in {"slow", "alert"} -> AtSlowPath(loc, o.do, o.arg)
    /\ UNCHANGED <<flow, down, flaps, now>>

SendBackWithoutAddress ==
    IF loc.in # 0 THEN Cross(loc.router, loc.in)
    ELSE loc' = Dropped(IA(loc.router)) /\ UNCHANGED <<out, back>>

SendBackToHost ==
    IF loc.in # 0 THEN Cross(loc.router, loc.in)
    ELSE loc' = AtHost(IA(loc.router)) /\ UNCHANGED <<out, back>>

\* The answer leaves the way the packet came in: over the external link, or to
\* the underlay address the packet came from.
SendBack ==
    IF loc.in # 0 THEN Cross(loc.router, loc.in)
    ELSE /\ loc' = IF loc.from = "host" THEN AtHost(IA(loc.router))
                                        ELSE AtRouter(loc.from, 0, loc.router)
         /\ UNCHANGED <<out, back>>

\* An error about an error is not sent.
SlowPathSCMP ==
    /\ loc.at = "slow" /\ loc.do = "slow"
    /\ IF pkt.kind = "error"
         THEN loc' = Dropped(IA(loc.router)) /\ UNCHANGED <<pkt, out, back>>
         ELSE /\ pkt' = Answer(loc.router, loc.in, pkt, "error", loc.arg, <<>>)
              /\ SendBack
    /\ UNCHANGED <<flow, down, flaps, now>>

\* A router alert on anything but a traceroute request ends the packet.
handleSCMPTraceRouteRequest ==
    /\ loc.at = "slow" /\ loc.do = "alert"
    /\ IF pkt.kind # "request"
         THEN loc' = Dropped(IA(loc.router)) /\ UNCHANGED <<pkt, out, back>>
         ELSE /\ pkt' = Answer(loc.router, loc.in, pkt, "reply", "", <<IA(loc.router), loc.arg>>)
              /\ SendBack
    /\ UNCHANGED <<flow, down, flaps, now>>

---------------------------------------------------------------------------
(* The environment.                                                            *)

SessionGoesDown ==
    /\ flaps < MaxFlaps
    /\ Cardinality(down) < MaxDown
    /\ \E s \in Sessions \ down : down' = down \cup {s}
    /\ flaps' = flaps + 1
    /\ UNCHANGED <<flow, pkt, loc, out, back, now>>

SessionComesUp ==
    /\ flaps < MaxFlaps
    /\ \E s \in down : down' = down \ {s}
    /\ flaps' = flaps + 1
    /\ UNCHANGED <<flow, pkt, loc, out, back, now>>

Tick ==
    /\ now < MaxTime
    /\ now' = now + 1
    /\ UNCHANGED <<flow, pkt, loc, out, back, down, flaps>>

Next ==
    \/ \E src, dst \in ASes : src # dst /\ \E kind \in Kinds \cap {"data", "svc"} : HostSend(src, dst, kind)
    \/ \E src, dst \in ASes : src # dst /\ "request" \in Kinds /\ HostTraceroute(src, dst)
    \/ \E i \in Interfaces : "onehop" \in Kinds /\ SendOneHop(i)
    \/ HostReply
    \/ HostDone
    \/ FastPath
    \/ SlowPathSCMP
    \/ handleSCMPTraceRouteRequest
    \/ SessionGoesDown
    \/ SessionComesUp
    \/ Tick

Spec == Init /\ [][Next]_vars

\* Router goroutines keep running and packets are not lost between them.
RouterStep == FastPath \/ SlowPathSCMP \/ handleSCMPTraceRouteRequest
SpecLive == Spec /\ WF_vars(RouterStep)

---------------------------------------------------------------------------
(* Properties.                                                                 *)

\* Pointers stay inside the path, and CurrINF is the segment of CurrHF.
TypeOK ==
    /\ loc.at \in {"idle", "host", "router", "slow", "dropped"}
    /\ down \subseteq Sessions /\ flaps \in 0..MaxFlaps /\ now \in Start..MaxTime
    /\ loc.at # "idle" =>
        /\ pkt.kind \in {"data", "svc", "request", "reply", "error"}
        /\ pkt.path.currHF \in 0..(NumHops(pkt.path) - 1)
        /\ pkt.path.currINF = infIndexForHF(pkt.path, pkt.path.currHF)
        /\ pkt.path.currINF < NumINF(pkt.path)

Excuses == {"ExternalInterfaceDown", "InternalConnectivityDown", "NoRoute", "PathExpired"}

\* No router on the way finds fault with a path of the combinator, or with its
\* reversal by the receiver: every MAC verifies, the interfaces are known and
\* their link types fit.  What sends a packet to the slow path is a session
\* that is down, an expired hop, a missing service or a router alert; only a
\* beacon to an AS without a service is dropped.
PathsAreValid ==
    ~IsAnswer(pkt) =>
        /\ loc.at = "dropped" => pkt.onehop /\ flow.dst \notin Backends
        /\ loc.at = "slow" /\ loc.do = "slow" => loc.arg \in Excuses

\* The packet crosses the interfaces listed in the path's metadata, all of them
\* before it is delivered, and only the destination gets it.
StaysOnPath ==
    /\ IsPrefix(out, flow.intfs)
    /\ loc.at = "host" /\ ~IsAnswer(pkt) => loc.ia = flow.dst /\ out = flow.intfs

\* No hop field has expired under way and no session has changed under a traceroute:
\* a router has no reason to answer an answer with an error.
AnswerUndisturbed == now = Start /\ (flow.probe = 0 \/ flaps = 0)

\* An SCMP answer retraces the part of the path that was crossed, back to the
\* source, unless expiry or a session under a traceroute comes in its way.
AnswersRetrace ==
    AnswerUndisturbed =>
        /\ IsPrefix(back, Reverse(out))
        /\ loc.at = "host" /\ IsAnswer(pkt) => loc.ia = flow.src /\ back = Reverse(out)

\* Every probe of a traceroute is answered, and the k-th one by the k-th
\* interface of the path's metadata.
TracerouteNamesInterfaces ==
    loc.at = "host" /\ flow.probe # 0 =>
        pkt.kind = "reply" /\ pkt.names = flow.intfs[flow.probe]

\* When a link is down, a traceroute finds it: the probes up to the interface
\* that failed are answered by their interfaces, only later ones by an error.
TraceroutePinpoints ==
    loc.at = "host" /\ flow.probe # 0 /\ pkt.code = "ExternalInterfaceDown" /\ loc.ia = flow.src =>
        flow.probe > Len(out) + 1

\* Every router on the way back finds an SCMP message to the source valid and passes it
\* on, whatever router and check it comes from: only a session that is down, or a hop
\* field that expires under way, can end it before it has reached the source.
AnswersAreValid ==
    IsAnswer(pkt) /\ pkt.dst = flow.src /\ now = Start /\ loc.at = "router" =>
        LET o == process(loc.router, loc.in, loc.from, pkt, now, down)
        IN  \/ o.do \in {"external", "internal", "deliver"}
            \/ o.do = "slow" /\ o.arg \in {"ExternalInterfaceDown", "InternalConnectivityDown"}

\* Whoever sends a packet hears of it: it is delivered, or an answer to it is.
EventuallyAnswered == loc.at \in {"router", "slow"} ~> loc.at = "host"
=============================================================================
