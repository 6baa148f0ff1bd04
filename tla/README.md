# Formal models of SCION (scion-sbom)

TLA+ specifications, TLC models and TLAPS proofs for the Go code under
`src/scion-sbom`: a fork of the SCION inter-domain network (border router, control
service, daemon, dispatcher, SCION-IP gateway) with the FABRID and DRKey extensions,
and the RBOM generator in `src/sbom-gen`.

## 1. Inventory

| Component | Source (below `src/scion-sbom`) | State | Operations | Hard because |
|---|---|---|---|---|
| BFD session | `router/bfd` | local/remote state, discriminators, two timers, receive queue | Run loop (message, send timer, detection timer), ReceiveMessage, Close | two timers and a queue in each of two routers, jitter, restarts, losses |
| Router packet pipeline | `router/dataplane.go` (Run, runReceiver, runProcessor, runSlowPathProcessor, runForwarder) | pool of buffers, one queue per processor, slow path and interface | receive, process, slow path, forward, return buffer | goroutines hand over buffer ownership; full queues; a lost buffer is lost forever |
| Router forwarding | `router/dataplane.go` (process, processOHP, prepareSCMP), `pkg/slayers/path` | none; the packet carries the path and its pointers | validate, verify MAC, update SegID, cross over, increment, resolve, SCMP | the MAC chain and the pointers must agree at every AS, in both directions, over peering links and on reversed paths |
| Service registry | `router/svc.go` | addresses per service | AddSvc, DelSvc, Any | addresses are shared with packets being forwarded |
| Control service: beaconing | `control/beacon`, `control/beaconing`, `control/ifstate` | beacon store, interface state, last-sent times | originate, propagate, register, handle, clean | timers, expiry, lost and late calls, restarts |
| Control service: segments | `control/segreq`, `control/segreg`, `private/segment`, `private/revcache`, `private/pathdb` | path database, next-query cache, revocations | fetch, verify, store, reply | cached state that is stale when used |
| Path combination | `private/path/combinator` | none | Combine | selection of the right hop fields, peering and shortcuts |
| Trust | `private/trust`, `pkg/scrypto` | TRC and certificate database | fetch, verify, sign, notify TRC | TRC update and grace period |
| DRKey and QKD | `control/drkey`, `pkg/drkey`, `pkg/drkey/qkd` | secret value and key stores, epochs | derive, fetch, prefetch | epoch borders |
| SCION-IP gateway, control | `gateway/control`, `gateway/pathhealth`, `gateway/routing` | sessions, path monitors, routing tables | session monitor, prober, engine, route publisher | many goroutines, reconfiguration, time-outs |
| SCION-IP gateway, data | `gateway/dataplane` | frame buffers, reassembly lists, packet ring | encode, send, receive, reassemble | lost and reordered frames |
| Dispatcher, daemon, snet | `dispatcher`, `daemon`, `pkg/snet` | registrations, caches | register, look up, send, receive | reuse of ports and paths |
| Hidden paths, EPIC, FABRID | `pkg/experimental`, `router/dataplane_fabrid.go` | registries, policies | register, look up, validate | replay windows, policy lookup |
| Building blocks | `private/ringbuf`, `private/periodic`, `private/worker` | ring, runner state | read/write/close, run/trigger/stop, run/close | blocking, concurrent close |
| RBOM generator | `src/sbom-gen` | none | walk, write JSON | a batch script |

What makes each component correct:

* **BFD session**: a session comes up only through a handshake with a session that
  exists; only silence of the peer takes it down; after the last disturbance both ends
  agree that the link is up; a dead peer is noticed.
* **Packet pipeline**: buffers are neither lost nor used by two goroutines; no receiver
  starves however full the queues are.
* **Forwarding, path header, combination, beacon extension**: a path that the control
  plane builds is accepted by every router it names, in both directions; packets cross
  exactly the interfaces the path lists; whoever sends a packet gets it delivered or
  hears why not.
* **Service registry**: what was added and not deleted is what lookups return.
* **Beaconing, segments, trust, DRKey**: what is handed out is neither expired, revoked
  nor older than what the same caller has seen; periodic tasks make up for failures.
* **Gateway**: traffic moves to a healthy session and back; reassembled packets are
  packets that were sent.
* **Building blocks**: no lost wake-up; Close ends every blocked call.

`PROJECT.json` lists, under `hazards`, the places where each of these could go wrong.

## 2. Plan

The router comes first: every packet depends on it, and the behaviour that is hardest to
test (MAC chains over several ASes, buffer ownership, timers of two routers) is there.

| Order | Modules | Content | State |
|---|---|---|---|
| 1 | `BFDSession`, `BFDSessionProofs` | two sessions over a lossy link with restarts | done |
| 2 | `ScionPath`, `Combinator`, `Router`, `Forwarding`, `ForwardingProofs` | beacon to path to packet to answer | done |
| 3 | `PacketPool`, `PacketPoolProofs`, `ProofBasics` | goroutines, queues and the buffer pool; sums over finite sets | done |
| 4 | `Services`, `ServicesProofs` | shared addresses of the service registry | done |
| 5 | `BoundedQueue`, `RingBuf`, `RingBufProofs` | blocking against Close; the ring implements the abstract queue | done |
| 6 | `GatewayEgress`, `GatewayIngress`, `Gateway`, `GatewayProofs` | packets to frames, a network that loses, duplicates and reorders, frames to packets | done |
| 7 | `Beaconing`, `BeaconingProofs` | periodic tasks of several control services, their calls, both databases, restarts | done; selection of the best beacons left out |
| 8 | `SessionMonitor`, `SessionSelection` | gateway control: probes, expiry, path choice | planned |
| 9 | `SegmentLookup` | next-query cache, revocations, expiry | planned |
| 10 | `TrustStore`, `DRKeyEpochs` | TRC updates with grace period; epochs and prefetching | planned |

Theorems still planned: that SCMP answers retrace the path (`AnswersRetrace`,
`AnswersAreValid`) from the walks of `ForwardingProofs`.

## 3. Modules and the code

### BFDSession

Two nodes with one `Session` each. The fields of `Session` are functions over the nodes
with the names of the code; `sendTimer` and `detectTimer` count the ticks until the
channel of the timer is readable; `messages` is the receive queue and `link` the packets
on the way. `ProcessMessage`, `SendTimerFires` and `DetectionTimerFires` are the three
branches of the `select` in `Run`, each with everything the branch does; `ReceiveMessage`
is the method with `shouldDiscard`; `Start` is a new `Session` whose `Run` has been called,
`Stop` is `Close` or a crash. `NoSession` is the packet that reaches a router without a
running session. The link is FIFO and may lose packets (`Lose`). `ForeignAdminDown` is the
behaviour of another implementation of RFC 5880, which may announce AdminDown.

`Tick` requires that whatever is ready has been handled: the loop is prompt compared with
the intervals, and a packet arrives in the tick it was sent in. Within a tick all orders
of the branches and the packets happen, in particular a packet that arrives together with
the expiry of the timer. Jitter is chosen from all percentages of the code and rounded as
the code does. `missed` and `heardPeer` are history variables used by one property.

### ScionPath, Combinator, Router, Forwarding

`ScionPath` is the path header with its pointers. A MAC is the record of its inputs, and
SegID, in the code a chain of XORs of truncated MACs, is the set of the values XORed an odd
number of times; MACs neither collide nor cancel by accident. `Combinator` has `Extend`,
which builds the MAC chain of a beacon, and `Combine` with the segment graph, the SegID
computation and the interface lists. `Router` has the fast path as the chain of early
returns of `process`: `inbound` are the checks of the hop field the packet arrives with and
the delivery, `outbound` those of the hop field it leaves with after `doXover`. Every return
gives the path as it is in the buffer at that moment, because an early return leaves the
mutations made so far to the slow path. `Forwarding` moves one packet, and the answer to it, through the routers. Routers keep
nothing between packets except their BFD sessions, which are part of the state, so the
steps of other packets change nothing for this one. Fast and slow path are different steps
since they are different goroutines; sessions change and time passes in between.

The topology and the beacons are parameters. `TopologyAssumption` (in `Combinator`) says that
links join two ASes and that both ends agree on the type of a link, `RouterAssumption` (in
`Router`) that a router belongs to one AS, and `BeaconAssumption` (in `Forwarding`) that a beacon
leaves each AS over an interface of the AS it came to, down segments over links to children and
core segments over core links: the filters `propagationFilter` and `originationFilter` that
`control/cmd/control/main.go` gives to the beaconing tasks. A beacon may
pass an AS twice, and nothing is assumed of the shape of the graph.

Left out: parsing and lengths, hop-by-hop options, FABRID and EPIC, the authenticator of
SCMP messages, MTU and static info metadata, the order of the paths, and the removal of
identical paths (`findAllIdentical` is true). Paths may have any length, although `DecodeFromBytes`
refuses more than 64 hops (`base.go:80`), and `IncPath` at the last hop field leaves the
path alone without the error of `base.go:92`, which no modelled packet meets.

### PacketPool

The goroutines of `Run` with their program counters: `Collect`, `ReadBatch` and `Enqueue`
are the three parts of `runReceiver`, `TakePacket` and `FinishPacket` a round of
`runProcessor`, `TakeSlowPacket` and `FinishSlowPacket` of `runSlowPathProcessor`,
`readUpTo` and `WriteBatch` of `runForwarder`. What happens to a packet is a free choice
among the outcomes of `Router`. Buffers are interchangeable, so the model counts them; a
message of a batch whose buffer was handed on is `"stale"`. A blocking send to the pool is
a guard. `OddAlerts` admits router alerts on packets other than traceroute requests.

### Services

The registry holds pointers to addresses, and a lookup gives the pointer away; therefore
addresses are objects and the lists hold their indices. `Any` runs under the lock,
`resolveLocalDst` reads and writes the port after it. `want` is the set of addresses added
and not deleted since. `DelSvc` is part of the interface of the data plane but has no
caller in the repository other than tests.

### BoundedQueue, RingBuf

`RingBuf` is the slice with its two indices and two counters. Everything a goroutine does
under the mutex is one step (`doWrite`, `doRead`); a goroutine that waits on a condition is
`"waiting"`, a broadcast makes it `"woken"`, and `Resume` is its next test of the loop
condition. `Write` and `Read` cover blocking and non-blocking calls with slices of every
length up to `MaxBatch`, `Close` the method. An index may rest at the end of the slice, as
in the code, until the next copy.

`BoundedQueue` is what the ring promises: a sequence of at most `Cap` entries, calls that
add a prefix of what they are given or take from the front, in the order of their effects,
and -1 after Close when nothing is left. The refinement mapping reads the queue out of the
entries from `readIndex` on; waiting and waking are stuttering.

### GatewayEgress, GatewayIngress, Gateway

The data plane of one session from the local to the remote gateway. A packet is a number
and its content cells of 20 bytes, the size of the smallest valid header, so that frames
contain pieces, ends and beginnings of packets in all combinations; `HeaderLen` gives the
smallest packet by IP version, and `Invalid` are the packets whose length field disagrees.
`GatewayEgress` has `Session` (`SessionWrite`, `SetPaths`, `SessionClose`) and the sender of
each path with its packet ring and encoder (`encode` is `encoder.Read`, `Skip` the packets it
drops, `SendFrame` the rest of `sender.run`). `GatewayIngress` has the pool of frame buffers,
`Dispatch` to the worker of the remote session, and the worker: `processFrame` with the
reassembly list (`Insert`, `tryReassemble`, `collectAndWrite`, `ProcessCompletePkts`) and the
two clean-ups (`Cleaned` for idle lists, `ServerCleanup` and `WorkerEnd` for idle workers).
`Gateway` puts the network between them: a frame may be lost, overtaken or duplicated.

The loops of the code are functions of the round: `writeComplete` is the loop over the packets
of a frame, `joined` what the list gives up to a buffer (the bytes `tryReassemble` counts and
`collectAndWrite` copies), `removeProcessed` the loop over the list. `GatewayAssumption` says
that frames are shorter than what the 16-bit index can point into, that packets are at least
as long as their header, and that pool, rings and lists have room for a frame, lists for two.

Left out: route lookup and the IP device, the addresses of frames (one remote session), the
metrics, and the end of the server when a source address is not one of SCION
(`ingressserver.go:96`), which its connection never returns. Stream IDs are fresh; the code takes
16 bits of the clock, which can repeat.

### Beaconing

The control services of several ASes. A task is a pair of its kind (originator, propagator,
writer of up, core or down segments) and its AS; `tick` and `last` are `Tick.last` and the
times of the last success that `ifstate.Interface` and `WriteScheduler` keep. Time is
relative: variables hold ages in ticks of the periodic runner (500 ms), which makes the
state space finite without a bound on the time. `Run` is a run of `Originator`, `Propagator`
or of the writer with `RemoteWriter`, from the choice of what is due to `UpdateLast`; the
calls that are answered at once are handled in the same step. Any of the others makes the
run last: it may be handled in time (`Arrive`), fail (`Lose`), or outlive the context of the
run (`Timeout`) and still be handled afterwards. `Write` is a run with `LocalWriter`, one
transaction. `InsertBeacon` and `Insert` are the update rules of the two databases: the later
info timestamp, and the later signature of the last AS. `Crash` takes the memory of a service
and leaves its databases; `Recover` is `StartTasks`. `calm` and `crashed` are history
variables of two properties.

`Tick` requires that every task that is not held up by a call has run: the ticker of the
runner. Links, like task kinds, are data of the instance. Left out: the choice among more
candidates than `BestSetSize` (20), block lists, ISD loops (allowed by default), the limit on
the hops of a beacon (`MaxHopsLength`, `policy.go:263`), the validation of AS entries and the
verification of signatures (`handler.go:82`), which succeed for what the model sends, and changes
of the topology. Ages are capped: two versions past their lifetime have the same age, where the
databases still tell the later one.

## 4. Runs

| Run | Instance | Result |
|---|---|---|
| `bfd_loss` | multipliers 2 and 1, intervals 2 and 3, default 4, two losses, one restart, one foreign end | `TypeOK`, `HandshakeGrounded`, `DownOnlyForCause` hold |
| `bfd_recovery` | multiplier 3, one end slower (6) than the default interval (4), one loss, one stop | `EventuallyUp`, `DeadPeerDetected` hold |
| `fwd_paths` | all paths between 7 ASes; data, service, each traceroute probe; services missing in two ASes | `TypeOK`, `PathsAreValid`, `StaysOnPath`, `AnswersRetrace`, `TracerouteNamesInterfaces`, `EventuallyAnswered` hold |
| `fwd_flaps` | data, traceroute and one-hop packets, three session changes with up to two sessions down at a time, hop fields of one AS expire | `PathsAreValid`, `StaysOnPath`, `AnswersRetrace`, `AnswersAreValid`, `TraceroutePinpoints` hold |
| `fwd_expired_hop` | data over expired hop fields | violates `AnswersAreValid` |
| `pool_shared` | two interfaces, two processors that share a slow-path processor, batches of 1 | `TypeOK`, `BuffersConserved`, `ReadsIntoOwnBuffers`, `PoolSuffices`, `KeepsReceiving` hold |
| `pool_odd_alert` | an alert on another packet | violates `BuffersConserved` |
| `svc_registry` | four possible addresses, two processors, four registrations | `TypeOK`, `RegistryMatches`, `StillResolvable` hold |
| `ring_queue` | three entries, two writers, one reader, batches up to 2, empty and full start | `TypeOK`, `NoLostWakeup`, `ImplementsQueue`, `CloseReleasesAll` hold |
| `gw_frames` | packets of 2, 4, 2 and 6 cells, one invalid, one IPv6; frames of 3 cells; two paths, one too narrow for some packets; three frame buffers, lists of 2, one worker | `TypeOK`, `WholePackets`, `ListsHoldBeginnings`, `DeliveredOnce`, `FramesAccounted`, `InOrderComplete`, `SendersKeepAll` hold |
| `gw_leak` | the same | violates `EndedWorkersHoldNothing` |
| `beacon_refresh` | one core AS with two links to A, B below A, a second core AS; period 2 ticks, lifetime 8, one fault of any kind | `TypeOK`, `NoLoops`, `NoLapse`, `SettlesInTime`, `NeverOlder` hold |

Bounds and why they are enough:

* BFD intervals are at least 2 ticks so that the jitter can shorten them; the default
  interval and timeout are larger than the configured ones, as 1 s is larger than the usual
  200 ms, except in `bfd_recovery`, where one end is slower. Two losses exceed a multiplier
  of 2; one restart gives two generations of discriminators, so old and new ones meet.
  `DownOnlyForCause` says "all but one of the multiplier's packets" because the first
  interval after a change of rate may take one packet's time. A multiplier of 1 leaves no
  slack at all, since the send timer restarted on leaving Down postpones a packet; recovery
  is therefore checked with the default multiplier 3.
* The 7 ASes have two core ASes, peering below them, two levels of customers and two ASes
  with two routers. The offered paths include up, core and down segments in all
  combinations, shortcuts, peering in the middle and at the end of a segment, and change
  of router at a cross-over, at a peering link and within a segment. Three session changes,
  two sessions down at a time, let a session fail and recover while one packet is under way,
  and let its answer meet another session that is down. Such an answer is lost: the egress
  check (`dataplane.go:1696`) finds it undeliverable and no SCMP error is sent about an SCMP
  error (`dataplane.go:1314`). `AnswersAreValid` therefore does not say that answers arrive,
  but that nothing except a session that is down or an expiry under way stops them.
* Two interfaces compete for the pool, the processors and the forwarders, so that each
  receiver meets queues that the other has filled (`KeepsReceiving`), and two processors
  share one slow-path queue. The pool has 12 buffers, so that all queues fill up. Reads and
  writes of a batch of one either do all or fail; the partial ones of larger batches are
  out of TLC's reach with two interfaces, and are covered by the theorems about the pool,
  which hold for every batch size.
* Four registrations let every address be added while others are deleted.
* Batches of up to 2 in a ring of 3 wrap around at every position, and two writers can wait
  while a reader takes less than both need.
* The longest packet spans three frames and the list holds two, so that lists overflow. A
  frame may hold the end of one packet and the start of the next. `MaxEvents` bounds new
  senders, duplicates and frames without a device together. One worker
  is started once, and may be stopped; what a second one does with frames of the same stream
  is beyond the bound, and part of the theorems of `GatewayProofs`, which hold for every
  number of workers.
* A period of 2 ticks is the shortest that tells the start of a period from what is overdue
  within it; a run may take as long, and a call is handled up to one tick after its sender
  has given up. One fault is a slow, late or lost call, a failed write or a crash of any of
  the four services at any time, of any length. `Lifetime` and `Settle` are the smallest
  values that hold: three hops cost three periods and the fault one more; the same instance
  with two faults (a crash counting for both) holds with 10 and 6. In the code a period is 5 s
  and the default lifetime 6 h, which leaves room for many more failures in a row.

Deadlock is checked in every run but those of the gateway, which ends when all packets are
through and the session is closed.

Fairness: `SpecLive` of `BFDSession` assumes that the loop of `Run` is scheduled, that a
delivered packet is handed over and that time passes; it does not assume that a stopped
router restarts. `SpecLive` of `Forwarding` assumes that router goroutines run; nothing is
assumed of hosts, sessions or the clock. `SpecLive` of `PacketPool` assumes that every
goroutine runs and that `ReadBatch` and `WriteBatch` return; the receive loop of an idle
interface blocks in the kernel, which the read of 0 packets stands for. `SpecLive` of
`RingBuf` assumes that a goroutine that was woken runs, and nothing of the callers.
`Beaconing` states recovery as a bound in ticks (`SettlesInTime`) and needs no fairness.

## 5. Disagreements with the documentation

* `fwd_expired_hop`: on a segment used against construction direction, checks that fail
  before `updateNonConsDirIngressSegID` produce an SCMP error with a wrong SegID, which the
  next router drops. The source never hears of its expired path.
* `pool_odd_alert`: a router alert on a packet other than a traceroute request puts a nil
  slice in the place of a buffer and the buffer is lost.
* `gw_leak`: a worker that is stopped because its session was idle ends with the frame
  buffers of its reassembly lists, which never return to the pool of 1024; the reader blocks
  when the pool is empty.

Observations without a run of their own:

* The documentation of `Session` says that sessions never send AdminDown; a session that
  receives it enters the state, stays there and sends it.
* A session taken from Up to Down by a packet of its peer keeps its fast transmission
  interval (only the detection timer restores the default one), and a peer that restarts
  within the detection time leaves its old discriminator in the session, which goes on
  naming it; neither keeps the sessions from coming up.
* A lookup that replaces the port changes the registered service address, which can then not
  be deleted, and is added a second time if it is registered again. `RegistryMatches` leaves
  such addresses out, `StillResolvable` says only that they are not lost; `DelSvc` has no
  caller.
* A duplicate of a frame that arrives when its list is empty is delivered a second time, and
  a frame for which no device can be had is dropped without returning its buffer
  (`ingressserver.go:142`).
* `control/tasks.go:202` says of the registration that "during one interval we'll make as
  many attempts as we can until we succeed". A run that fails at the start of an interval
  moves `Tick.last` on, and is repeated only once the last success is more than an interval
  ago; after a success late in an interval there is no second attempt for most of the next
  one. Overdue work is still done in time, which `SettlesInTime` and `NoLapse` rest on.
* One beacon or registration that gets through marks the interface or the writer as done;
  those that failed beside it wait for the next period. Conversely, an interface whose
  neighbour refuses everything is tried again every tick.
* `CandidateBeacons` passes the time to a query that does not use it: expired beacons are
  propagated and registered until the cleaner runs.
* `SelectBeacons` with `BestSetSize` 1 and more than one candidate reads `result[0]` of an
  empty slice.
* `updateSeg` writes the info timestamp as a time, `insertFull` as nanoseconds.

## 6. Proofs

`BFDSessionProofs` proves `TypeCorrect` and `HandshakeCorrect` for all intervals,
multipliers, queue sizes, numbers of losses and restarts, from `NodesAssumption` (two
nodes) and `ParametersAssumption` (what `validateParameters` demands). `HandshakeGrounded`
is not inductive: what a session stores comes from the queue, what is in the queue comes
from the link, and what is on the link was copied from the session at the other end. `Inv`
adds that a running session has a discriminator, that the remembered one is one the peer has
used, that a session in Init or Up remembers one, and that every packet on the link and in
the queues is acceptable and names discriminators that were used (`GoodMessage`). The key
step is `ProcessMessage`: a session leaves Down only on a packet, whose discriminator it
stores in the same step, and `DetectionTimerFires`, which forgets it, always ends in Down or
AdminDown (`TransitionFacts`). A restart only increases discriminators, which keeps packets
of the old session good (`GoodMessageMonotone`).

`ProofBasics` has what several proofs share. The library's induction theorems are about
every predicate and can not be applied here, so induction is stated for sets: a set of
natural numbers that holds 0 and every successor of an element holds them all
(`SetInduction`, from the least element `SmallestOfNat`). Applied to the set of the sizes for
which a statement about finite sets holds it gives the sums: what an update at one place, a
bound on every term, fewer terms and a split of the terms do to the sum of a function.

`PacketPoolProofs` proves four theorems for every finite set of interfaces, every number of
processors and slow-path processors and every batch size (`PoolAssumption`).

* `PoolTypeCorrect` and `ReceiverOwnsBatch`. `ReadsIntoOwnBuffers` speaks of one moment of
  the receive loop; `Ownership` says at every point of the loop which messages of the batch
  hold a buffer: the messages up to the index that were refilled and the last `numReusable`
  ones while collecting, all while reading, and all from the index on while enqueuing
  (`BatchOwned`). After a failed read `numReusable` may be larger than the batch; the
  invariant shows that the whole batch is then still owned. `RingBounded` is needed for the
  types of what a forwarder returns to the pool.
* `PoolConserved`: no buffer is lost or counted twice, unless alerts on packets other than
  traceroute requests arrive, in which case `pool_odd_alert` shows that one is. The sum alone
  is not inductive. A receiver that refills a message must not overwrite a buffer, so
  `Refilling` says exactly which messages are stale while it collects, not only which are
  owned; and what leaves a queue must be a buffer, which follows from the sum itself, since it
  leaves no room for a nil. Each action moves one buffer between two terms of the sum
  (`AtInterfacesStep`, `QueuedStep`), which the lemmas about counting in sequences and about
  sums turn into the equation.
* `PoolLargeEnough`: the size that `Run` computes covers every place where a buffer can be
  while one receiver still lacks one. It follows from conservation, the bounds of the queues
  (`QueuesBounded`) and the message that is stale in the batch of that receiver.

`ServicesProofs` proves `TypeOK`, `RegistryMatches` and `StillResolvable` for every set of
services and addresses and every number of processors. The first part of
`StillResolvable` is `Backed`: an address that was added and not deleted is in the list, as it
was added or with the port a lookup gave it. `RegistryMatches` is restricted to ports that lookups leave alone; it is kept by
`DelSvc` because its swap moves the last entry to the place of the deleted one.
`ServicesAssumption` demands that no service is configured with port 30041: otherwise an
address that a lookup rewrote could be taken for one that was added, and be deleted for it.

`RingBufProofs` proves, for every capacity, batch size and number of readers and writers
(`RingAssumption`), the types with what ties counters, indices and entries together
(`RingTypeOK`), the refinement of `BoundedQueue` (`RingImplementsQueue`) and `NoLostWakeup`.
Under the mapping the queue is the sequence of `readable` entries from `readIndex` on, modulo
the length of the slice. The work is in the two copies of a call that wraps around: the
entries written are those the call was given, at the places that the mapping appends, and no
other place changes. `NoLostWakeup` is inductive together with the types, because a broadcast
wakes all who wait and a call waits only under the mutex in which it found nothing.

`BeaconingProofs` proves `TypeOK`, `NoLoops` and `NeverOlder` for every topology in which a
link joins two different ASes (`TopologyAssumption`; a link of an AS with itself is not refused
by the topology loader, but is not a topology that SCION describes), and all times and bounds
(`BoundsAssumption`). `NoLoops` rests on the calls under way as well as on the databases: a
beacon is sent only to an AS that is not in it, and arrives at the end of the link it was sent
over. `NeverOlder` is the deep one: the path database keeps the segment whose last signature
is later, and says nothing of the info timestamp. `OrderInv` says that of two versions of a
segment, in two calls or in a call and the database it goes to, the one with the later
signature has no earlier info timestamp; and, so that this stays true of what is signed next,
that no version is younger than the beacon it was made of (`Floor`), which the rule of the
beacon database only ever replaces by a younger one.

`GatewayProofs` proves `TypeOK`, `FramesAccounted`, `WholePackets`, `ListsHoldBeginnings`,
`DeliveredOnce` and the action property `SendersKeepAll` for every sequence of packets and frame
size, any number of buffers, paths, senders and workers and every bound (`GatewayAssumption`).

* Neither `WholePackets` nor `ListsHoldBeginnings` is inductive, nor can an invariant over the variables alone be easily
  given: whether two frames may be put together depends on the frames that were sent between
  them, and nothing keeps these once they are lost. `GatewayInv` therefore says that there is a
  history, the frames each sender has sent so far, such that consecutive frames continue each
  other (`Flow`), the sender goes on where its last frame ends (`GoodSender`), and every frame
  on its way, in a ring or in a list is the one of the history with its number (`GoodFrame`,
  `GoodBuf`). A step that sends a frame extends the history (`FlowGrows`, `StateMonotone`), all
  others leave it alone.
* The cells of a sender form a chain: behind each cell comes the next of its packet, behind the
  last one the start of another (`Follows`, `Chain`). Where a packet starts in a chain, its
  cells follow as far as the chain goes (`ChainInside`), so that a chain that is long enough
  holds the whole packet (`ChainPacket`).
* Encoder: `EncodeFacts` follows the loop of `encoder.Read` and gives the chain, what remains
  of the last packet and the index. Receiver: `WriteCompleteFacts` says that the loop over a
  frame writes out whole packets and stops at the end or where a packet starts that does not
  end in it; `JoinedChain` that what a list holds is a chain from the start of a packet on;
  `CollectFacts` and `TryFacts` that `tryReassemble` writes the whole packet, keeps at most
  the last frame, and releases the rest.
* A list that is not empty begins with the start of a packet, all further frames have no start,
  and their bytes are fewer than the packet (`GoodList`). This is what `ListsHoldBeginnings`
  shows; it also excludes the framing error (`NoFramingError`), since the encoder starts a
  packet only where another has ended.
* `SendersKeepAll`: `EncodeFacts` gives the cells of one frame and what the encoder keeps; what
  was in the ring before and is not in the ring now is in one of the two. Since the numbers of a
  sender's frames only grow, the new frame in the network is the one this step has sent.
* `DeliveredOnce`: a packet is delivered when the frame with its last cell is processed, never
  because of a later one (`Brought`, a part of what `InsertFacts` and `DoneFacts` say). So it is
  enough to count: `Copies` are the times a packet was delivered, the frames with its last cell
  that wait in rings, and one if such a frame is in the network. `OnceInv` says that there are at
  most `1 + dups` copies and none of a packet whose end is still with a sender (`Counted`), that
  no cell is with two senders or twice with one (`Apart`), nor twice in a frame, and that a packet
  ends in at most one frame in the network (`NoRepeats`). Writing a packet makes no copy, sending
  the frame makes the first (`FrameOnce`), reading a frame moves it into a ring or drops it, and
  makes one more only when the network keeps the frame, which `dups` counts (`ReceiveOnce`);
  processing turns it into at most one delivery (`ProcessOnce`). `OnceInv` quantifies over all
  cells, so that the runs check only what follows from it.
* Buffers: every operation of a list says how many buffers it released (`GoodResult`), and
  `HeldUpdate`, `CleanedFacts` and `TotalFacts` carry that into the sums over lists and workers.

Loops are recursive functions; that such a definition has a solution and what it is after each
round is shown once (`LoopExists`, `LoopInduction`), with `SetInduction`.

`ForwardingProofs` proves `TypeOK`, `PathsAreValid` and `StaysOnPath` of `Forwarding` for every
topology, every set of beacons, every set of ASes with services, all expiry times and any number
of session changes (`TopologyAssumption`, `RouterAssumption`, `BeaconAssumption`, `BoundsAssumption`). This is the
statement the data plane rests on: what the control plane builds, the routers accept.

* The properties speak of one packet at one router; nothing in the state says why the next
  router will accept it. The invariant `IInv` says it with a *walk*: the ASes, interfaces, MACs
  and accumulators of all hops of a path, the segment each hop belongs to and its position in the
  list of interfaces (`Walk`). Consecutive hops are two ends of a link, or a change of segment
  within an AS that the table of `validateEgressID` allows, and their accumulators follow from
  each other (`Chained`). A packet that is no answer is at hop k of such a walk from the source to
  the destination (`Onto`): CurrHF is k - 1, the SegIDs are those the walk gives for hop k
  (`SegIDs`), it is at the router of the interface of hop k, and what it has crossed is the list
  up to that position. One-hop paths have an invariant of their own (`OneHop`) until the reply,
  which is an ordinary walk back. SCMP answers only have to stay readable (`Header`).
* Walks of paths. `SentEntries` follows a beacon from AS to AS and gives the chain of MACs.
  `UpWalkIs` cuts a segment at a shortcut or a peering and makes a walk of it; `TurnWalk` turns a
  walk round, which serves down segments and replies alike. `EdgesFit` and `JoinWalk` put the
  walks of consecutive edges together, at a cross-over or over a peering link. `PathMore` and
  `LaidLonger` show that the path built from the edges carries the walk, with the SegIDs of
  `calculateBeta`, and `filterLongPaths` that it passes neither end in between (`Filtered`,
  `JourneyTrip`). `PathsReady` is the sum of it.
* Steps. A router that has a packet at hop k passes every check but those for expiry, sessions,
  services and alerts, and the packet it sends is at hop k + 1 or, within the AS, at the router of
  the egress interface (`FastTravels`, from `Onward`). The receiver's reversed path is at the
  first hop of the walk back (`TurnAt`, `TurnTrip`).
* `IInv` quantifies over all walks, so that TLC can not evaluate it; the runs check the three
  properties that follow from it. The recursions (`BetaAfter`, `Beacon`) are recursive functions,
  whose solutions are shown to exist with `SetInduction`.

Only model-checked:

* all liveness properties (`EventuallyUp`, `DeadPeerDetected`, `EventuallyAnswered`,
  `KeepsReceiving`, `CloseReleasesAll`), which the prover can not reason about;
* of forwarding, what is said of SCMP answers and traceroutes: `AnswersRetrace`,
  `AnswersAreValid`, `TracerouteNamesInterfaces` and `TraceroutePinpoints`. They need the walk
  back from every point of a walk at which a check can fail, before and after each update of the
  path, and the order of the probes;
* `DownOnlyForCause`, `NoLapse` and `SettlesInTime`, arguments about the timing of several
  packets or calls in one instance: they depend on the multiplier and the number of losses, or on
  the lifetime, and do not hold for all of them;
* of the gateway, `InOrderComplete`, which compares the sequence of what is delivered with the
  sequence of all that was received and needs an induction over both.

## 7. Not modelled

See `components` in `PROJECT.json` for each part and the reason. Cryptography, parsing,
system calls, databases, gRPC transport and command line tools are out of scope; the parts
of the plan numbered 8 to 10 are not modelled yet. Of beaconing, the selection among more
beacons than the best set holds and configuration changes are left out, of the segments the
lookup. The RBOM generator is a sequential script.
