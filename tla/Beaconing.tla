----------------------------- MODULE Beaconing -----------------------------
(***************************************************************************)
(* How the control services of a network keep path segments alive: core    *)
(* ASes originate beacons, ASes propagate the ones they have stored, and   *)
(* the segment writers register them, at home (up and core segments) or    *)
(* over the network at the first AS of the segment (down segments).        *)
(*                                                                         *)
(* Every task is a periodic runner that wakes up each tick, does its work  *)
(* at the start of a period, and in between only what is overdue since its *)
(* last success.  Its remote calls run in parallel; the run lasts until    *)
(* all are answered or its context ends, one period after the start.  A    *)
(* call whose sender has given up may still be handled.  The databases     *)
(* survive a crash, the ticks and the times of the last success do not.    *)
(*                                                                         *)
(* Time is relative: the state holds how many ticks ago something was,     *)
(* capped where the code cannot tell the difference any more.  A beacon is *)
(* the sequence of links it has crossed and the age of its info timestamp. *)
(***************************************************************************)
EXTENDS Naturals, Sequences, FiniteSets

CONSTANTS
  Links,       \* directed links, parent to child, and core links both ways
  From, To,    \* [Links -> AS]
  CoreLinks,   \* the links between core ASes
  Tasks,       \* <<kind, AS>>: the periodic tasks of each control service
  Period,      \* origination, propagation and registration interval, in ticks
  Lifetime,    \* age at which every hop field of a segment has expired
  MaxDelay,    \* a call is handled within this many ticks or never
  MaxHops,     \* longest path considered for coverage
  MaxFaults,   \* bound: calls not answered at once, failed writes, crashes
  Settle       \* ticks without faults within which all paths are registered

ASes == {From[l] : l \in Links} \cup {To[l] : l \in Links}
CoreASes == {From[l] : l \in CoreLinks} \cup {t[2] : t \in {u \in Tasks : u[1] = "originate"}}
Idle == Period + 1

Kind(t) == t[1]
Owner(t) == t[2]
Local(t) == Kind(t) \in {"up", "core"}

ASSUME TopologyAssumption ==
  /\ IsFiniteSet(Links) /\ CoreLinks \subseteq Links
  /\ From \in [Links -> ASes] /\ To \in [Links -> ASes] /\ \A l \in Links : From[l] # To[l]
  /\ Tasks \subseteq {"originate", "propagate", "up", "core", "down"} \X ASes
ASSUME BoundsAssumption ==
  /\ {Period, Lifetime, MaxDelay, MaxHops, Settle} \subseteq Nat \ {0}
  /\ MaxFaults \in Nat

VARIABLES
  tick,     \* [task -> ticks since Tick.last, at most Period]
  last,     \* [task -> [output -> ticks since its last success, at most Period + 1]]
  run,      \* [task -> ticks since the run in progress began, or Idle]
  ran,      \* tasks that have run since time last advanced
  beacons,  \* [AS -> [path -> age of the info timestamp]], the beacon database
  segs,     \* [AS -> [path -> [info, sig]]], the path database
  calls,    \* calls that were not answered at once
  up,       \* ASes whose control service runs
  crashed,  \* ASes whose control service has crashed at some time
  faults,   \* number of faults so far
  calm      \* ticks since the last fault or its last effect, at most Settle

vars == <<tick, last, run, ran, beacons, segs, calls, up, crashed, faults, calm>>

(***************************************************************************)
(* Due work.                                                               *)
(***************************************************************************)

\* What a task keeps a time of success for: an interface, or the registry.
Outputs == [t \in Tasks |->
  CASE Kind(t) = "originate" -> {l \in Links : From[l] = Owner(t)}
    [] Kind(t) = "propagate" -> {l \in Links : /\ From[l] = Owner(t)
                                               /\ l \in CoreLinks <=> Owner(t) \in CoreASes}
    [] OTHER -> {"registry"}]

Passed(t) == tick[t] >= Period

\* Mutant: nothing is overdue, a failure waits for the next period.
OverdueNever(t, o) == FALSE

Overdue(t, o) == last[t][o] > Period

\* At the start of a period everything is due, in between what is overdue.
Due(t) == {o \in Outputs[t] : Passed(t) \/ Overdue(t, o)}

(***************************************************************************)
(* Beacons to send, and what a receiver does with them.                    *)
(***************************************************************************)

\* The ASes that have added an entry to a beacon: not the one that stores it.
Hops(p) == [i \in DOMAIN p |-> From[p[i]]]

HasLoop(hops) == \E i, j \in DOMAIN hops : i < j /\ hops[i] = hops[j]

\* Mutant: the propagator leaves loops to the receiver's filter.
ShouldIgnoreOwnLoop(p, l) == HasLoop(Hops(p))

ShouldIgnore(p, l) == HasLoop(Append(Hops(p), To[l]))

\* Policies may filter more; their loop filter sees the same hops.
PreFilter(p) == ~HasLoop(Hops(p))

\* The paths a task sends over output o, each with the age of its beacon.
Selected(t, o) ==
  LET stored == beacons[Owner(t)] IN
  CASE Kind(t) = "originate" -> {[path |-> <<o>>, info |-> 0]}
    [] Kind(t) = "propagate" -> {[path |-> Append(p, o), info |-> stored[p]] :
                                    p \in {q \in DOMAIN stored : ~ShouldIgnore(q, o)}}
    [] OTHER -> {[path |-> p, info |-> stored[p]] : p \in DOMAIN stored}

\* The calls of a run: sent is the age of the sender's signature, open says that
\* the sender still waits for the answer.
Batch(t) ==
  UNION {{[task |-> t, out |-> o, path |-> b.path, info |-> b.info, sent |-> 0, open |-> TRUE] :
             b \in Selected(t, o)} : o \in Due(t)}

IsBeacon(c) == Kind(c.task) # "down"

Receiver(c) == IF IsBeacon(c) THEN To[c.out] ELSE From[Head(c.path)]

\* Beacons come from the neighbour over the link they name, signed by it: what
\* validateASEntry and the verification look at always holds here.
Accepts(c) == Receiver(c) \in up /\ (IsBeacon(c) => PreFilter(c.path))

\* Rows are identified by the path; the newer ones replace a row that exists.
Merge(db, new, newer) ==
  [p \in DOMAIN db \cup DOMAIN new |-> IF p \in newer \/ p \notin DOMAIN db THEN new[p] ELSE db[p]]

Known(db, new) == DOMAIN db \cap DOMAIN new

\* Mutant: the row that comes last wins.
InsertBeaconAlways(db, new) == Merge(db, new, Known(db, new))

\* The beacon database keeps the beacon with the later info timestamp.
InsertBeacon(db, new) == Merge(db, new, {p \in Known(db, new) : new[p] < db[p]})

\* Mutant: a segment that is known is not written again.
InsertOnce(db, new) == Merge(db, new, {})

\* The path database keeps the segment with the later signature of its last AS.
Insert(db, new) == Merge(db, new, {p \in Known(db, new) : new[p].sig < db[p].sig})

\* The receivers handle the calls of one run, which are all beacons or all
\* registrations, no two with the same receiver and path.
Handle(set) ==
  LET At(a) == {c \in set : Receiver(c) = a}
      Rows(a, Row(_)) == [p \in {c.path : c \in At(a)} |-> Row(CHOOSE c \in At(a) : c.path = p)]
      info(c) == c.info
      meta(c) == [info |-> c.info, sig |-> c.sent]
      Gets(a, beacon) == \E c \in At(a) : IsBeacon(c) = beacon
  IN
  /\ beacons' = [a \in ASes |-> IF Gets(a, TRUE) THEN InsertBeacon(beacons[a], Rows(a, info))
                                                ELSE beacons[a]]
  /\ segs' = [a \in ASes |-> IF Gets(a, FALSE) THEN Insert(segs[a], Rows(a, meta)) ELSE segs[a]]

(***************************************************************************)
(* Runs.                                                                   *)
(***************************************************************************)

\* The tick is private to the task and only read when a run begins, so that it
\* may be updated with the run's first step.
UpdateLast(t) == tick' = [tick EXCEPT ![t] = IF Passed(t) THEN 0 ELSE @]

Begin(t) ==
  /\ Owner(t) \in up /\ run[t] = Idle /\ t \notin ran
  /\ ran' = ran \cup {t}
  /\ UpdateLast(t)

\* One success on an output is enough for all that was sent on it.
Succeeded(t, done, age) ==
  last' = [last EXCEPT ![t] = [o \in DOMAIN @ |->
             IF \E c \in done : c.task = t /\ c.out = o THEN age ELSE @[o]]]

\* Originator, propagator and remote writer.  The calls that are not slow are
\* handled, or refused, before the run goes on.
Run(t) ==
  /\ ~Local(t)
  /\ Begin(t)
  /\ LET batch == Batch(t) IN \E slow \in SUBSET batch :
       LET done == {c \in batch \ slow : Accepts(c)} IN
       /\ faults + Cardinality(slow) <= MaxFaults
       /\ faults' = faults + Cardinality(slow)
       /\ calm' = IF slow = {} THEN calm ELSE 0
       /\ Handle(done)
       /\ Succeeded(t, done, 0)
       /\ calls' = calls \cup slow
       /\ run' = [run EXCEPT ![t] = IF slow = {} THEN Idle ELSE 0]
  /\ UNCHANGED <<up, crashed>>

\* Local writer: all segments in one transaction, or none.
Write(t) ==
  /\ Local(t)
  /\ Begin(t)
  /\ LET a == Owner(t)
         new == [p \in {b.path : b \in UNION {Selected(t, o) : o \in Due(t)}} |->
                   [info |-> beacons[a][p], sig |-> 0]]
     IN
     \/ /\ segs' = [segs EXCEPT ![a] = Insert(@, new)]
        /\ last' = IF segs' = segs THEN last ELSE [last EXCEPT ![t]["registry"] = 0]
        /\ UNCHANGED <<faults, calm>>
     \/ /\ DOMAIN new # {} /\ faults < MaxFaults
        /\ faults' = faults + 1 /\ calm' = 0
        /\ UNCHANGED <<segs, last>>
  /\ UNCHANGED <<run, beacons, calls, up, crashed>>

\* The run of task t ends when none of the calls left is open.
End(t, left) ==
  run' = [run EXCEPT ![t] = IF \E c \in left : c.task = t /\ c.open THEN @ ELSE Idle]

\* A call is handled after all; the sender only hears of it while it waits.
Arrive(c) ==
  /\ Accepts(c)
  /\ Handle({c})
  /\ calls' = calls \ {c}
  /\ Succeeded(c.task, {d \in {c} : d.open}, run[c.task])
  /\ End(c.task, calls')
  /\ UNCHANGED <<tick, ran, up, crashed, faults, calm>>

\* A call fails, or one the sender has forgotten is lost.
Lose(c) ==
  /\ calls' = calls \ {c}
  /\ End(c.task, calls')
  /\ UNCHANGED <<tick, last, ran, beacons, segs, up, crashed, faults, calm>>

\* Mutant: the run ends but goes on counting on its calls.
ForgetNothing(S) == calls

\* The sender's context ends with calls outstanding.
Forget(S) == {[c EXCEPT !.open = c.open /\ c \notin S] : c \in calls}

Timeout(t) ==
  /\ run[t] = Period
  /\ run' = [run EXCEPT ![t] = Idle]
  /\ calls' = Forget({c \in calls : c.task = t})
  /\ UNCHANGED <<tick, last, ran, beacons, segs, up, crashed, faults, calm>>

(***************************************************************************)
(* Cleaners, crashes and time.                                             *)
(***************************************************************************)

Keep(db, S) == [p \in S |-> db[p]]

DeleteExpiredBeacons(a) ==
  /\ a \in up /\ \E p \in DOMAIN beacons[a] : beacons[a][p] > Lifetime
  /\ beacons' = [beacons EXCEPT ![a] = Keep(@, {p \in DOMAIN @ : @[p] <= Lifetime})]
  /\ UNCHANGED <<tick, last, run, ran, segs, calls, up, crashed, faults, calm>>

DeleteExpired(a) ==
  /\ a \in up /\ \E p \in DOMAIN segs[a] : segs[a][p].info > Lifetime
  /\ segs' = [segs EXCEPT ![a] = Keep(@, {p \in DOMAIN @ : @[p].info <= Lifetime})]
  /\ UNCHANGED <<tick, last, run, ran, beacons, calls, up, crashed, faults, calm>>

Never(t) == [o \in Outputs[t] |-> Period + 1]

Crash(a) ==
  /\ a \in up /\ faults < MaxFaults
  /\ faults' = faults + 1 /\ calm' = 0
  /\ up' = up \ {a} /\ crashed' = crashed \cup {a}
  /\ tick' = [t \in Tasks |-> IF Owner(t) = a THEN Period ELSE tick[t]]
  /\ last' = [t \in Tasks |-> IF Owner(t) = a THEN Never(t) ELSE last[t]]
  /\ run' = [t \in Tasks |-> IF Owner(t) = a THEN Idle ELSE run[t]]
  /\ calls' = Forget({c \in calls : Owner(c.task) = a})
  /\ ran' = {t \in ran : Owner(t) # a}
  /\ UNCHANGED <<beacons, segs>>

Recover(a) ==
  /\ a \in ASes \ up
  /\ up' = up \cup {a}
  /\ UNCHANGED <<tick, last, run, ran, beacons, segs, calls, crashed, faults, calm>>

\* Ages count up to a cap from which on they make no difference.  Two versions whose
\* info timestamps are both past the lifetime have the same age, where the code can
\* still tell which one is later and keeps that one.
Older(age, cap) == IF age < cap THEN age + 1 ELSE cap

\* One tick of time, within which every task that is not held up has run.
Tick ==
  /\ \A t \in Tasks : \/ t \in ran
                      \/ Owner(t) \notin up
                      \/ run[t] < Period
  /\ \A c \in calls : c.sent < MaxDelay
  /\ ran' = {}
  /\ tick' = [t \in Tasks |-> Older(tick[t], Period)]
  /\ last' = [t \in Tasks |-> [o \in Outputs[t] |-> Older(last[t][o], Period + 1)]]
  /\ run' = [t \in Tasks |-> IF run[t] = Idle THEN Idle ELSE run[t] + 1]
  /\ beacons' = [a \in ASes |-> [p \in DOMAIN beacons[a] |-> Older(beacons[a][p], Lifetime + 1)]]
  /\ segs' = [a \in ASes |-> [p \in DOMAIN segs[a] |->
                [info |-> Older(segs[a][p].info, Lifetime + 1),
                 sig |-> Older(segs[a][p].sig, MaxDelay + 1)]]]
  /\ calls' = {[c EXCEPT !.info = Older(@, Lifetime + 1), !.sent = @ + 1] : c \in calls}
  /\ calm' = IF calls = {} /\ up = ASes THEN Older(calm, Settle) ELSE 0
  /\ UNCHANGED <<up, crashed, faults>>

Init ==
  /\ tick = [t \in Tasks |-> Period]
  /\ last = [t \in Tasks |-> Never(t)]
  /\ run = [t \in Tasks |-> Idle]
  /\ ran = {}
  /\ beacons = [a \in ASes |-> <<>>]
  /\ segs = [a \in ASes |-> <<>>]
  /\ calls = {}
  /\ up = ASes
  /\ crashed = {}
  /\ faults = 0
  /\ calm = 0

Next ==
  \/ \E t \in Tasks : Run(t) \/ Write(t) \/ Timeout(t)
  \/ \E c \in calls : Arrive(c) \/ Lose(c)
  \/ \E a \in ASes : DeleteExpiredBeacons(a) \/ DeleteExpired(a) \/ Crash(a) \/ Recover(a)
  \/ Tick

Spec == Init /\ [][Next]_vars


(***************************************************************************)
(* Properties.                                                             *)
(***************************************************************************)

Age == 0 .. Lifetime + 1

\* Every entry of both databases and every call under way has the shape and the
\* bounds its handler gives it, and a task is in a run exactly while one of its
\* calls is open: no run of originateBeacons, Propagate or RemoteWriter.Write
\* waits for nothing, and none ends before its wait group is done.
TypeOK ==
  /\ tick \in [Tasks -> 0 .. Period] /\ run \in [Tasks -> 0 .. Idle] /\ ran \subseteq Tasks
  /\ \A t \in Tasks : last[t] \in [Outputs[t] -> 0 .. Period + 1]
  /\ \A a \in ASes : /\ \A p \in DOMAIN beacons[a] : p \in Seq(Links) /\ beacons[a][p] \in Age
                    /\ \A p \in DOMAIN segs[a] : /\ p \in Seq(Links)
                                                 /\ segs[a][p].info \in Age
                                                 /\ segs[a][p].sig \in 0 .. MaxDelay + 1
  /\ \A c \in calls : c.info \in Age /\ c.sent \in 0 .. MaxDelay
  /\ crashed \subseteq ASes /\ ASes \ up \subseteq crashed /\ faults \in 0 .. MaxFaults /\ calm \in 0 .. Settle
  /\ \A t \in Tasks : run[t] # Idle <=> \E c \in calls : c.task = t /\ c.open

\* No AS ever stores a beacon that has already been through it, although the
\* filter on reception looks at the entries of a beacon only, and the AS itself
\* is not among them: shouldIgnore at the neighbour is what prevents it.
NoLoops ==
  \A a \in ASes : \A p \in DOMAIN beacons[a] \cup DOMAIN segs[a] :
    ~HasLoop(Append(Hops(p), To[p[Len(p)]]))

\* While time stands still, neither database replaces a beacon or a segment by
\* one with an earlier info timestamp, whatever calls arrive late or out of
\* order; the path database only compares the signatures of the last AS.
NeverOlder ==
  [][Tick \/ \A a \in ASes :
       /\ \A p \in DOMAIN beacons[a] \cap DOMAIN beacons'[a] : beacons'[a][p] <= beacons[a][p]
       /\ \A p \in DOMAIN segs[a] \cap DOMAIN segs'[a] : segs'[a][p].info <= segs[a][p].info]_vars

ThroughCrashed(p) == \E i \in DOMAIN p : {From[p[i]], To[p[i]]} \cap crashed # {}

\* A registered segment does not expire while the control services along it have
\* stayed up, though calls fail, hang and time out on the way: the retries of
\* what is overdue catch up before the lifetime ends.
NoLapse ==
  \A a \in ASes : \A p \in DOMAIN segs[a] : segs[a][p].info > Lifetime => ThroughCrashed(p)

\* The paths that beacons can take from an originator to the AS of a writer.
Reachable ==
  [a \in ASes |-> {p \in UNION {[1 .. n -> Links] : n \in 1 .. MaxHops} :
     /\ To[p[Len(p)]] = a
     /\ ~HasLoop(Append(Hops(p), a))
     /\ \A i \in 2 .. Len(p) : To[p[i - 1]] = From[p[i]]
     /\ \A i \in 1 .. Len(p) : LET t == <<IF i = 1 THEN "originate" ELSE "propagate", From[p[i]]>>
                              IN t \in Tasks /\ p[i] \in Outputs[t]}]

Registry(t, p) == IF Local(t) THEN Owner(t) ELSE From[p[1]]

Covered ==
  \A t \in Tasks : Kind(t) \in {"up", "core", "down"} =>
    \A p \in Reachable[Owner(t)] :
      LET a == Registry(t, p) IN p \in DOMAIN segs[a] /\ segs[a][p].info <= Lifetime

\* From the start, and again after faults and crashes, it takes at most Settle
\* ticks until every writer's segments over every path beacons can take are
\* registered, and they stay so: what a neighbour missed is sent again as soon as
\* it is overdue, and not only at the start of the next period.
SettlesInTime == calm = Settle => Covered

=============================================================================
