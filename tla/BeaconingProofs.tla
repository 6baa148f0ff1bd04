-------------------------- MODULE BeaconingProofs --------------------------
(***************************************************************************)
(* Type correctness of Beaconing, that beacons and segments have no loops,  *)
(* and that no database goes back to an earlier version, for every finite   *)
(* topology, every set of tasks and every number of faults.                 *)
(***************************************************************************)
EXTENDS Beaconing, FiniteSetTheorems, SequenceTheorems, TLAPS

\* The AS at the end of a path.
Tip(p) == To[p[Len(p)]]

\* A beacon has passed at least one link.
Path == Seq(Links) \ {<<>>}

\* No AS occurs twice on a beacon, the one that receives it included.
LoopFree(p) == ~HasLoop(Append(Hops(p), Tip(p)))

\* What a call carries.
CallType ==
  [task : Tasks, out : Links \cup {"registry"}, path : Path,
   info : Age, sent : 0 .. MaxDelay, open : BOOLEAN]

\* A task is in a run exactly while one of its calls is open.
Running(t) == \E c \in calls : c.task = t /\ c.open

\* Ages and timers stay within what a tick can make of them.
TimeInv ==
  /\ tick \in [Tasks -> 0 .. Period] /\ run \in [Tasks -> 0 .. Idle] /\ ran \subseteq Tasks
  /\ DOMAIN last = Tasks /\ \A t \in Tasks : last[t] \in [Outputs[t] -> 0 .. Period + 1]
  /\ crashed \subseteq ASes /\ ASes \ up \subseteq crashed
  /\ faults \in 0 .. MaxFaults /\ calm \in 0 .. Settle

\* A run began in this tick or before it, and no crashed service is in one.
RunInv ==
  \A t \in Tasks : /\ run[t] # Idle <=> Running(t)
                   /\ t \in ran => run[t] \in {0, Idle}
                   /\ Owner(t) \notin up => run[t] = Idle

\* Beacons are stored where they end, and only where they have not been before.
BeaconInv ==
  /\ DOMAIN beacons = ASes
  /\ \A a \in ASes :
       /\ IsFiniteSet(DOMAIN beacons[a])
       /\ \A p \in DOMAIN beacons[a] : /\ p \in Path /\ beacons[a][p] \in Age
                                       /\ Tip(p) = a /\ LoopFree(p)

\* A stored segment is a path without a loop, with its two times in range.
SegInv ==
  /\ DOMAIN segs = ASes
  /\ \A a \in ASes : \A p \in DOMAIN segs[a] :
       p \in Path /\ segs[a][p] \in [info : Age, sig : 0 .. MaxDelay + 1] /\ LoopFree(p)

\* Beacons are sent to the AS they end at; no call is one of a local writer.
GoodCall(c) ==
  /\ c \in CallType /\ ~Local(c.task) /\ LoopFree(c.path)
  /\ IsBeacon(c) => c.out \in Links /\ Tip(c.path) = To[c.out]

\* Every call under way carries something that may be received.
CallInv == \A c \in calls : GoodCall(c)

\* The inductive invariant behind type correctness and the absence of loops.
BInv == TimeInv /\ RunInv /\ BeaconInv /\ SegInv /\ CallInv

\* The age of the beacon a segment with path p was or can be made of.
Floor(p) ==
  IF p \in DOMAIN beacons[Tip(p)] THEN beacons[Tip(p)][p] ELSE Lifetime + 1

\* No segment, stored or on its way, is newer than the beacon it was made of, and
\* versions with a later signature have a later or the same info timestamp.
OrderInv ==
  /\ \A a \in ASes : \A p \in DOMAIN segs[a] : segs[a][p].info >= Floor(p)
  /\ \A c \in calls : ~IsBeacon(c) => c.info >= Floor(c.path)
  /\ \A c, d \in calls :
       ~IsBeacon(c) /\ ~IsBeacon(d) /\ c.path = d.path /\ c.sent < d.sent => c.info <= d.info
  /\ \A c \in calls : \A a \in ASes :
       ~IsBeacon(c) /\ c.path \in DOMAIN segs[a] /\ Receiver(c) = a =>
         /\ c.sent < segs[a][c.path].sig => c.info <= segs[a][c.path].info
         /\ segs[a][c.path].sig < c.sent => segs[a][c.path].info <= c.info

---------------------------------------------------------------------------
(* Constants.                                                               *)

\* The bounds of the model are natural numbers.
LEMMA Bounds ==
  /\ Period \in Nat /\ Period > 0 /\ Lifetime \in Nat /\ Lifetime > 0
  /\ MaxDelay \in Nat /\ MaxDelay > 0 /\ Settle \in Nat /\ Settle > 0 /\ MaxFaults \in Nat
  /\ Idle = Period + 1 /\ Idle # 0
BY BoundsAssumption DEF Idle

\* A task belongs to an AS, and what it sends over are links of that AS.
LEMMA OutputFacts ==
  ASSUME NEW t \in Tasks
  PROVE  /\ Owner(t) \in ASes
         /\ Kind(t) \in {"originate", "propagate"} =>
              \A o \in Outputs[t] : o \in Links /\ From[o] = Owner(t)
         /\ Kind(t) \in {"up", "core", "down"} => Outputs[t] = {"registry"}
         /\ Kind(t) \in {"originate", "propagate", "up", "core", "down"}
         /\ IsFiniteSet(Outputs[t])
<1>1. t \in {"originate", "propagate", "up", "core", "down"} \X ASes
  BY TopologyAssumption
<1>2. /\ Owner(t) \in ASes
      /\ Kind(t) \in {"originate", "propagate", "up", "core", "down"}
  BY <1>1 DEF Owner, Kind
<1>3. /\ Kind(t) = "originate" => Outputs[t] = {l \in Links : From[l] = Owner(t)}
      /\ Kind(t) = "propagate" =>
           Outputs[t] = {l \in Links : From[l] = Owner(t) /\ (l \in CoreLinks <=> Owner(t) \in CoreASes)}
      /\ Kind(t) \notin {"originate", "propagate"} => Outputs[t] = {"registry"}
  BY DEF Outputs
<1>4. Kind(t) \in {"originate", "propagate"} =>
              \A o \in Outputs[t] : o \in Links /\ From[o] = Owner(t)
  BY <1>3
<1>5. Kind(t) \in {"up", "core", "down"} => Outputs[t] = {"registry"}
  BY <1>3
<1>6. IsFiniteSet(Outputs[t])
  <2>1. CASE Kind(t) \in {"originate", "propagate"}
    <3>1. Outputs[t] \subseteq Links
      BY <1>4, <2>1
    <3> QED
      BY <3>1, TopologyAssumption, FS_Subset
  <2>2. CASE Kind(t) \in {"up", "core", "down"}
    BY <1>5, <2>2, FS_Singleton
  <2> QED
    BY <1>2, <2>1, <2>2
<1> QED
  BY <1>2, <1>4, <1>5, <1>6

\* A link joins two different ASes of the topology.
LEMMA LinkFacts ==
  ASSUME NEW l \in Links
  PROVE  From[l] \in ASes /\ To[l] \in ASes /\ From[l] # To[l]
BY TopologyAssumption

---------------------------------------------------------------------------
(* Loops.                                                                   *)

\* The hops of a path extended by a link.
LEMMA HopsOfAppend ==
  ASSUME NEW p \in Seq(Links), NEW l \in Links
  PROVE  /\ Hops(p) \in Seq(ASes) /\ Len(Hops(p)) = Len(p)
         /\ Hops(Append(p, l)) = Append(Hops(p), From[l])
<1>1. DOMAIN p = 1 .. Len(p) /\ Len(p) \in Nat /\ \A i \in 1 .. Len(p) : p[i] \in Links
  OBVIOUS
<1>2. Hops(p) = [i \in 1 .. Len(p) |-> From[p[i]]]
  BY <1>1 DEF Hops
<1>3. Hops(p) \in [1 .. Len(p) -> ASes]
  BY <1>1, <1>2, LinkFacts
<1>4. Hops(p) \in Seq(ASes) /\ Len(Hops(p)) = Len(p)
  BY <1>1, <1>3
<1>5. /\ Append(p, l) \in Seq(Links) /\ Len(Append(p, l)) = Len(p) + 1
      /\ \A i \in 1 .. Len(p) : Append(p, l)[i] = p[i]
      /\ Append(p, l)[Len(p) + 1] = l
  BY AppendProperties
<1>6. Hops(Append(p, l)) = [i \in 1 .. Len(p) + 1 |-> From[Append(p, l)[i]]]
  BY <1>5 DEF Hops
<1>7. /\ Append(Hops(p), From[l]) \in Seq(ASes)
      /\ Len(Append(Hops(p), From[l])) = Len(p) + 1
      /\ \A i \in 1 .. Len(p) : Append(Hops(p), From[l])[i] = From[p[i]]
      /\ Append(Hops(p), From[l])[Len(p) + 1] = From[l]
  BY <1>2, <1>4, LinkFacts, AppendProperties
<1>8. Hops(Append(p, l)) \in Seq(ASes) /\ Len(Hops(Append(p, l))) = Len(p) + 1
  <2>1. \A i \in 1 .. Len(p) + 1 : Append(p, l)[i] \in Links
    BY <1>5
  <2>2. Hops(Append(p, l)) \in [1 .. Len(p) + 1 -> ASes]
    BY <1>6, <2>1, LinkFacts
  <2> QED
    BY <1>1, <2>2
<1>9. \A i \in 1 .. Len(p) + 1 : Hops(Append(p, l))[i] = Append(Hops(p), From[l])[i]
  BY <1>1, <1>5, <1>6, <1>7
<1> QED
  BY <1>4, <1>7, <1>8, <1>9, SeqEqual

\* Appending a hop makes a loop exactly when the hop is there already.
LEMMA LoopOfAppend ==
  ASSUME NEW h \in Seq(ASes), NEW a \in ASes
  PROVE  HasLoop(Append(h, a)) <=> HasLoop(h) \/ \E i \in 1 .. Len(h) : h[i] = a
<1>1. DOMAIN h = 1 .. Len(h) /\ Len(h) \in Nat
  OBVIOUS
<1>2. /\ DOMAIN Append(h, a) = 1 .. Len(h) + 1
      /\ \A i \in 1 .. Len(h) : Append(h, a)[i] = h[i]
      /\ Append(h, a)[Len(h) + 1] = a
  BY AppendProperties
<1>3. ASSUME NEW i \in 1 .. Len(h) + 1, NEW j \in 1 .. Len(h) + 1,
             i < j, Append(h, a)[i] = Append(h, a)[j]
      PROVE  HasLoop(h) \/ \E k \in 1 .. Len(h) : h[k] = a
  <2>1. i \in 1 .. Len(h) /\ (j \in 1 .. Len(h) \/ j = Len(h) + 1)
    BY <1>1, <1>3
  <2> QED
    BY <1>1, <1>2, <1>3, <2>1 DEF HasLoop
<1>4. ASSUME NEW i \in 1 .. Len(h), NEW j \in 1 .. Len(h), i < j, h[i] = h[j]
      PROVE  HasLoop(Append(h, a))
  BY <1>1, <1>2, <1>4 DEF HasLoop
<1>5. ASSUME NEW i \in 1 .. Len(h), h[i] = a
      PROVE  HasLoop(Append(h, a))
  <2>1. i \in 1 .. Len(h) + 1 /\ Len(h) + 1 \in 1 .. Len(h) + 1 /\ i < Len(h) + 1
    BY <1>1
  <2> QED
    BY <1>2, <1>5, <2>1 DEF HasLoop
<1> QED
  BY <1>1, <1>2, <1>3, <1>4, <1>5 DEF HasLoop

\* A beacon of one entry.
LEMMA OriginatedIsLoopFree ==
  ASSUME NEW l \in Links
  PROVE  <<l>> \in Path /\ Tip(<<l>>) = To[l] /\ LoopFree(<<l>>)
<1>1. <<l>> \in Seq(Links) /\ <<l>> # <<>> /\ Len(<<l>>) = 1 /\ <<l>>[1] = l
  OBVIOUS
<1>2. Tip(<<l>>) = To[l]
  BY <1>1 DEF Tip
<1>3. Hops(<<l>>) \in Seq(ASes) /\ Len(Hops(<<l>>)) = 1 /\ Hops(<<l>>)[1] = From[l]
  <2>1. Hops(<<l>>) = [i \in 1 .. 1 |-> From[<<l>>[i]]]
    BY <1>1 DEF Hops
  <2>2. Hops(<<l>>)[1] = From[l]
    BY <1>1, <2>1
  <2> QED
    BY <1>1, <2>2, HopsOfAppend
<1>4. ~HasLoop(Hops(<<l>>))
  BY <1>3 DEF HasLoop
<1> QED
  BY <1>1, <1>2, <1>3, <1>4, LinkFacts, LoopOfAppend DEF Path, LoopFree

\* What propagation sends over a link that shouldIgnore does not exclude: the
\* beacon ends at the sender, the receiver is not in it, and they differ.
LEMMA PropagatedIsLoopFree ==
  ASSUME NEW p \in Path, NEW l \in Links,
         LoopFree(p), Tip(p) = From[l], ~ShouldIgnore(p, l)
  PROVE  Append(p, l) \in Path /\ Tip(Append(p, l)) = To[l] /\ LoopFree(Append(p, l))
<1>1. p \in Seq(Links)
  BY DEF Path
<1>2. /\ Append(p, l) \in Seq(Links) /\ Append(p, l) # <<>>
      /\ Append(p, l)[Len(Append(p, l))] = l
  BY <1>1, AppendProperties
<1>3. Tip(Append(p, l)) = To[l]
  BY <1>2 DEF Tip
<1>4. /\ Hops(p) \in Seq(ASes) /\ Hops(Append(p, l)) = Append(Hops(p), From[l])
      /\ Hops(Append(p, l)) \in Seq(ASes)
  BY <1>1, <1>2, HopsOfAppend
<1>5. ~HasLoop(Append(Hops(p), From[l])) /\ ~HasLoop(Append(Hops(p), To[l]))
  BY DEF LoopFree, ShouldIgnore
<1>6. \A i \in 1 .. Len(Hops(p)) : Hops(p)[i] # To[l]
  BY <1>4, <1>5, LinkFacts, LoopOfAppend
<1>7. \A i \in 1 .. Len(Append(Hops(p), From[l])) : Append(Hops(p), From[l])[i] # To[l]
  BY <1>4, <1>6, LinkFacts, AppendProperties
<1>8. ~HasLoop(Append(Append(Hops(p), From[l]), To[l]))
  <2>1. Append(Hops(p), From[l]) \in Seq(ASes) /\ To[l] \in ASes
    BY <1>4, LinkFacts
  <2> QED
    BY <1>5, <1>7, <2>1, LoopOfAppend
<1> QED
  BY <1>2, <1>3, <1>4, <1>8 DEF Path, LoopFree

---------------------------------------------------------------------------
(* Databases.                                                               *)

\* A row of the beacon database is the one it was, or a new one that is not older.
LEMMA InsertBeaconFacts ==
  ASSUME NEW db, NEW new
  PROVE  /\ DOMAIN InsertBeacon(db, new) = DOMAIN db \cup DOMAIN new
         /\ \A p \in DOMAIN db \cup DOMAIN new :
              \/ p \in DOMAIN db /\ InsertBeacon(db, new)[p] = db[p]
              \/ /\ p \in DOMAIN new /\ InsertBeacon(db, new)[p] = new[p]
                 /\ p \in DOMAIN db => new[p] < db[p]
<1> DEFINE newer == {p \in DOMAIN db \cap DOMAIN new : new[p] < db[p]}
<1>1. InsertBeacon(db, new) = [p \in DOMAIN db \cup DOMAIN new |->
                         IF p \in newer \/ p \notin DOMAIN db THEN new[p] ELSE db[p]]
  BY DEF InsertBeacon, Merge, Known
<1>2. DOMAIN InsertBeacon(db, new) = DOMAIN db \cup DOMAIN new
  BY <1>1
<1>3. ASSUME NEW p \in DOMAIN db \cup DOMAIN new
      PROVE  \/ p \in DOMAIN db /\ InsertBeacon(db, new)[p] = db[p]
             \/ /\ p \in DOMAIN new /\ InsertBeacon(db, new)[p] = new[p]
                /\ p \in DOMAIN db => new[p] < db[p]
  BY <1>1
<1> QED
  BY <1>2, <1>3

\* The same for segments, by the signature.
LEMMA InsertFacts ==
  ASSUME NEW db, NEW new
  PROVE  /\ DOMAIN Insert(db, new) = DOMAIN db \cup DOMAIN new
         /\ \A p \in DOMAIN db \cup DOMAIN new :
              \/ p \in DOMAIN db /\ Insert(db, new)[p] = db[p]
              \/ /\ p \in DOMAIN new /\ Insert(db, new)[p] = new[p]
                 /\ p \in DOMAIN db => new[p].sig < db[p].sig
<1> DEFINE newer == {p \in DOMAIN db \cap DOMAIN new : new[p].sig < db[p].sig}
<1>1. Insert(db, new) = [p \in DOMAIN db \cup DOMAIN new |->
                         IF p \in newer \/ p \notin DOMAIN db THEN new[p] ELSE db[p]]
  BY DEF Insert, Merge, Known
<1>2. DOMAIN Insert(db, new) = DOMAIN db \cup DOMAIN new
  BY <1>1
<1>3. ASSUME NEW p \in DOMAIN db \cup DOMAIN new
      PROVE  \/ p \in DOMAIN db /\ Insert(db, new)[p] = db[p]
             \/ /\ p \in DOMAIN new /\ Insert(db, new)[p] = new[p]
                /\ p \in DOMAIN db => new[p].sig < db[p].sig
  BY <1>1
<1> QED
  BY <1>2, <1>3

\* What the calls in set, all beacons or all registrations, do to the beacons.
BeaconsAfter(set) ==
  /\ DOMAIN beacons' = ASes
  /\ \A a \in ASes :
       /\ DOMAIN beacons'[a] = DOMAIN beacons[a] \cup {c.path : c \in {d \in set : IsBeacon(d) /\ Receiver(d) = a}}
       /\ \A p \in DOMAIN beacons'[a] :
            \/ p \in DOMAIN beacons[a] /\ beacons'[a][p] = beacons[a][p]
            \/ \E c \in set : /\ IsBeacon(c) /\ Receiver(c) = a /\ c.path = p
                              /\ beacons'[a][p] = c.info
                              /\ p \in DOMAIN beacons[a] => c.info < beacons[a][p]

\* ... and to the segments.
SegsAfter(set) ==
  /\ DOMAIN segs' = ASes
  /\ \A a \in ASes :
       /\ DOMAIN segs[a] \subseteq DOMAIN segs'[a]
       /\ \A p \in DOMAIN segs'[a] :
            \/ p \in DOMAIN segs[a] /\ segs'[a][p] = segs[a][p]
            \/ \E c \in set : /\ ~IsBeacon(c) /\ Receiver(c) = a /\ c.path = p
                              /\ segs'[a][p] = [info |-> c.info, sig |-> c.sent]
                              /\ p \in DOMAIN segs[a] => c.sent < segs[a][p].sig

\* The databases after Handle, in the form the update rules are used in.
LEMMA HandleFacts ==
  ASSUME NEW set, Handle(set), \A c, d \in set : IsBeacon(c) <=> IsBeacon(d)
  PROVE  BeaconsAfter(set) /\ SegsAfter(set)
<1> DEFINE At(a) == {c \in set : Receiver(c) = a}
           infos(a) == [p \in {c.path : c \in At(a)} |-> (CHOOSE c \in At(a) : c.path = p).info]
           metas(a) == [p \in {c.path : c \in At(a)} |->
                          [info |-> (CHOOSE c \in At(a) : c.path = p).info,
                           sig |-> (CHOOSE c \in At(a) : c.path = p).sent]]
<1>1. beacons' = [a \in ASes |-> IF \E c \in At(a) : IsBeacon(c) = TRUE
                                THEN InsertBeacon(beacons[a], infos(a)) ELSE beacons[a]]
  BY DEF Handle
<1>2. segs' = [a \in ASes |-> IF \E c \in At(a) : IsBeacon(c) = FALSE
                             THEN Insert(segs[a], metas(a)) ELSE segs[a]]
  BY DEF Handle
<1>3. ASSUME NEW a \in ASes
      PROVE  /\ DOMAIN infos(a) = {c.path : c \in At(a)}
             /\ DOMAIN metas(a) = {c.path : c \in At(a)}
             /\ \A p \in DOMAIN infos(a) : \E c \in At(a) :
                  /\ c.path = p /\ infos(a)[p] = c.info
                  /\ metas(a)[p] = [info |-> c.info, sig |-> c.sent]
  <2>1. ASSUME NEW p \in {c.path : c \in At(a)}
        PROVE  LET c == CHOOSE c \in At(a) : c.path = p IN c \in At(a) /\ c.path = p
    BY <2>1
  <2> QED
    BY <2>1
<1>4. \A c \in set : IsBeacon(c) \in BOOLEAN
  BY DEF IsBeacon
<1> HIDE DEF infos, metas
<1>5. BeaconsAfter(set)
  <2>1. DOMAIN beacons' = ASes
    BY <1>1
  <2>2. ASSUME NEW a \in ASes
        PROVE  /\ DOMAIN beacons'[a] = DOMAIN beacons[a] \cup {c.path : c \in {d \in set : IsBeacon(d) /\ Receiver(d) = a}}
               /\ \A p \in DOMAIN beacons'[a] :
                    \/ p \in DOMAIN beacons[a] /\ beacons'[a][p] = beacons[a][p]
                    \/ \E c \in set : /\ IsBeacon(c) /\ Receiver(c) = a /\ c.path = p
                                      /\ beacons'[a][p] = c.info
                                      /\ p \in DOMAIN beacons[a] => c.info < beacons[a][p]
    <3>1. CASE \E c \in At(a) : IsBeacon(c)
      <4>1. \A c \in set : IsBeacon(c)
        BY <3>1
      <4>2. beacons'[a] = InsertBeacon(beacons[a], infos(a))
        BY <1>1, <1>4, <3>1
      <4>3. {d \in set : IsBeacon(d) /\ Receiver(d) = a} = At(a)
        BY <4>1
      <4>4. DOMAIN beacons'[a] = DOMAIN beacons[a] \cup {c.path : c \in At(a)}
        <5>1. DOMAIN InsertBeacon(beacons[a], infos(a)) = DOMAIN beacons[a] \cup DOMAIN infos(a)
          BY InsertBeaconFacts
        <5> QED
          BY <1>3, <4>2, <5>1
      <4>5. ASSUME NEW p \in DOMAIN beacons'[a]
            PROVE  \/ p \in DOMAIN beacons[a] /\ beacons'[a][p] = beacons[a][p]
                   \/ \E c \in At(a) : /\ c.path = p /\ beacons'[a][p] = c.info
                                       /\ p \in DOMAIN beacons[a] => c.info < beacons[a][p]
        <5>1. p \in DOMAIN beacons[a] \cup DOMAIN infos(a)
          BY <1>3, <4>4
        <5>2. \/ p \in DOMAIN beacons[a] /\ InsertBeacon(beacons[a], infos(a))[p] = beacons[a][p]
              \/ /\ p \in DOMAIN infos(a) /\ InsertBeacon(beacons[a], infos(a))[p] = infos(a)[p]
                 /\ p \in DOMAIN beacons[a] => infos(a)[p] < beacons[a][p]
          BY <5>1, InsertBeaconFacts
        <5>3. CASE p \in DOMAIN infos(a) /\ InsertBeacon(beacons[a], infos(a))[p] = infos(a)[p]
                   /\ (p \in DOMAIN beacons[a] => infos(a)[p] < beacons[a][p])
          <6>1. PICK c \in At(a) : c.path = p /\ infos(a)[p] = c.info
            BY <1>3, <5>3
          <6> QED
            BY <4>2, <5>3, <6>1
        <5> QED
          BY <4>2, <5>2, <5>3
      <4> QED
        BY <4>1, <4>3, <4>4, <4>5
    <3>2. CASE ~ \E c \in At(a) : IsBeacon(c)
      <4>1. beacons'[a] = beacons[a]
        BY <1>1, <1>4, <3>2
      <4>2. {d \in set : IsBeacon(d) /\ Receiver(d) = a} = {}
        BY <3>2
      <4> QED
        BY <4>1, <4>2
    <3> QED
      BY <3>1, <3>2
  <2> QED
    BY <2>1, <2>2 DEF BeaconsAfter
<1>6. SegsAfter(set)
  <2>1. DOMAIN segs' = ASes
    BY <1>2
  <2>2. ASSUME NEW a \in ASes
        PROVE  /\ DOMAIN segs[a] \subseteq DOMAIN segs'[a]
               /\ \A p \in DOMAIN segs'[a] :
                    \/ p \in DOMAIN segs[a] /\ segs'[a][p] = segs[a][p]
                    \/ \E c \in set : /\ ~IsBeacon(c) /\ Receiver(c) = a /\ c.path = p
                                      /\ segs'[a][p] = [info |-> c.info, sig |-> c.sent]
                                      /\ p \in DOMAIN segs[a] => c.sent < segs[a][p].sig
    <3>1. CASE \E c \in At(a) : ~IsBeacon(c)
      <4>1. \A c \in set : ~IsBeacon(c)
        BY <3>1
      <4>2. segs'[a] = Insert(segs[a], metas(a))
        BY <1>2, <1>4, <3>1
      <4>a. DOMAIN segs'[a] = DOMAIN segs[a] \cup DOMAIN metas(a)
        <5>1. DOMAIN Insert(segs[a], metas(a)) = DOMAIN segs[a] \cup DOMAIN metas(a)
          BY InsertFacts
        <5> QED
          BY <4>2, <5>1
      <4>3. DOMAIN segs[a] \subseteq DOMAIN segs'[a]
        BY <4>a
      <4>4. ASSUME NEW p \in DOMAIN segs'[a]
            PROVE  \/ p \in DOMAIN segs[a] /\ segs'[a][p] = segs[a][p]
                   \/ \E c \in At(a) : /\ c.path = p
                                       /\ segs'[a][p] = [info |-> c.info, sig |-> c.sent]
                                       /\ p \in DOMAIN segs[a] => c.sent < segs[a][p].sig
        <5>1. p \in DOMAIN segs[a] \cup DOMAIN metas(a)
          BY <4>a
        <5>2. \/ p \in DOMAIN segs[a] /\ Insert(segs[a], metas(a))[p] = segs[a][p]
              \/ /\ p \in DOMAIN metas(a) /\ Insert(segs[a], metas(a))[p] = metas(a)[p]
                 /\ p \in DOMAIN segs[a] => metas(a)[p].sig < segs[a][p].sig
          BY <5>1, InsertFacts
        <5>3. CASE p \in DOMAIN metas(a) /\ Insert(segs[a], metas(a))[p] = metas(a)[p]
                   /\ (p \in DOMAIN segs[a] => metas(a)[p].sig < segs[a][p].sig)
          <6>0. p \in DOMAIN infos(a)
            BY <1>3, <5>3
          <6>1. PICK c \in At(a) : c.path = p /\ metas(a)[p] = [info |-> c.info, sig |-> c.sent]
            BY <1>3, <6>0
          <6> QED
            BY <4>2, <5>3, <6>1
        <5> QED
          BY <4>2, <5>2, <5>3
      <4> QED
        BY <4>1, <4>3, <4>4
    <3>2. CASE ~ \E c \in At(a) : ~IsBeacon(c)
      <4>1. segs'[a] = segs[a]
        BY <1>2, <1>4, <3>2
      <4> QED
        BY <4>1
    <3> QED
      BY <3>1, <3>2
  <2> QED
    BY <2>1, <2>2 DEF SegsAfter
<1> QED
  BY <1>5, <1>6

---------------------------------------------------------------------------
(* The calls of a run.                                                      *)

\* The image of a finite set is finite.
LEMMA ImageIsFinite ==
  ASSUME NEW S, IsFiniteSet(S), NEW f, DOMAIN f = S
  PROVE  IsFiniteSet({f[x] : x \in S})
<1> DEFINE T == {f[x] : x \in S}
           g == [x \in S |-> f[x]]
<1>1. g \in Surjection(S, T)
  BY DEF Surjection
<1> QED
  BY <1>1, FS_Surjection

\* What a task sends over one output: beacons that have not been at the receiver
\* and end there, or the beacons stored at its own AS.
LEMMA SelectedFacts ==
  ASSUME BeaconInv, NEW t \in Tasks, NEW o \in Outputs[t]
  PROVE  /\ IsFiniteSet(Selected(t, o))
         /\ \A b \in Selected(t, o) : b.path \in Path /\ b.info \in Age /\ LoopFree(b.path)
         /\ Kind(t) \in {"originate", "propagate"} =>
              \A b \in Selected(t, o) : Tip(b.path) = To[o]
         /\ Kind(t) \in {"up", "core", "down"} =>
              \A b \in Selected(t, o) : /\ b.path \in DOMAIN beacons[Owner(t)]
                                        /\ b.info = beacons[Owner(t)][b.path]
<1> DEFINE stored == beacons[Owner(t)]
<1>1. /\ Owner(t) \in ASes /\ IsFiniteSet(DOMAIN stored)
      /\ \A p \in DOMAIN stored : /\ p \in Path /\ stored[p] \in Age
                                  /\ Tip(p) = Owner(t) /\ LoopFree(p)
  BY OutputFacts DEF BeaconInv
<1>2. CASE Kind(t) = "originate"
  <2>1. Selected(t, o) = {[path |-> <<o>>, info |-> 0]}
    BY <1>2 DEF Selected
  <2>2. IsFiniteSet(Selected(t, o))
    BY <2>1, FS_Singleton
  <2>3. o \in Links /\ 0 \in Age
    BY <1>2, OutputFacts, Bounds DEF Age
  <2>4. <<o>> \in Path /\ Tip(<<o>>) = To[o] /\ LoopFree(<<o>>)
    BY <2>3, OriginatedIsLoopFree
  <2>5. \A b \in Selected(t, o) : b.path = <<o>> /\ b.info = 0
    BY <2>1
  <2> QED
    BY <1>2, <2>2, <2>3, <2>4, <2>5
<1>3. CASE Kind(t) = "propagate"
  <2> DEFINE sent == {q \in DOMAIN stored : ~ShouldIgnore(q, o)}
             f == [p \in sent |-> [path |-> Append(p, o), info |-> stored[p]]]
  <2>1. Selected(t, o) = {f[p] : p \in sent}
    BY <1>3 DEF Selected
  <2>2. IsFiniteSet(Selected(t, o))
    <3>1. IsFiniteSet(sent) /\ DOMAIN f = sent
      BY <1>1, FS_Subset
    <3> HIDE DEF f, sent
    <3> QED
      BY <2>1, <3>1, ImageIsFinite
  <2>3. o \in Links /\ From[o] = Owner(t)
    BY <1>3, OutputFacts
  <2>4. ASSUME NEW b \in Selected(t, o)
        PROVE  b.path \in Path /\ b.info \in Age /\ LoopFree(b.path) /\ Tip(b.path) = To[o]
    <3>1. PICK p \in sent : b = [path |-> Append(p, o), info |-> stored[p]]
      BY <2>1
    <3>2. /\ p \in Path /\ stored[p] \in Age /\ LoopFree(p) /\ Tip(p) = From[o]
          /\ ~ShouldIgnore(p, o)
      BY <1>1, <2>3
    <3>3. Append(p, o) \in Path /\ Tip(Append(p, o)) = To[o] /\ LoopFree(Append(p, o))
      BY <2>3, <3>2, PropagatedIsLoopFree
    <3> QED
      BY <3>1, <3>2, <3>3
  <2> QED
    BY <1>3, <2>2, <2>4
<1>4. CASE Kind(t) \in {"up", "core", "down"}
  <2> DEFINE f == [p \in DOMAIN stored |-> [path |-> p, info |-> stored[p]]]
  <2>1. Selected(t, o) = {f[p] : p \in DOMAIN stored}
    BY <1>4 DEF Selected
  <2>2. IsFiniteSet(Selected(t, o))
    <3>1. DOMAIN f = DOMAIN stored
      OBVIOUS
    <3> HIDE DEF f
    <3> QED
      BY <1>1, <2>1, <3>1, ImageIsFinite
  <2>3. ASSUME NEW b \in Selected(t, o) PROVE b.path \in DOMAIN stored /\ b.info = stored[b.path]
    <3>1. PICK p \in DOMAIN stored : b = [path |-> p, info |-> stored[p]]
      BY <2>1
    <3> QED
      BY <3>1
  <2> QED
    BY <1>1, <1>4, <2>2, <2>3
<1> QED
  BY <1>2, <1>3, <1>4, OutputFacts

\* The calls of a run: finitely many, all of this task, just signed and open.
LEMMA BatchFacts ==
  ASSUME BeaconInv, NEW t \in Tasks, ~Local(t)
  PROVE  /\ IsFiniteSet(Batch(t))
         /\ \A c \in Batch(t) :
              /\ c \in CallType /\ c.task = t /\ c.sent = 0 /\ c.open = TRUE /\ LoopFree(c.path)
              /\ IsBeacon(c) => c.out \in Links /\ Tip(c.path) = To[c.out]
              /\ ~IsBeacon(c) => /\ c.path \in DOMAIN beacons[Owner(t)]
                                 /\ c.info = beacons[Owner(t)][c.path]
<1> DEFINE Rec(o, b) == [task |-> t, out |-> o, path |-> b.path, info |-> b.info,
                         sent |-> 0, open |-> TRUE]
           Calls(o) == {Rec(o, b) : b \in Selected(t, o)}
<1>1. Batch(t) = UNION {Calls(o) : o \in Due(t)}
  BY DEF Batch
<1>2. Due(t) \subseteq Outputs[t]
  BY DEF Due
<1>3. ASSUME NEW o \in Outputs[t] PROVE IsFiniteSet(Calls(o))
  <2> DEFINE f == [b \in Selected(t, o) |-> Rec(o, b)]
  <2>1. Calls(o) = {f[b] : b \in Selected(t, o)} /\ DOMAIN f = Selected(t, o)
    OBVIOUS
  <2>2. IsFiniteSet(Selected(t, o))
    BY SelectedFacts
  <2> HIDE DEF f, Calls
  <2> QED
    BY <2>1, <2>2, ImageIsFinite
<1>4. IsFiniteSet(Batch(t))
  <2> DEFINE g == [o \in Due(t) |-> Calls(o)]
             All == {g[o] : o \in Due(t)}
  <2>1. IsFiniteSet(Due(t)) /\ DOMAIN g = Due(t)
    BY <1>2, OutputFacts, FS_Subset
  <2>2. Batch(t) = UNION All /\ \A T \in All : IsFiniteSet(T)
    BY <1>1, <1>2, <1>3
  <2>3. IsFiniteSet(All)
    <3> HIDE DEF g
    <3> QED
      BY <2>1, ImageIsFinite
  <2> HIDE DEF All
  <2> QED
    BY <2>2, <2>3, FS_UNION
<1>5. ASSUME NEW c \in Batch(t)
      PROVE  /\ c \in CallType /\ c.task = t /\ c.sent = 0 /\ c.open = TRUE /\ LoopFree(c.path)
             /\ IsBeacon(c) => c.out \in Links /\ Tip(c.path) = To[c.out]
             /\ ~IsBeacon(c) => /\ c.path \in DOMAIN beacons[Owner(t)]
                                /\ c.info = beacons[Owner(t)][c.path]
  <2>0. PICK o \in Outputs[t] : c \in Calls(o)
    BY <1>1, <1>2
  <2>1. PICK b \in Selected(t, o) : c = Rec(o, b)
    BY <2>0
  <2>2. b.path \in Path /\ b.info \in Age /\ LoopFree(b.path)
    BY SelectedFacts
  <2>3. /\ c.task = t /\ c.out = o /\ c.path = b.path /\ c.info = b.info
        /\ c.sent = 0 /\ c.open = TRUE
    BY <2>1
  <2>4. o \in Links \cup {"registry"} /\ 0 \in 0 .. MaxDelay
    BY OutputFacts, Bounds
  <2>5. c \in CallType
    BY <2>1, <2>2, <2>4 DEF CallType
  <2>6. Kind(t) \in {"originate", "propagate", "down"}
    BY OutputFacts DEF Local
  <2>7. IsBeacon(c) => c.out \in Links /\ Tip(c.path) = To[c.out]
    BY <2>3, <2>6, OutputFacts, SelectedFacts DEF IsBeacon
  <2>8. ~IsBeacon(c) => /\ c.path \in DOMAIN beacons[Owner(t)]
                        /\ c.info = beacons[Owner(t)][c.path]
    BY <2>3, <2>6, SelectedFacts DEF IsBeacon
  <2> QED
    BY <2>2, <2>3, <2>5, <2>7, <2>8
<1> QED
  BY <1>4, <1>5

---------------------------------------------------------------------------
(* The inductive invariant, part by part.                                   *)

\* Handling calls keeps both databases well formed and free of loops.
LEMMA HandleKeepsDatabases ==
  ASSUME BeaconInv, SegInv, NEW set, IsFiniteSet(set), \A c \in set : GoodCall(c),
         BeaconsAfter(set), SegsAfter(set)
  PROVE  BeaconInv' /\ SegInv'
<1>1. ASSUME NEW a \in ASes PROVE IsFiniteSet(DOMAIN beacons'[a])
  <2> DEFINE S == {d \in set : IsBeacon(d) /\ Receiver(d) = a}
             f == [c \in S |-> c.path]
             T == {f[c] : c \in S}
  <2>1. IsFiniteSet(S) /\ DOMAIN f = S /\ {c.path : c \in S} = T
    BY FS_Subset
  <2>2. DOMAIN beacons'[a] = DOMAIN beacons[a] \cup T
    BY <2>1 DEF BeaconsAfter
  <2>3. IsFiniteSet(T)
    <3> HIDE DEF f, S
    <3> QED
      BY <2>1, ImageIsFinite
  <2>4. IsFiniteSet(DOMAIN beacons[a])
    BY DEF BeaconInv
  <2> HIDE DEF T
  <2> QED
    BY <2>2, <2>3, <2>4, FS_Union
<1>2. ASSUME NEW a \in ASes, NEW p \in DOMAIN beacons'[a]
      PROVE  p \in Path /\ beacons'[a][p] \in Age /\ Tip(p) = a /\ LoopFree(p)
  <2>1. CASE p \in DOMAIN beacons[a] /\ beacons'[a][p] = beacons[a][p]
    BY <2>1 DEF BeaconInv
  <2>2. ASSUME NEW c \in set, IsBeacon(c), Receiver(c) = a, c.path = p, beacons'[a][p] = c.info
        PROVE  p \in Path /\ beacons'[a][p] \in Age /\ Tip(p) = a /\ LoopFree(p)
    BY <2>2 DEF GoodCall, CallType, Receiver
  <2> QED
    BY <2>1, <2>2 DEF BeaconsAfter
<1>3. BeaconInv'
  BY <1>1, <1>2 DEF BeaconInv, BeaconsAfter
<1>4. ASSUME NEW a \in ASes, NEW p \in DOMAIN segs'[a]
      PROVE  p \in Path /\ segs'[a][p] \in [info : Age, sig : 0 .. MaxDelay + 1] /\ LoopFree(p)
  <2>1. CASE p \in DOMAIN segs[a] /\ segs'[a][p] = segs[a][p]
    BY <2>1 DEF SegInv
  <2>2. ASSUME NEW c \in set, c.path = p, segs'[a][p] = [info |-> c.info, sig |-> c.sent]
        PROVE  p \in Path /\ segs'[a][p] \in [info : Age, sig : 0 .. MaxDelay + 1] /\ LoopFree(p)
    <3>1. c.info \in Age /\ c.sent \in 0 .. MaxDelay /\ p \in Path /\ LoopFree(p)
      BY <2>2 DEF GoodCall, CallType
    <3>2. c.sent \in 0 .. MaxDelay + 1
      BY <3>1, Bounds
    <3> QED
      BY <2>2, <3>1, <3>2
  <2> QED
    BY <2>1, <2>2 DEF SegsAfter
<1>5. SegInv'
  BY <1>4 DEF SegInv, SegsAfter
<1> QED
  BY <1>3, <1>5

\* The times of success of a task are set to an age that is in range.
LEMMA SucceededFacts ==
  ASSUME TimeInv, NEW t \in Tasks, NEW done, NEW age \in 0 .. Period + 1, Succeeded(t, done, age)
  PROVE  DOMAIN last' = Tasks /\ \A u \in Tasks : last'[u] \in [Outputs[u] -> 0 .. Period + 1]
BY DEF TimeInv, Succeeded

\* A run of the originator, a propagator or a remote writer.
LEMMA RunStep ==
  ASSUME BInv, NEW t \in Tasks, Run(t)
  PROVE  BInv' /\ \E slow \in SUBSET Batch(t) :
           LET done == {c \in Batch(t) \ slow : Accepts(c)}
           IN  /\ calls' = calls \cup slow
               /\ BeaconsAfter(done) /\ SegsAfter(done)
<1> USE DEF BInv
<1>1. ~Local(t) /\ Begin(t)
  BY DEF Run
<1>2. PICK slow \in SUBSET Batch(t) :
        LET done == {c \in Batch(t) \ slow : Accepts(c)} IN
        /\ faults + Cardinality(slow) <= MaxFaults
        /\ faults' = faults + Cardinality(slow)
        /\ calm' = IF slow = {} THEN calm ELSE 0
        /\ Handle(done)
        /\ Succeeded(t, done, 0)
        /\ calls' = calls \cup slow
        /\ run' = [run EXCEPT ![t] = IF slow = {} THEN Idle ELSE 0]
  BY DEF Run
<1> DEFINE done == {c \in Batch(t) \ slow : Accepts(c)}
<1>3. IsFiniteSet(slow) /\ IsFiniteSet(done) /\ Cardinality(slow) \in Nat
  BY <1>1, BatchFacts, FS_Subset, FS_CardinalityType
<1>4. \A c \in Batch(t) : GoodCall(c) /\ c.task = t /\ c.open = TRUE
  BY <1>1, BatchFacts DEF GoodCall
<1>5. BeaconsAfter(done) /\ SegsAfter(done)
  <2>1. \A c, d \in done : IsBeacon(c) <=> IsBeacon(d)
    BY <1>4 DEF IsBeacon
  <2> HIDE DEF done
  <2> QED
    BY <1>2, <2>1, HandleFacts DEF done
<1>6. BeaconInv' /\ SegInv'
  <2>1. \A c \in done : GoodCall(c)
    BY <1>4
  <2> HIDE DEF done
  <2> QED
    BY <1>3, <1>5, <2>1, HandleKeepsDatabases
<1>7. TimeInv'
  <2>1. tick' \in [Tasks -> 0 .. Period] /\ ran' \subseteq Tasks
    BY <1>1, Bounds DEF TimeInv, Begin, UpdateLast
  <2>2. run' \in [Tasks -> 0 .. Idle]
    BY <1>2, Bounds DEF TimeInv
  <2>3. DOMAIN last' = Tasks /\ \A u \in Tasks : last'[u] \in [Outputs[u] -> 0 .. Period + 1]
    BY <1>2, Bounds, SucceededFacts
  <2>4. faults' \in 0 .. MaxFaults /\ calm' \in 0 .. Settle
    BY <1>2, <1>3, Bounds DEF TimeInv
  <2>5. crashed' = crashed /\ up' = up
    BY DEF Run
  <2> QED
    BY <2>1, <2>2, <2>3, <2>4, <2>5 DEF TimeInv
<1>8. RunInv'
  <2>1. run[t] = Idle /\ Owner(t) \in up /\ ran' = ran \cup {t} /\ up' = up
    BY <1>1 DEF Begin, Run
  <2>2. ASSUME NEW u \in Tasks
        PROVE  /\ run'[u] # Idle <=> Running(u)'
               /\ u \in ran' => run'[u] \in {0, Idle}
               /\ Owner(u) \notin up' => run'[u] = Idle
    <3>1. CASE u = t
      <4>1. run'[u] = IF slow = {} THEN Idle ELSE 0
        BY <1>2, <3>1 DEF TimeInv
      <4>2. Running(u)' <=> slow # {}
        BY <1>2, <1>4, <2>1, <3>1 DEF Running, RunInv
      <4> QED
        BY <2>1, <3>1, <4>1, <4>2, Bounds
    <3>2. CASE u # t
      <4>1. run'[u] = run[u]
        BY <1>2, <3>2 DEF TimeInv
      <4>2. Running(u)' <=> Running(u)
        BY <1>2, <1>4, <3>2 DEF Running
      <4> QED
        BY <2>1, <3>2, <4>1, <4>2 DEF RunInv
    <3> QED
      BY <3>1, <3>2
  <2> QED
    BY <2>2 DEF RunInv
<1>9. CallInv'
  BY <1>2, <1>4 DEF CallInv
<1> QED
  BY <1>2, <1>5, <1>6, <1>7, <1>8, <1>9

\* What a local writer writes: beacons of its own database, signed now.
SegsWritten(a) ==
  /\ DOMAIN segs' = ASes /\ \A b \in ASes \ {a} : segs'[b] = segs[b]
  /\ DOMAIN segs[a] \subseteq DOMAIN segs'[a]
  /\ \A p \in DOMAIN segs'[a] :
       \/ p \in DOMAIN segs[a] /\ segs'[a][p] = segs[a][p]
       \/ /\ p \in DOMAIN beacons[a] /\ segs'[a][p] = [info |-> beacons[a][p], sig |-> 0]
          /\ p \in DOMAIN segs[a] => 0 < segs[a][p].sig

\* A run of a local writer.
LEMMA WriteStep ==
  ASSUME BInv, NEW t \in Tasks, Write(t)
  PROVE  BInv' /\ SegsWritten(Owner(t)) /\ beacons' = beacons /\ calls' = calls
<1> USE DEF BInv
<1> DEFINE a == Owner(t)
           paths == {b.path : b \in UNION {Selected(t, o) : o \in Due(t)}}
           new == [p \in paths |-> [info |-> beacons[a][p], sig |-> 0]]
<1>1. /\ Local(t) /\ Begin(t)
      /\ run' = run /\ beacons' = beacons /\ calls' = calls /\ up' = up /\ crashed' = crashed
  BY DEF Write
<1>2. a \in ASes /\ Kind(t) \in {"up", "core"} /\ Outputs[t] = {"registry"}
  BY <1>1, OutputFacts DEF Local
<1>3. \/ /\ segs' = [segs EXCEPT ![a] = Insert(@, new)]
         /\ last' = last \/ last' = [last EXCEPT ![t]["registry"] = 0]
         /\ faults' = faults /\ calm' = calm
      \/ /\ faults < MaxFaults /\ faults' = faults + 1 /\ calm' = 0
         /\ segs' = segs /\ last' = last
  BY DEF Write
<1>4. paths \subseteq DOMAIN beacons[a]
  <2>1. ASSUME NEW o \in Due(t), NEW b \in Selected(t, o) PROVE b.path \in DOMAIN beacons[a]
    BY <1>2, SelectedFacts DEF Due
  <2> QED
    BY <2>1
<1>5. SegsWritten(a)
  <2>1. CASE segs' = segs
    BY <1>2, <2>1 DEF SegsWritten, SegInv
  <2>2. CASE segs' = [segs EXCEPT ![a] = Insert(@, new)]
    <3>1. segs'[a] = Insert(segs[a], new) /\ DOMAIN segs' = ASes /\ \A b \in ASes \ {a} : segs'[b] = segs[b]
      BY <1>2, <2>2 DEF SegInv
    <3>2. DOMAIN Insert(segs[a], new) = DOMAIN segs[a] \cup DOMAIN new
      <4> HIDE DEF new, a
      <4> QED
        BY InsertFacts
    <3>3. ASSUME NEW p \in DOMAIN segs'[a]
          PROVE  \/ p \in DOMAIN segs[a] /\ segs'[a][p] = segs[a][p]
                 \/ /\ p \in DOMAIN beacons[a] /\ segs'[a][p] = [info |-> beacons[a][p], sig |-> 0]
                    /\ p \in DOMAIN segs[a] => 0 < segs[a][p].sig
      <4>1. p \in DOMAIN segs[a] \cup DOMAIN new
        BY <3>1, <3>2
      <4>2. \/ p \in DOMAIN segs[a] /\ Insert(segs[a], new)[p] = segs[a][p]
            \/ /\ p \in DOMAIN new /\ Insert(segs[a], new)[p] = new[p]
               /\ p \in DOMAIN segs[a] => new[p].sig < segs[a][p].sig
        BY <4>1, InsertFacts
      <4>3. p \in DOMAIN new => new[p] = [info |-> beacons[a][p], sig |-> 0] /\ p \in DOMAIN beacons[a]
        BY <1>4
      <4> HIDE DEF new, a
      <4>4. p \in DOMAIN new => new[p].sig = 0
        BY <4>3
      <4> QED
        BY <3>1, <4>2, <4>3, <4>4
    <3>4. DOMAIN segs[a] \subseteq DOMAIN segs'[a]
      BY <3>1, <3>2
    <3> HIDE DEF new, a
    <3> QED
      BY <3>1, <3>3, <3>4 DEF SegsWritten
  <2> QED
    BY <1>3, <2>1, <2>2
<1>6. SegInv'
  <2>1. ASSUME NEW b \in ASes, NEW p \in DOMAIN segs'[b]
        PROVE  p \in Path /\ segs'[b][p] \in [info : Age, sig : 0 .. MaxDelay + 1] /\ LoopFree(p)
    <3>1. 0 \in 0 .. MaxDelay + 1
      BY Bounds
    <3>2. CASE p \in DOMAIN segs[b] /\ segs'[b][p] = segs[b][p]
      BY <3>2 DEF SegInv
    <3>3. CASE b = a /\ p \in DOMAIN beacons[a] /\ segs'[b][p] = [info |-> beacons[a][p], sig |-> 0]
      BY <1>2, <3>1, <3>3 DEF BeaconInv
    <3> QED
      BY <1>5, <3>2, <3>3 DEF SegsWritten
  <2> QED
    BY <1>5, <2>1 DEF SegInv, SegsWritten
<1>7. TimeInv'
  <2>1. tick' \in [Tasks -> 0 .. Period] /\ ran' \subseteq Tasks
    BY <1>1, Bounds DEF TimeInv, Begin, UpdateLast
  <2>2. DOMAIN last' = Tasks /\ \A u \in Tasks : last'[u] \in [Outputs[u] -> 0 .. Period + 1]
    <3>1. CASE last' = last
      BY <3>1 DEF TimeInv
    <3>2. CASE last' = [last EXCEPT ![t]["registry"] = 0]
      <4>1. last[t] \in [Outputs[t] -> 0 .. Period + 1] /\ 0 \in 0 .. Period + 1
        BY Bounds DEF TimeInv
      <4>2. last' = [last EXCEPT ![t] = [last[t] EXCEPT !["registry"] = 0]]
        BY <3>2
      <4> QED
        BY <1>2, <4>1, <4>2 DEF TimeInv
    <3> QED
      BY <1>3, <3>1, <3>2
  <2>3. faults' \in 0 .. MaxFaults /\ calm' \in 0 .. Settle
    BY <1>3, Bounds DEF TimeInv
  <2> QED
    BY <1>1, <2>1, <2>2, <2>3 DEF TimeInv
<1>8. RunInv'
  BY <1>1 DEF RunInv, Running, Begin
<1>9. BeaconInv' /\ CallInv'
  BY <1>1 DEF BeaconInv, CallInv
<1> QED
  BY <1>1, <1>5, <1>6, <1>7, <1>8, <1>9

\* The run of a task goes on, or the task is idle.
LEMMA EndFacts ==
  ASSUME TimeInv, NEW t \in Tasks, NEW left, End(t, left)
  PROVE  run' \in [Tasks -> 0 .. Idle]
<1>1. PICK r \in {run[t], Idle} : run' = [run EXCEPT ![t] = r]
  BY DEF End
<1>2. r \in 0 .. Idle
  BY Bounds DEF TimeInv
<1> QED
  BY <1>1, <1>2 DEF TimeInv

\* A late call is handled.
LEMMA ArriveStep ==
  ASSUME BInv, NEW c \in calls, Arrive(c)
  PROVE  BInv' /\ calls' = calls \ {c} /\ BeaconsAfter({c}) /\ SegsAfter({c})
<1> USE DEF BInv
<1>1. /\ Handle({c}) /\ calls' = calls \ {c}
      /\ Succeeded(c.task, {d \in {c} : d.open}, run[c.task])
      /\ End(c.task, calls')
      /\ UNCHANGED <<tick, ran, up, crashed, faults, calm>>
  BY DEF Arrive
<1>2. GoodCall(c) /\ c.task \in Tasks
  BY DEF CallInv, GoodCall, CallType
<1>3. BeaconsAfter({c}) /\ SegsAfter({c})
  BY <1>1, HandleFacts
<1>4. BeaconInv' /\ SegInv'
  BY <1>2, <1>3, FS_Singleton, HandleKeepsDatabases
<1>5. TimeInv'
  <2>1. run' \in [Tasks -> 0 .. Idle]
    BY <1>1, <1>2, EndFacts
  <2>2. run[c.task] \in 0 .. Period + 1
    BY <1>2, Bounds DEF TimeInv
  <2>3. DOMAIN last' = Tasks /\ \A u \in Tasks : last'[u] \in [Outputs[u] -> 0 .. Period + 1]
    BY <1>1, <1>2, <2>2, SucceededFacts
  <2> QED
    BY <1>1, <2>1, <2>3 DEF TimeInv
<1>6. RunInv'
  BY <1>1, <1>2 DEF RunInv, Running, End, TimeInv
<1>7. CallInv'
  BY <1>1 DEF CallInv
<1> QED
  BY <1>1, <1>3, <1>4, <1>5, <1>6, <1>7

\* A call fails or is lost.
LEMMA LoseStep ==
  ASSUME BInv, NEW c \in calls, Lose(c)
  PROVE  BInv' /\ calls' = calls \ {c} /\ UNCHANGED <<beacons, segs>>
<1> USE DEF BInv
<1>1. /\ calls' = calls \ {c} /\ End(c.task, calls')
      /\ UNCHANGED <<tick, last, ran, beacons, segs, up, crashed, faults, calm>>
  BY DEF Lose
<1>2. c.task \in Tasks
  BY DEF CallInv, GoodCall, CallType
<1>3. TimeInv'
  <2>1. run' \in [Tasks -> 0 .. Idle]
    BY <1>1, <1>2, EndFacts
  <2> QED
    BY <1>1, <2>1 DEF TimeInv
<1>4. RunInv'
  BY <1>1, <1>2 DEF RunInv, Running, End, TimeInv
<1>5. BeaconInv' /\ SegInv' /\ CallInv'
  BY <1>1 DEF BeaconInv, SegInv, CallInv
<1> QED
  BY <1>1, <1>3, <1>4, <1>5

\* The calls whose sender has given up stay what they are, but for that.
LEMMA ForgetFacts ==
  ASSUME CallInv, NEW S, calls' = Forget(S)
  PROVE  /\ \A d \in calls' : GoodCall(d) /\ \E c \in calls :
              /\ d = [c EXCEPT !.open = c.open /\ c \notin S]
              /\ d.open <=> c.open /\ c \notin S
              /\ d.task = c.task /\ d.out = c.out /\ d.path = c.path
              /\ d.info = c.info /\ d.sent = c.sent
         /\ \A c \in calls : \E d \in calls' :
              d.task = c.task /\ (d.open <=> c.open /\ c \notin S)
<1> DEFINE Mark(c) == [c EXCEPT !.open = c.open /\ c \notin S]
<1>1. ASSUME NEW c \in calls
      PROVE  /\ GoodCall(Mark(c)) /\ (Mark(c).open <=> c.open /\ c \notin S)
             /\ Mark(c).task = c.task /\ Mark(c).out = c.out /\ Mark(c).path = c.path
             /\ Mark(c).info = c.info /\ Mark(c).sent = c.sent
  <2>1. GoodCall(c) /\ c \in CallType
    BY DEF CallInv, GoodCall
  <2>2. /\ Mark(c) \in CallType /\ Mark(c).open = (c.open /\ c \notin S)
        /\ Mark(c).task = c.task /\ Mark(c).out = c.out /\ Mark(c).path = c.path
        /\ Mark(c).info = c.info /\ Mark(c).sent = c.sent
    BY <2>1 DEF CallType
  <2> QED
    BY <2>1, <2>2 DEF GoodCall, IsBeacon
<1>2. calls' = {Mark(c) : c \in calls}
  BY DEF Forget
<1> HIDE DEF Mark
<1>3. ASSUME NEW d \in calls'
      PROVE  GoodCall(d) /\ \E c \in calls :
              /\ d = Mark(c) /\ (d.open <=> c.open /\ c \notin S)
              /\ d.task = c.task /\ d.out = c.out /\ d.path = c.path
              /\ d.info = c.info /\ d.sent = c.sent
  <2>1. PICK c \in calls : d = Mark(c)
    BY <1>2
  <2> QED
    BY <1>1, <2>1
<1>4. ASSUME NEW c \in calls
      PROVE  \E d \in calls' : d.task = c.task /\ (d.open <=> c.open /\ c \notin S)
  <2>1. Mark(c) \in calls'
    BY <1>2
  <2> QED
    BY <1>1, <2>1
<1> QED
  BY <1>3, <1>4 DEF Mark

\* The context of a run ends.
LEMMA TimeoutStep ==
  ASSUME BInv, NEW t \in Tasks, Timeout(t)
  PROVE  BInv' /\ UNCHANGED <<beacons, segs>>
<1> USE DEF BInv
<1> DEFINE S == {c \in calls : c.task = t}
<1>1. /\ run[t] = Period /\ run' = [run EXCEPT ![t] = Idle]
      /\ calls' = Forget(S)
      /\ UNCHANGED <<tick, last, ran, beacons, segs, up, crashed, faults, calm>>
  BY DEF Timeout
<1>2. TimeInv'
  <2>1. run' \in [Tasks -> 0 .. Idle]
    BY <1>1, Bounds DEF TimeInv
  <2> QED
    BY <1>1, <2>1 DEF TimeInv
<1>3. ASSUME NEW u \in Tasks PROVE Running(u)' <=> Running(u) /\ u # t
  <2>1. ASSUME Running(u)' PROVE Running(u) /\ u # t
    <3>1. PICK d \in calls' : d.task = u /\ d.open
      BY <2>1 DEF Running
    <3>2. PICK c \in calls : d.task = c.task /\ (d.open <=> c.open /\ c \notin S)
      BY <1>1, ForgetFacts
    <3> QED
      BY <3>1, <3>2 DEF Running
  <2>2. ASSUME Running(u), u # t PROVE Running(u)'
    <3>1. PICK c \in calls : c.task = u /\ c.open
      BY <2>2 DEF Running
    <3>2. PICK d \in calls' : d.task = c.task /\ (d.open <=> c.open /\ c \notin S)
      BY <1>1, ForgetFacts
    <3> QED
      BY <2>2, <3>1, <3>2 DEF Running
  <2> QED
    BY <2>1, <2>2
<1>4. RunInv'
  <2>1. \A u \in Tasks : run'[u] = IF u = t THEN Idle ELSE run[u]
    BY <1>1 DEF TimeInv
  <2> QED
    BY <1>1, <1>3, <2>1 DEF RunInv
<1>5. CallInv'
  <2>1. \A d \in calls' : GoodCall(d)
    BY <1>1, ForgetFacts
  <2> QED
    BY <2>1 DEF CallInv, GoodCall
<1>6. BeaconInv' /\ SegInv'
  BY <1>1 DEF BeaconInv, SegInv
<1> QED
  BY <1>1, <1>2, <1>4, <1>5, <1>6

\* A control service crashes.
LEMMA CrashStep ==
  ASSUME BInv, NEW a \in ASes, Crash(a)
  PROVE  BInv' /\ UNCHANGED <<beacons, segs>>
<1> USE DEF BInv
<1> DEFINE S == {c \in calls : Owner(c.task) = a}
<1>1. /\ a \in up /\ faults < MaxFaults /\ faults' = faults + 1 /\ calm' = 0
      /\ up' = up \ {a} /\ crashed' = crashed \cup {a}
      /\ tick' = [t \in Tasks |-> IF Owner(t) = a THEN Period ELSE tick[t]]
      /\ last' = [t \in Tasks |-> IF Owner(t) = a THEN Never(t) ELSE last[t]]
      /\ run' = [t \in Tasks |-> IF Owner(t) = a THEN Idle ELSE run[t]]
      /\ calls' = Forget(S)
      /\ ran' = {t \in ran : Owner(t) # a}
      /\ UNCHANGED <<beacons, segs>>
  BY DEF Crash
<1>2. TimeInv'
  <2>1. tick' \in [Tasks -> 0 .. Period] /\ run' \in [Tasks -> 0 .. Idle]
    BY <1>1, Bounds DEF TimeInv
  <2>2. ASSUME NEW u \in Tasks PROVE last'[u] \in [Outputs[u] -> 0 .. Period + 1]
    <3>1. Never(u) \in [Outputs[u] -> 0 .. Period + 1]
      BY Bounds DEF Never
    <3> QED
      BY <1>1, <3>1 DEF TimeInv
  <2>3. /\ DOMAIN last' = Tasks /\ ran' \subseteq Tasks /\ crashed' \subseteq ASes
        /\ ASes \ up' \subseteq crashed'
    BY <1>1 DEF TimeInv
  <2>4. faults' \in 0 .. MaxFaults /\ calm' \in 0 .. Settle
    BY <1>1, Bounds DEF TimeInv
  <2> QED
    BY <2>1, <2>2, <2>3, <2>4 DEF TimeInv
<1>3. ASSUME NEW u \in Tasks PROVE Running(u)' <=> Running(u) /\ Owner(u) # a
  <2>1. ASSUME Running(u)' PROVE Running(u) /\ Owner(u) # a
    <3>1. PICK d \in calls' : d.task = u /\ d.open
      BY <2>1 DEF Running
    <3>2. PICK c \in calls : d.task = c.task /\ (d.open <=> c.open /\ c \notin S)
      BY <1>1, ForgetFacts
    <3> QED
      BY <3>1, <3>2 DEF Running
  <2>2. ASSUME Running(u), Owner(u) # a PROVE Running(u)'
    <3>1. PICK c \in calls : c.task = u /\ c.open
      BY <2>2 DEF Running
    <3>2. PICK d \in calls' : d.task = c.task /\ (d.open <=> c.open /\ c \notin S)
      BY <1>1, ForgetFacts
    <3> QED
      BY <2>2, <3>1, <3>2 DEF Running
  <2> QED
    BY <2>1, <2>2
<1>4. RunInv'
  <2>1. \A u \in Tasks : run'[u] = IF Owner(u) = a THEN Idle ELSE run[u]
    BY <1>1
  <2> QED
    BY <1>1, <1>3, <2>1 DEF RunInv
<1>5. CallInv'
  <2>1. \A d \in calls' : GoodCall(d)
    BY <1>1, ForgetFacts
  <2> QED
    BY <2>1 DEF CallInv, GoodCall
<1>6. BeaconInv' /\ SegInv'
  BY <1>1 DEF BeaconInv, SegInv
<1> QED
  BY <1>1, <1>2, <1>4, <1>5, <1>6

\* A control service comes back.
LEMMA RecoverStep ==
  ASSUME BInv, NEW a \in ASes, Recover(a)
  PROVE  BInv' /\ UNCHANGED <<beacons, segs, calls>>
<1> USE DEF BInv
<1>1. /\ up' = up \cup {a}
      /\ UNCHANGED <<tick, last, run, ran, beacons, segs, calls, crashed, faults, calm>>
  BY DEF Recover
<1>2. TimeInv'
  BY <1>1 DEF TimeInv
<1>3. RunInv'
  BY <1>1 DEF RunInv, Running
<1>4. BeaconInv' /\ SegInv' /\ CallInv'
  BY <1>1 DEF BeaconInv, SegInv, CallInv
<1> QED
  BY <1>1, <1>2, <1>3, <1>4

\* The cleaner of the beacon database.
LEMMA CleanBeaconsStep ==
  ASSUME BInv, NEW a \in ASes, DeleteExpiredBeacons(a)
  PROVE  /\ BInv' /\ UNCHANGED <<segs, calls>>
         /\ \A b \in ASes : /\ DOMAIN beacons'[b] \subseteq DOMAIN beacons[b]
                            /\ \A p \in DOMAIN beacons'[b] : beacons'[b][p] = beacons[b][p]
                            /\ \A p \in DOMAIN beacons[b] \ DOMAIN beacons'[b] : beacons[b][p] > Lifetime
<1> USE DEF BInv
<1> DEFINE kept == {p \in DOMAIN beacons[a] : beacons[a][p] <= Lifetime}
<1>1. /\ beacons' = [beacons EXCEPT ![a] = [p \in kept |-> beacons[a][p]]]
      /\ UNCHANGED <<tick, last, run, ran, segs, calls, up, crashed, faults, calm>>
  BY DEF DeleteExpiredBeacons, Keep
<1>2. ASSUME NEW b \in ASes
      PROVE  /\ DOMAIN beacons'[b] \subseteq DOMAIN beacons[b]
             /\ \A p \in DOMAIN beacons'[b] : beacons'[b][p] = beacons[b][p]
             /\ \A p \in DOMAIN beacons[b] \ DOMAIN beacons'[b] : beacons[b][p] > Lifetime
  <2>1. CASE b # a
    BY <1>1, <2>1 DEF BeaconInv
  <2>2. CASE b = a
    <3>1. beacons'[a] = [p \in kept |-> beacons[a][p]]
      BY <1>1 DEF BeaconInv
    <3>2. \A p \in DOMAIN beacons[a] \ kept : beacons[a][p] > Lifetime
      BY Bounds DEF BeaconInv, Age
    <3> QED
      BY <2>2, <3>1, <3>2
  <2> QED
    BY <2>1, <2>2
<1>3. BeaconInv'
  <2>1. DOMAIN beacons' = ASes
    BY <1>1 DEF BeaconInv
  <2>2. ASSUME NEW b \in ASes PROVE IsFiniteSet(DOMAIN beacons'[b])
    BY <1>2, FS_Subset DEF BeaconInv
  <2> QED
    BY <1>2, <2>1, <2>2 DEF BeaconInv
<1>4. TimeInv' /\ RunInv' /\ SegInv' /\ CallInv'
  BY <1>1 DEF TimeInv, RunInv, Running, SegInv, CallInv
<1> QED
  BY <1>1, <1>2, <1>3, <1>4

\* The cleaner of the path database.
LEMMA CleanSegsStep ==
  ASSUME BInv, NEW a \in ASes, DeleteExpired(a)
  PROVE  /\ BInv' /\ UNCHANGED <<beacons, calls>>
         /\ \A b \in ASes : /\ DOMAIN segs'[b] \subseteq DOMAIN segs[b]
                            /\ \A p \in DOMAIN segs'[b] : segs'[b][p] = segs[b][p]
<1> USE DEF BInv
<1> DEFINE kept == {p \in DOMAIN segs[a] : segs[a][p].info <= Lifetime}
<1>1. /\ segs' = [segs EXCEPT ![a] = [p \in kept |-> segs[a][p]]]
      /\ UNCHANGED <<tick, last, run, ran, beacons, calls, up, crashed, faults, calm>>
  BY DEF DeleteExpired, Keep
<1>2. ASSUME NEW b \in ASes
      PROVE  /\ DOMAIN segs'[b] \subseteq DOMAIN segs[b]
             /\ \A p \in DOMAIN segs'[b] : segs'[b][p] = segs[b][p]
  <2>1. CASE b # a
    BY <1>1, <2>1 DEF SegInv
  <2>2. CASE b = a
    <3>1. segs'[a] = [p \in kept |-> segs[a][p]]
      BY <1>1 DEF SegInv
    <3> QED
      BY <2>2, <3>1
  <2> QED
    BY <2>1, <2>2
<1>3. SegInv'
  <2>1. DOMAIN segs' = ASes
    BY <1>1 DEF SegInv
  <2> QED
    BY <1>2, <2>1 DEF SegInv
<1>4. TimeInv' /\ RunInv' /\ BeaconInv' /\ CallInv'
  BY <1>1 DEF TimeInv, RunInv, Running, BeaconInv, CallInv
<1> QED
  BY <1>1, <1>2, <1>3, <1>4

\* Ages stay within their cap and keep their order.
LEMMA OlderFacts ==
  ASSUME NEW cap \in Nat, NEW x \in 0 .. cap, NEW y \in 0 .. cap
  PROVE  /\ Older(x, cap) \in 0 .. cap /\ (x <= y => Older(x, cap) <= Older(y, cap))
         /\ Older(cap, cap) = cap
BY DEF Older

\* What a tick does to the two databases and to the calls.
Aged ==
  /\ \A a \in ASes :
       /\ DOMAIN beacons'[a] = DOMAIN beacons[a]
       /\ \A p \in DOMAIN beacons[a] : beacons'[a][p] = Older(beacons[a][p], Lifetime + 1)
       /\ DOMAIN segs'[a] = DOMAIN segs[a]
       /\ \A p \in DOMAIN segs[a] : /\ segs'[a][p].info = Older(segs[a][p].info, Lifetime + 1)
                                    /\ segs'[a][p].sig = Older(segs[a][p].sig, MaxDelay + 1)
  /\ \A d \in calls' : \E c \in calls :
       /\ d.task = c.task /\ d.out = c.out /\ d.path = c.path /\ d.open = c.open
       /\ d.info = Older(c.info, Lifetime + 1) /\ d.sent = c.sent + 1

\* Time advances.
LEMMA TickStep ==
  ASSUME BInv, Tick
  PROVE  BInv' /\ Aged
<1> USE DEF BInv
<1> DEFINE Aging(c) == [c EXCEPT !.info = Older(@, Lifetime + 1), !.sent = @ + 1]
<1>1. /\ \A t \in Tasks : t \in ran \/ Owner(t) \notin up \/ run[t] < Period
      /\ \A c \in calls : c.sent < MaxDelay
      /\ ran' = {}
      /\ tick' = [t \in Tasks |-> Older(tick[t], Period)]
      /\ last' = [t \in Tasks |-> [o \in Outputs[t] |-> Older(last[t][o], Period + 1)]]
      /\ run' = [t \in Tasks |-> IF run[t] = Idle THEN Idle ELSE run[t] + 1]
      /\ calls' = {Aging(c) : c \in calls}
      /\ calm' = IF calls = {} /\ up = ASes THEN Older(calm, Settle) ELSE 0
      /\ UNCHANGED <<up, crashed, faults>>
  BY DEF Tick
<1>2. beacons' = [a \in ASes |-> [p \in DOMAIN beacons[a] |-> Older(beacons[a][p], Lifetime + 1)]]
  BY DEF Tick
<1>3. segs' = [a \in ASes |-> [p \in DOMAIN segs[a] |->
                [info |-> Older(segs[a][p].info, Lifetime + 1),
                 sig |-> Older(segs[a][p].sig, MaxDelay + 1)]]]
  BY DEF Tick
<1>4. ASSUME NEW c \in calls
      PROVE  /\ GoodCall(Aging(c))
             /\ Aging(c).task = c.task /\ Aging(c).out = c.out /\ Aging(c).path = c.path
             /\ Aging(c).open = c.open
             /\ Aging(c).info = Older(c.info, Lifetime + 1) /\ Aging(c).sent = c.sent + 1
  <2>1. GoodCall(c) /\ c \in CallType /\ c.info \in Age /\ c.sent \in 0 .. MaxDelay
    BY DEF CallInv, GoodCall, CallType
  <2>2. Older(c.info, Lifetime + 1) \in Age /\ c.sent + 1 \in 0 .. MaxDelay
    <3>0. c.sent < MaxDelay
      BY DEF Tick
    <3>1. c.sent + 1 \in 0 .. MaxDelay
      BY <2>1, <3>0, Bounds
    <3>2. Lifetime + 1 \in Nat /\ c.info \in 0 .. Lifetime + 1
      BY <2>1, Bounds DEF Age
    <3> QED
      BY <3>1, <3>2, OlderFacts DEF Age
  <2>3. /\ Aging(c) \in CallType
        /\ Aging(c).task = c.task /\ Aging(c).out = c.out /\ Aging(c).path = c.path
        /\ Aging(c).open = c.open
        /\ Aging(c).info = Older(c.info, Lifetime + 1) /\ Aging(c).sent = c.sent + 1
    BY <2>1, <2>2 DEF CallType
  <2> HIDE DEF Aging
  <2> QED
    BY <2>1, <2>3 DEF GoodCall, IsBeacon
<1> HIDE DEF Aging
<1>5. \A d \in calls' : GoodCall(d) /\ \E c \in calls :
        /\ d.task = c.task /\ d.out = c.out /\ d.path = c.path /\ d.open = c.open
        /\ d.info = Older(c.info, Lifetime + 1) /\ d.sent = c.sent + 1
  <2>1. ASSUME NEW d \in calls'
        PROVE  GoodCall(d) /\ \E c \in calls :
                 /\ d.task = c.task /\ d.out = c.out /\ d.path = c.path /\ d.open = c.open
                 /\ d.info = Older(c.info, Lifetime + 1) /\ d.sent = c.sent + 1
    <3>1. PICK c \in calls : d = Aging(c)
      BY <1>1
    <3> QED
      BY <1>4, <3>1
  <2> QED
    BY <2>1
<1>6. Aged
  <2>1. ASSUME NEW a \in ASes
        PROVE  /\ DOMAIN beacons'[a] = DOMAIN beacons[a]
               /\ \A p \in DOMAIN beacons[a] : beacons'[a][p] = Older(beacons[a][p], Lifetime + 1)
    BY <1>2
  <2>2. ASSUME NEW a \in ASes
        PROVE  /\ DOMAIN segs'[a] = DOMAIN segs[a]
               /\ \A p \in DOMAIN segs[a] :
                    /\ segs'[a][p].info = Older(segs[a][p].info, Lifetime + 1)
                    /\ segs'[a][p].sig = Older(segs[a][p].sig, MaxDelay + 1)
    BY <1>3
  <2> QED
    BY <1>5, <2>1, <2>2 DEF Aged
<1>7. TimeInv'
  <2>1. tick' \in [Tasks -> 0 .. Period]
    <3>1. \A t \in Tasks : Older(tick[t], Period) \in 0 .. Period
      BY Bounds, OlderFacts DEF TimeInv
    <3> QED
      BY <1>1, <3>1
  <2>2. run' \in [Tasks -> 0 .. Idle]
    <3>1. \A t \in Tasks : run[t] # Idle => run[t] + 1 \in 0 .. Idle
      <4>1. Idle \in Nat /\ \A t \in Tasks : run[t] \in 0 .. Idle
        BY Bounds DEF TimeInv
      <4> QED
        BY <4>1
    <3>2. Idle \in 0 .. Idle
      BY Bounds
    <3> QED
      BY <1>1, <3>1, <3>2
  <2>3. DOMAIN last' = Tasks /\ \A t \in Tasks : last'[t] \in [Outputs[t] -> 0 .. Period + 1]
    <3>1. ASSUME NEW t \in Tasks, NEW o \in Outputs[t]
          PROVE  Older(last[t][o], Period + 1) \in 0 .. Period + 1
      <4>1. last[t][o] \in 0 .. Period + 1 /\ Period + 1 \in Nat
        BY Bounds DEF TimeInv
      <4> QED
        BY <4>1, OlderFacts
    <3> QED
      BY <1>1, <3>1
  <2>4. calm' \in 0 .. Settle
    BY <1>1, Bounds, OlderFacts DEF TimeInv
  <2> QED
    BY <1>1, <2>1, <2>2, <2>3, <2>4 DEF TimeInv
<1>8. RunInv'
  <2>1. ASSUME NEW t \in Tasks
        PROVE  /\ run'[t] # Idle <=> Running(t)'
               /\ Owner(t) \notin up' => run'[t] = Idle
    <3>1. run'[t] = IF run[t] = Idle THEN Idle ELSE run[t] + 1
      BY <1>1
    <3>2. run[t] # Idle => run[t] + 1 # Idle
      <4>1. run[t] # Idle => run[t] = 0 \/ run[t] < Period
        BY <1>1 DEF RunInv
      <4> QED
        BY <4>1, Bounds DEF TimeInv
    <3>3. Running(t)' <=> Running(t)
      <4>1. ASSUME Running(t)' PROVE Running(t)
        BY <1>5, <4>1 DEF Running
      <4>2. ASSUME Running(t) PROVE Running(t)'
        <5>1. PICK c \in calls : c.task = t /\ c.open
          BY <4>2 DEF Running
        <5>2. Aging(c) \in calls'
          BY <1>1
        <5> QED
          BY <1>4, <5>1, <5>2 DEF Running
      <4> QED
        BY <4>1, <4>2
    <3> QED
      BY <1>1, <3>1, <3>2, <3>3 DEF RunInv
  <2> QED
    BY <1>1, <2>1 DEF RunInv
<1>9. BeaconInv'
  <2>1. DOMAIN beacons' = ASes
    BY <1>2
  <2>2. ASSUME NEW a \in ASes, NEW p \in DOMAIN beacons[a] PROVE beacons'[a][p] \in Age
    <3>1. beacons[a][p] \in 0 .. Lifetime + 1 /\ Lifetime + 1 \in Nat
      BY Bounds DEF BeaconInv, Age
    <3> QED
      BY <1>6, <3>1, OlderFacts DEF Aged, Age
  <2> QED
    BY <1>6, <2>1, <2>2 DEF BeaconInv, Aged
<1>10. SegInv'
  <2>1. DOMAIN segs' = ASes
    BY <1>3
  <2>2. ASSUME NEW a \in ASes, NEW p \in DOMAIN segs[a]
        PROVE  segs'[a][p] \in [info : Age, sig : 0 .. MaxDelay + 1]
    <3>1. /\ segs[a][p].info \in 0 .. Lifetime + 1 /\ Lifetime + 1 \in Nat
          /\ segs[a][p].sig \in 0 .. MaxDelay + 1 /\ MaxDelay + 1 \in Nat
      BY Bounds DEF SegInv, Age
    <3>2. /\ Older(segs[a][p].info, Lifetime + 1) \in Age
          /\ Older(segs[a][p].sig, MaxDelay + 1) \in 0 .. MaxDelay + 1
      BY <3>1, OlderFacts DEF Age
    <3> QED
      BY <1>3, <3>2
  <2> QED
    BY <1>6, <2>1, <2>2 DEF SegInv, Aged
<1>11. CallInv'
  BY <1>5 DEF CallInv
<1> QED
  BY <1>6, <1>7, <1>8, <1>9, <1>10, <1>11

\* The start.
LEMMA InitFacts == Init => BInv /\ OrderInv
<1> SUFFICES ASSUME Init PROVE BInv /\ OrderInv
  OBVIOUS
<1> USE DEF Init
<1>1. TimeInv
  <2>1. ASSUME NEW t \in Tasks PROVE Never(t) \in [Outputs[t] -> 0 .. Period + 1]
    BY Bounds DEF Never
  <2> QED
    BY <2>1, Bounds DEF TimeInv
<1>2. RunInv
  BY OutputFacts DEF RunInv, Running
<1>3. BeaconInv
  BY FS_EmptySet DEF BeaconInv
<1>4. SegInv /\ CallInv
  BY DEF SegInv, CallInv
<1>5. OrderInv
  BY DEF OrderInv
<1> QED
  BY <1>1, <1>2, <1>3, <1>4, <1>5 DEF BInv

\* Every step keeps the invariant.
LEMMA NextFacts == BInv /\ [Next]_vars => BInv'
<1> SUFFICES ASSUME BInv, [Next]_vars PROVE BInv'
  OBVIOUS
<1>1. ASSUME NEW t \in Tasks, Run(t) \/ Write(t) \/ Timeout(t) PROVE BInv'
  BY <1>1, RunStep, WriteStep, TimeoutStep
<1>2. ASSUME NEW c \in calls, Arrive(c) \/ Lose(c) PROVE BInv'
  BY <1>2, ArriveStep, LoseStep
<1>3. ASSUME NEW a \in ASes,
             DeleteExpiredBeacons(a) \/ DeleteExpired(a) \/ Crash(a) \/ Recover(a)
      PROVE  BInv'
  BY <1>3, CleanBeaconsStep, CleanSegsStep, CrashStep, RecoverStep
<1>4. CASE Tick
  BY <1>4, TickStep
<1>5. CASE UNCHANGED vars
  BY <1>5 DEF vars, BInv, TimeInv, RunInv, Running, BeaconInv, SegInv, CallInv
<1> QED
  BY <1>1, <1>2, <1>3, <1>4, <1>5 DEF Next

\* The databases and the calls always have their types, the ages stay within
\* their caps, and a task is in a run exactly while one of its calls is open.
THEOREM BeaconingTypeOK == Spec => []TypeOK
<1>1. BInv => TypeOK
  BY DEF BInv, TypeOK, TimeInv, RunInv, Running, BeaconInv, SegInv, CallInv, GoodCall, CallType, Path
<1> QED
  BY <1>1, InitFacts, NextFacts, PTL DEF Spec

\* No AS ever stores a beacon or a segment that goes through an AS twice, for
\* every topology: the propagator's shouldIgnore keeps a beacon from being sent to
\* an AS that is in it, and the writers only register what is stored.
THEOREM BeaconingNoLoops == Spec => []NoLoops
<1>1. BInv => NoLoops
  BY DEF BInv, NoLoops, BeaconInv, SegInv, LoopFree, Tip
<1> QED
  BY <1>1, InitFacts, NextFacts, PTL DEF Spec

---------------------------------------------------------------------------
(* The order of versions.                                                   *)

\* What every step but a tick does to beacons and to the versions of a segment:
\* beacons are replaced by newer ones and only deleted when they have expired; a
\* version is one that was there, stored or on its way, or is made of the beacon
\* that is stored now; and a stored one is only replaced on a later signature.
Moves ==
  /\ \A a \in ASes :
       /\ \A p \in DOMAIN beacons[a] \cap DOMAIN beacons'[a] : beacons'[a][p] <= beacons[a][p]
       /\ \A p \in DOMAIN beacons[a] \ DOMAIN beacons'[a] : beacons[a][p] > Lifetime
       /\ \A p \in DOMAIN segs'[a] :
            \/ p \in DOMAIN segs[a] /\ segs'[a][p] = segs[a][p]
            \/ segs'[a][p] = [info |-> Floor(p), sig |-> 0]
            \/ \E c \in calls : /\ ~IsBeacon(c) /\ Receiver(c) = a /\ c.path = p
                                /\ segs'[a][p] = [info |-> c.info, sig |-> c.sent]
                                /\ p \in DOMAIN segs[a] => c.sent < segs[a][p].sig
  /\ \A d \in calls' : ~IsBeacon(d) =>
       \/ d.sent = 0 /\ d.info = Floor(d.path)
       \/ \E c \in calls : /\ ~IsBeacon(c) /\ c.path = d.path
                           /\ c.info = d.info /\ c.sent = d.sent

\* The age of the beacon of a path is an age.
LEMMA FloorType ==
  ASSUME BeaconInv, NEW p \in Path
  PROVE  Tip(p) \in ASes /\ Floor(p) \in Age
<1>1. Len(p) \in 1 .. Len(p) /\ p[Len(p)] \in Links
  BY DEF Path
<1>2. Tip(p) \in ASes
  BY <1>1, LinkFacts DEF Tip
<1>3. Lifetime + 1 \in Age
  BY Bounds DEF Age
<1> QED
  BY <1>2, <1>3 DEF Floor, BeaconInv

\* A registration goes to the first AS of its path.
LEMMA ReceiverOfSegment ==
  ASSUME NEW c, ~IsBeacon(c) PROVE Receiver(c) = From[Head(c.path)]
BY DEF Receiver

\* As the beacon of a path only gets newer, and versions are only added to from
\* it, no database goes back to an earlier version, and versions stay in order.
LEMMA MovesKeepOrder ==
  ASSUME BInv, BInv', OrderInv, Moves
  PROVE  /\ OrderInv'
         /\ \A a \in ASes :
              /\ \A p \in DOMAIN beacons[a] \cap DOMAIN beacons'[a] : beacons'[a][p] <= beacons[a][p]
              /\ \A p \in DOMAIN segs[a] \cap DOMAIN segs'[a] : segs'[a][p].info <= segs[a][p].info
<1> USE DEF BInv
<1>1. ASSUME NEW p \in Path
      PROVE  Floor(p) \in Age /\ Floor(p)' \in Age /\ Floor(p)' <= Floor(p)
  <2>1. Tip(p) \in ASes /\ Floor(p) \in Age
    BY FloorType
  <2>2. Floor(p)' \in Age
    <3>1. Lifetime + 1 \in Age
      BY Bounds DEF Age
    <3> QED
      BY <2>1, <3>1 DEF Floor, BeaconInv
  <2>3. CASE p \in DOMAIN beacons[Tip(p)] /\ p \in DOMAIN beacons'[Tip(p)]
    <3>1. beacons'[Tip(p)][p] <= beacons[Tip(p)][p]
      BY <2>1, <2>3 DEF Moves
    <3> QED
      BY <2>1, <2>2, <2>3, <3>1 DEF Floor
  <2>4. CASE p \in DOMAIN beacons[Tip(p)] /\ p \notin DOMAIN beacons'[Tip(p)]
    <3>1. Floor(p) > Lifetime /\ Floor(p)' = Lifetime + 1
      BY <2>1, <2>4 DEF Moves, Floor
    <3> QED
      BY <2>1, <2>2, <3>1, Bounds DEF Age
  <2>5. CASE p \notin DOMAIN beacons[Tip(p)]
    <3>1. Floor(p) = Lifetime + 1
      BY <2>5 DEF Floor
    <3> QED
      BY <2>1, <2>2, <3>1, Bounds DEF Age
  <2> QED
    BY <2>1, <2>2, <2>3, <2>4, <2>5
<1>2. \A c \in calls : c.path \in Path /\ c.info \in Nat /\ c.sent \in Nat
  BY Bounds DEF CallInv, GoodCall, CallType, Age
<1>3. \A d \in calls' : d.path \in Path /\ d.info \in Nat /\ d.sent \in Nat
  BY Bounds DEF CallInv, GoodCall, CallType, Age
<1>4. \A a \in ASes : \A p \in DOMAIN segs[a] :
        p \in Path /\ segs[a][p].info \in Nat /\ segs[a][p].sig \in Nat
  BY Bounds DEF SegInv, Age
<1>5. \A a \in ASes : \A p \in DOMAIN segs'[a] :
        p \in Path /\ segs'[a][p].info \in Nat /\ segs'[a][p].sig \in Nat
  BY Bounds DEF SegInv, Age
<1>6. \A p \in Path : Floor(p) \in Nat /\ Floor(p)' \in Nat /\ Floor(p)' <= Floor(p)
  BY <1>1, Bounds DEF Age
<1>7. ASSUME NEW a \in ASes, NEW p \in DOMAIN segs'[a]
      PROVE  /\ segs'[a][p].info >= Floor(p)
             /\ p \in DOMAIN segs[a] => segs'[a][p].info <= segs[a][p].info
             /\ \A d \in calls : ~IsBeacon(d) /\ d.path = p /\ Receiver(d) = a =>
                  /\ d.sent < segs'[a][p].sig => d.info <= segs'[a][p].info
                  /\ segs'[a][p].sig < d.sent => segs'[a][p].info <= d.info
  <2>1. CASE p \in DOMAIN segs[a] /\ segs'[a][p] = segs[a][p]
    BY <1>4, <2>1 DEF OrderInv
  <2>2. CASE segs'[a][p] = [info |-> Floor(p), sig |-> 0]
    <3>1. segs'[a][p].info = Floor(p) /\ segs'[a][p].sig = 0
      BY <2>2
    <3>2. p \in DOMAIN segs[a] => Floor(p) <= segs[a][p].info
      BY <1>4, <1>5, <1>6 DEF OrderInv
    <3>3. \A d \in calls : ~IsBeacon(d) /\ d.path = p => Floor(p) <= d.info
      BY <1>2, <1>6 DEF OrderInv
    <3> QED
      BY <1>2, <1>5, <1>6, <3>1, <3>2, <3>3
  <2>3. ASSUME NEW c \in calls, ~IsBeacon(c), Receiver(c) = a, c.path = p,
               segs'[a][p] = [info |-> c.info, sig |-> c.sent],
               p \in DOMAIN segs[a] => c.sent < segs[a][p].sig
        PROVE  /\ segs'[a][p].info >= Floor(p)
               /\ p \in DOMAIN segs[a] => segs'[a][p].info <= segs[a][p].info
               /\ \A d \in calls : ~IsBeacon(d) /\ d.path = p /\ Receiver(d) = a =>
                    /\ d.sent < segs'[a][p].sig => d.info <= segs'[a][p].info
                    /\ segs'[a][p].sig < d.sent => segs'[a][p].info <= d.info
    <3>1. segs'[a][p].info = c.info /\ segs'[a][p].sig = c.sent
      BY <2>3
    <3>2. c.info >= Floor(p)
      BY <2>3 DEF OrderInv
    <3>3. p \in DOMAIN segs[a] => c.info <= segs[a][p].info
      BY <2>3 DEF OrderInv
    <3>4. \A d \in calls : ~IsBeacon(d) /\ d.path = p =>
            /\ d.sent < c.sent => d.info <= c.info
            /\ c.sent < d.sent => c.info <= d.info
      BY <2>3 DEF OrderInv
    <3> QED
      BY <3>1, <3>2, <3>3, <3>4
  <2> QED
    BY <2>1, <2>2, <2>3 DEF Moves
<1>8. ASSUME NEW d \in calls', ~IsBeacon(d)
      PROVE  d.info >= Floor(d.path)
  <2>1. CASE d.info = Floor(d.path)
    BY <1>3, <1>6, <2>1
  <2>2. ASSUME NEW c \in calls, ~IsBeacon(c), c.path = d.path, c.info = d.info
        PROVE  d.info >= Floor(d.path)
    BY <2>2 DEF OrderInv
  <2> QED
    BY <1>8, <2>1, <2>2 DEF Moves
<1>9. ASSUME NEW c \in calls', NEW d \in calls', ~IsBeacon(c), ~IsBeacon(d),
             c.path = d.path, c.sent < d.sent
      PROVE  c.info <= d.info
  <2>1. CASE c.sent = 0 /\ c.info = Floor(c.path)
    BY <1>3, <1>6, <1>8, <1>9, <2>1
  <2>2. CASE d.sent = 0
    BY <1>3, <1>9, <2>2
  <2>3. ASSUME NEW x \in calls, ~IsBeacon(x), x.path = c.path, x.info = c.info, x.sent = c.sent,
               NEW y \in calls, ~IsBeacon(y), y.path = d.path, y.info = d.info, y.sent = d.sent
        PROVE  c.info <= d.info
    <3>1. x.path = y.path /\ x.sent < y.sent
      BY <1>9, <2>3
    <3>2. x.info <= y.info
      BY <2>3, <3>1 DEF OrderInv
    <3> QED
      BY <2>3, <3>2
  <2> QED
    BY <1>9, <2>1, <2>2, <2>3 DEF Moves
<1>10. ASSUME NEW d \in calls', NEW a \in ASes, ~IsBeacon(d), d.path \in DOMAIN segs'[a],
              Receiver(d) = a
       PROVE  /\ d.sent < segs'[a][d.path].sig => d.info <= segs'[a][d.path].info
              /\ segs'[a][d.path].sig < d.sent => segs'[a][d.path].info <= d.info
  <2>1. CASE d.sent = 0 /\ d.info = Floor(d.path)
    <3>1. segs'[a][d.path].info >= Floor(d.path)
      BY <1>7, <1>10
    <3> QED
      BY <1>3, <1>5, <1>6, <1>10, <2>1, <3>1
  <2>2. ASSUME NEW c \in calls, ~IsBeacon(c), c.path = d.path, c.info = d.info, c.sent = d.sent
        PROVE  /\ d.sent < segs'[a][d.path].sig => d.info <= segs'[a][d.path].info
               /\ segs'[a][d.path].sig < d.sent => segs'[a][d.path].info <= d.info
    <3>1. Receiver(c) = a
      BY <1>10, <2>2, ReceiverOfSegment
    <3> QED
      BY <1>7, <1>10, <2>2, <3>1
  <2> QED
    BY <1>10, <2>1, <2>2 DEF Moves
<1>11. \A a \in ASes : \A p \in DOMAIN segs'[a] : segs'[a][p].info >= Floor(p)'
  <2>1. ASSUME NEW a \in ASes, NEW p \in DOMAIN segs'[a] PROVE segs'[a][p].info >= Floor(p)'
    <3>1. segs'[a][p].info >= Floor(p)
      BY <1>7
    <3> QED
      BY <1>5, <1>6, <3>1
  <2> QED
    BY <2>1
<1>12. \A d \in calls' : ~IsBeacon(d) => d.info >= Floor(d.path)'
  <2>1. ASSUME NEW d \in calls', ~IsBeacon(d) PROVE d.info >= Floor(d.path)'
    <3>1. d.info >= Floor(d.path)
      BY <1>8, <2>1
    <3> QED
      BY <1>3, <1>6, <3>1
  <2> QED
    BY <2>1
<1>13. OrderInv'
  BY <1>9, <1>10, <1>11, <1>12 DEF OrderInv
<1>14. \A a \in ASes : \A p \in DOMAIN segs[a] \cap DOMAIN segs'[a] :
         segs'[a][p].info <= segs[a][p].info
  BY <1>7
<1> QED
  BY <1>13, <1>14 DEF Moves

\* The beacon of a path that is stored where it ends.
LEMMA FloorOfStored ==
  ASSUME BeaconInv, NEW a \in ASes, NEW p \in DOMAIN beacons[a]
  PROVE  Floor(p) = beacons[a][p]
BY DEF BeaconInv, Floor

\* Handling calls only puts newer beacons in place of stored ones.
LEMMA BeaconsAfterMoves ==
  ASSUME BInv, BInv', NEW set, \A c \in set : c.info \in Nat, BeaconsAfter(set), NEW a \in ASes
  PROVE  /\ \A p \in DOMAIN beacons[a] \cap DOMAIN beacons'[a] : beacons'[a][p] <= beacons[a][p]
         /\ DOMAIN beacons[a] \subseteq DOMAIN beacons'[a]
<1>1. ASSUME NEW p \in DOMAIN beacons[a], p \in DOMAIN beacons'[a]
      PROVE  beacons'[a][p] <= beacons[a][p]
  <2>1. beacons[a][p] \in Nat
    BY Bounds DEF BInv, BeaconInv, Age
  <2>2. beacons'[a][p] = beacons[a][p] \/ \E c \in set : beacons'[a][p] = c.info /\ c.info < beacons[a][p]
    BY <1>1 DEF BeaconsAfter
  <2> QED
    BY <2>1, <2>2
<1>2. DOMAIN beacons[a] \subseteq DOMAIN beacons'[a]
  BY DEF BeaconsAfter
<1> QED
  BY <1>1, <1>2

\* Runs send and store what is stored now, signed now.
LEMMA RunMoves ==
  ASSUME BInv, BInv', NEW t \in Tasks, Run(t)
  PROVE  Moves
<1> USE DEF BInv
<1>1. PICK slow \in SUBSET Batch(t) :
        LET done == {c \in Batch(t) \ slow : Accepts(c)}
        IN  calls' = calls \cup slow /\ BeaconsAfter(done) /\ SegsAfter(done)
  BY RunStep
<1> DEFINE done == {c \in Batch(t) \ slow : Accepts(c)}
<1>2. calls' = calls \cup slow /\ BeaconsAfter(done) /\ SegsAfter(done) /\ done \subseteq Batch(t)
  BY <1>1
<1> HIDE DEF done
<1>3. ASSUME NEW c \in Batch(t)
      PROVE  /\ c.info \in Nat /\ c.sent = 0
             /\ ~IsBeacon(c) => c.info = Floor(c.path)
  <2>1. ~Local(t) /\ Owner(t) \in ASes
    BY OutputFacts DEF Run
  <2>2. c \in CallType /\ c.sent = 0
    BY <2>1, BatchFacts
  <2>3. ~IsBeacon(c) => c.path \in DOMAIN beacons[Owner(t)] /\ c.info = beacons[Owner(t)][c.path]
    BY <2>1, BatchFacts
  <2>4. c.info \in Nat
    BY <2>2, Bounds DEF CallType, Age
  <2>5. ~IsBeacon(c) => c.info = Floor(c.path)
    BY <2>1, <2>3, FloorOfStored
  <2> QED
    BY <2>2, <2>4, <2>5
<1>4. ASSUME NEW a \in ASes
      PROVE  /\ \A p \in DOMAIN beacons[a] \cap DOMAIN beacons'[a] : beacons'[a][p] <= beacons[a][p]
             /\ \A p \in DOMAIN beacons[a] \ DOMAIN beacons'[a] : beacons[a][p] > Lifetime
  <2>1. \A c \in done : c.info \in Nat
    BY <1>2, <1>3
  <2> QED
    BY <1>2, <2>1, BeaconsAfterMoves
<1>5. ASSUME NEW a \in ASes, NEW p \in DOMAIN segs'[a]
      PROVE  \/ p \in DOMAIN segs[a] /\ segs'[a][p] = segs[a][p]
             \/ segs'[a][p] = [info |-> Floor(p), sig |-> 0]
  <2>1. ASSUME NEW c \in done, ~IsBeacon(c), c.path = p,
               segs'[a][p] = [info |-> c.info, sig |-> c.sent]
        PROVE  segs'[a][p] = [info |-> Floor(p), sig |-> 0]
    <3>1. c.info = Floor(p) /\ c.sent = 0
      BY <1>2, <1>3, <2>1
    <3> QED
      BY <2>1, <3>1
  <2> QED
    BY <1>2, <2>1 DEF SegsAfter
<1>6. ASSUME NEW d \in calls', ~IsBeacon(d)
      PROVE  \/ d.sent = 0 /\ d.info = Floor(d.path)
             \/ d \in calls
  BY <1>2, <1>3, <1>6
<1> QED
  BY <1>4, <1>5, <1>6 DEF Moves

\* A local writer registers what is stored now, signed now.
LEMMA WriteMoves ==
  ASSUME BInv, NEW t \in Tasks, Write(t)
  PROVE  Moves
<1> USE DEF BInv
<1>1. SegsWritten(Owner(t)) /\ beacons' = beacons /\ calls' = calls /\ Owner(t) \in ASes
  BY WriteStep, OutputFacts
<1>2. ASSUME NEW a \in ASes, NEW p \in DOMAIN segs'[a]
      PROVE  \/ p \in DOMAIN segs[a] /\ segs'[a][p] = segs[a][p]
             \/ segs'[a][p] = [info |-> Floor(p), sig |-> 0]
  <2>1. CASE a # Owner(t)
    BY <1>1, <2>1 DEF SegsWritten
  <2>2. CASE a = Owner(t) /\ p \in DOMAIN beacons[a] /\ segs'[a][p] = [info |-> beacons[a][p], sig |-> 0]
    <3>1. Floor(p) = beacons[a][p]
      BY <2>2, FloorOfStored
    <3> QED
      BY <2>2, <3>1
  <2> QED
    BY <1>1, <2>1, <2>2 DEF SegsWritten
<1>3. \A a \in ASes : \A p \in DOMAIN beacons[a] : beacons[a][p] <= beacons[a][p]
  BY Bounds DEF BeaconInv, Age
<1> QED
  BY <1>1, <1>2, <1>3 DEF Moves

\* A late call stores the version it carries if its signature is the later one.
LEMMA ArriveMoves ==
  ASSUME BInv, BInv', NEW c \in calls, Arrive(c)
  PROVE  Moves
<1> USE DEF BInv
<1>1. calls' = calls \ {c} /\ BeaconsAfter({c}) /\ SegsAfter({c})
  BY ArriveStep
<1>2. \A d \in {c} : d.info \in Nat
  BY Bounds DEF CallInv, GoodCall, CallType, Age
<1>3. ASSUME NEW a \in ASes
      PROVE  /\ \A p \in DOMAIN beacons[a] \cap DOMAIN beacons'[a] : beacons'[a][p] <= beacons[a][p]
             /\ \A p \in DOMAIN beacons[a] \ DOMAIN beacons'[a] : beacons[a][p] > Lifetime
  BY <1>1, <1>2, BeaconsAfterMoves
<1> QED
  BY <1>1, <1>3 DEF Moves, SegsAfter

\* Steps that leave the databases alone, and the calls but for who waits.
LEMMA OtherMoves ==
  ASSUME BInv, UNCHANGED <<beacons, segs>>,
         \A d \in calls' : \E c \in calls : /\ d.task = c.task /\ d.path = c.path
                                            /\ d.info = c.info /\ d.sent = c.sent
  PROVE  Moves
<1>1. \A a \in ASes : \A p \in DOMAIN beacons[a] : beacons[a][p] <= beacons[a][p]
  BY Bounds DEF BInv, BeaconInv, Age
<1> QED
  BY <1>1 DEF Moves, IsBeacon

\* Every step but a tick moves versions as described.
LEMMA StepMoves ==
  ASSUME BInv, BInv', [Next]_vars, ~Tick
  PROVE  Moves
<1> USE DEF BInv
<1>1. ASSUME NEW t \in Tasks, Run(t) \/ Write(t) \/ Timeout(t) PROVE Moves
  <2>1. CASE Timeout(t)
    <3>1. calls' = Forget({c \in calls : c.task = t}) /\ UNCHANGED <<beacons, segs>>
      BY <2>1 DEF Timeout
    <3> QED
      BY <3>1, ForgetFacts, OtherMoves
  <2> QED
    BY <1>1, <2>1, RunMoves, WriteMoves
<1>2. ASSUME NEW c \in calls, Arrive(c) \/ Lose(c) PROVE Moves
  <2>1. CASE Lose(c)
    BY <2>1, LoseStep, OtherMoves
  <2> QED
    BY <1>2, <2>1, ArriveMoves
<1>3. ASSUME NEW a \in ASes,
             DeleteExpiredBeacons(a) \/ DeleteExpired(a) \/ Crash(a) \/ Recover(a)
      PROVE  Moves
  <2>0. \A b \in ASes : \A p \in DOMAIN beacons[b] : beacons[b][p] <= beacons[b][p]
    BY Bounds DEF BeaconInv, Age
  <2>1. CASE DeleteExpiredBeacons(a)
    BY <2>0, <2>1, CleanBeaconsStep DEF Moves
  <2>2. CASE DeleteExpired(a)
    BY <2>0, <2>2, CleanSegsStep DEF Moves
  <2>3. CASE Crash(a)
    <3>1. calls' = Forget({c \in calls : Owner(c.task) = a}) /\ UNCHANGED <<beacons, segs>>
      BY <2>3 DEF Crash
    <3> QED
      BY <3>1, ForgetFacts, OtherMoves
  <2>4. CASE Recover(a)
    BY <2>4, RecoverStep, OtherMoves
  <2> QED
    BY <1>3, <2>1, <2>2, <2>3, <2>4
<1>4. CASE UNCHANGED vars
  BY <1>4, OtherMoves DEF vars
<1> QED
  BY <1>1, <1>2, <1>3, <1>4 DEF Next

\* A tick ages everything alike; no call is as old as a signature at its cap.
LEMMA TickKeepsOrder ==
  ASSUME BInv, BInv', OrderInv, Aged
  PROVE  OrderInv'
<1> USE DEF BInv
<1>1. Lifetime + 1 \in Nat /\ MaxDelay + 1 \in Nat
  BY Bounds
<1>2. \A c \in calls : c.path \in Path /\ c.info \in 0 .. Lifetime + 1 /\ c.sent \in 0 .. MaxDelay
  BY DEF CallInv, GoodCall, CallType, Age
<1>3. \A d \in calls' : d.path \in Path /\ d.sent \in 0 .. MaxDelay
  BY DEF CallInv, GoodCall, CallType
<1>4. \A a \in ASes : \A p \in DOMAIN segs[a] :
        /\ p \in Path /\ segs[a][p].info \in 0 .. Lifetime + 1
        /\ segs[a][p].sig \in 0 .. MaxDelay + 1
  BY DEF SegInv, Age
<1>5. ASSUME NEW p \in Path
      PROVE  Floor(p) \in 0 .. Lifetime + 1 /\ Floor(p)' = Older(Floor(p), Lifetime + 1)
  <2>1. Tip(p) \in ASes /\ Floor(p) \in 0 .. Lifetime + 1
    BY FloorType DEF Age
  <2>2. CASE p \in DOMAIN beacons[Tip(p)]
    BY <2>1, <2>2 DEF Floor, Aged
  <2>3. CASE p \notin DOMAIN beacons[Tip(p)]
    <3>1. Floor(p) = Lifetime + 1 /\ Floor(p)' = Lifetime + 1
      BY <2>1, <2>3 DEF Floor, Aged
    <3> QED
      BY <2>1, <3>1, <1>1, OlderFacts
  <2> QED
    BY <2>1, <2>2, <2>3
<1>6. \A x, y \in 0 .. Lifetime + 1 : x <= y => Older(x, Lifetime + 1) <= Older(y, Lifetime + 1)
  BY <1>1, OlderFacts
<1>7. ASSUME NEW a \in ASes, NEW p \in DOMAIN segs'[a] PROVE segs'[a][p].info >= Floor(p)'
  <2>1. /\ p \in DOMAIN segs[a] /\ p \in Path /\ segs[a][p].info >= Floor(p)
        /\ segs'[a][p].info = Older(segs[a][p].info, Lifetime + 1)
    BY <1>4 DEF Aged, OrderInv
  <2>2. Older(Floor(p), Lifetime + 1) <= Older(segs[a][p].info, Lifetime + 1)
    <3>1. Floor(p) \in 0 .. Lifetime + 1 /\ segs[a][p].info \in 0 .. Lifetime + 1
      BY <1>4, <1>5, <2>1
    <3>2. Floor(p) <= segs[a][p].info
      BY <1>1, <2>1, <3>1
    <3> QED
      BY <1>6, <3>1, <3>2
  <2>3. Older(Floor(p), Lifetime + 1) \in Nat /\ Older(segs[a][p].info, Lifetime + 1) \in Nat
    BY <1>1, <1>4, <1>5, <2>1, OlderFacts
  <2> QED
    BY <1>5, <2>1, <2>2, <2>3
<1>8. ASSUME NEW d \in calls', ~IsBeacon(d) PROVE d.info >= Floor(d.path)'
  <2>1. PICK c \in calls : d.task = c.task /\ d.path = c.path /\ d.info = Older(c.info, Lifetime + 1)
    BY DEF Aged
  <2>2. c.info >= Floor(c.path) /\ c.path \in Path
    BY <1>2, <1>8, <2>1 DEF OrderInv, IsBeacon
  <2>3. Floor(c.path) \in 0 .. Lifetime + 1 /\ c.info \in 0 .. Lifetime + 1
    BY <1>2, <1>5, <2>2
  <2>4. Older(Floor(c.path), Lifetime + 1) <= Older(c.info, Lifetime + 1)
    <3>1. Floor(c.path) <= c.info
      BY <1>1, <2>2, <2>3
    <3> QED
      BY <1>6, <2>3, <3>1
  <2>5. Older(Floor(c.path), Lifetime + 1) \in Nat /\ Older(c.info, Lifetime + 1) \in Nat
    BY <1>1, <2>3, OlderFacts
  <2>6. Floor(d.path)' = Older(Floor(c.path), Lifetime + 1)
    BY <1>5, <2>1, <2>2
  <2> QED
    BY <2>1, <2>4, <2>5, <2>6
<1>9. ASSUME NEW c \in calls', NEW d \in calls', ~IsBeacon(c), ~IsBeacon(d),
             c.path = d.path, c.sent < d.sent
      PROVE  c.info <= d.info
  <2>1. PICK x \in calls : /\ c.task = x.task /\ c.path = x.path
                           /\ c.info = Older(x.info, Lifetime + 1) /\ c.sent = x.sent + 1
    BY DEF Aged
  <2>2. PICK y \in calls : /\ d.task = y.task /\ d.path = y.path
                           /\ d.info = Older(y.info, Lifetime + 1) /\ d.sent = y.sent + 1
    BY DEF Aged
  <2>3. ~IsBeacon(x) /\ ~IsBeacon(y) /\ x.path = y.path
    BY <1>9, <2>1, <2>2 DEF IsBeacon
  <2>4. x.sent < y.sent
    BY <1>2, <1>9, <2>1, <2>2, Bounds
  <2>5. x.info <= y.info
    BY <2>3, <2>4 DEF OrderInv
  <2> QED
    BY <1>2, <1>6, <2>1, <2>2, <2>5
<1>10. ASSUME NEW d \in calls', NEW a \in ASes, ~IsBeacon(d), d.path \in DOMAIN segs'[a],
              Receiver(d) = a
       PROVE  /\ d.sent < segs'[a][d.path].sig => d.info <= segs'[a][d.path].info
              /\ segs'[a][d.path].sig < d.sent => segs'[a][d.path].info <= d.info
  <2> DEFINE p == d.path
  <2>1. PICK c \in calls : /\ d.task = c.task /\ d.path = c.path
                           /\ d.info = Older(c.info, Lifetime + 1) /\ d.sent = c.sent + 1
    BY DEF Aged
  <2>2. ~IsBeacon(c) /\ Receiver(c) = a
    BY <1>10, <2>1, ReceiverOfSegment DEF IsBeacon
  <2>3. /\ p \in DOMAIN segs[a]
        /\ segs'[a][p].info = Older(segs[a][p].info, Lifetime + 1)
        /\ segs'[a][p].sig = Older(segs[a][p].sig, MaxDelay + 1)
    BY <1>10 DEF Aged
  <2>4. /\ c.sent < segs[a][p].sig => c.info <= segs[a][p].info
        /\ segs[a][p].sig < c.sent => segs[a][p].info <= c.info
    BY <2>1, <2>2, <2>3 DEF OrderInv
  <2>5. /\ segs[a][p].sig \in 0 .. MaxDelay + 1 /\ segs[a][p].info \in 0 .. Lifetime + 1
        /\ c.sent \in 0 .. MaxDelay /\ c.sent + 1 \in 0 .. MaxDelay
        /\ c.info \in 0 .. Lifetime + 1
    BY <1>2, <1>3, <1>4, <2>1, <2>3
  <2> HIDE DEF p
  <2>6. /\ c.sent + 1 < Older(segs[a][p].sig, MaxDelay + 1) => c.sent < segs[a][p].sig
        /\ Older(segs[a][p].sig, MaxDelay + 1) < c.sent + 1 => segs[a][p].sig < c.sent
    BY <2>5, Bounds DEF Older
  <2>7. /\ d.sent < segs'[a][p].sig => d.info <= segs'[a][p].info
        /\ segs'[a][p].sig < d.sent => segs'[a][p].info <= d.info
    BY <1>6, <2>1, <2>3, <2>4, <2>5, <2>6
  <2> QED
    BY <2>7 DEF p
<1> QED
  BY <1>7, <1>8, <1>9, <1>10 DEF OrderInv

\* While time stands still, no database replaces a beacon or a segment by an
\* earlier version, however late or out of order the calls of any number of
\* writers arrive, for every topology, lifetime and delay: the signature of the
\* last AS, which is all the path database compares, orders versions as their info
\* timestamps do.
THEOREM BeaconingNeverOlder == Spec => NeverOlder
<1> DEFINE Kept == \A a \in ASes :
       /\ \A p \in DOMAIN beacons[a] \cap DOMAIN beacons'[a] : beacons'[a][p] <= beacons[a][p]
       /\ \A p \in DOMAIN segs[a] \cap DOMAIN segs'[a] : segs'[a][p].info <= segs[a][p].info
<1>1. BInv /\ OrderInv /\ [Next]_vars => BInv' /\ OrderInv' /\ (Tick \/ Kept)
  <2> SUFFICES ASSUME BInv, OrderInv, [Next]_vars PROVE BInv' /\ OrderInv' /\ (Tick \/ Kept)
    OBVIOUS
  <2>1. BInv'
    BY NextFacts
  <2>2. CASE Tick
    BY <2>1, <2>2, TickStep, TickKeepsOrder
  <2>3. CASE ~Tick
    <3>1. Moves
      BY <2>1, <2>3, StepMoves
    <3> QED
      BY <2>1, <3>1, MovesKeepOrder
  <2> QED
    BY <2>2, <2>3
<1>2. BInv /\ OrderInv /\ [Next]_vars => [Tick \/ Kept]_vars
  BY <1>1
<1> QED
  BY <1>1, <1>2, InitFacts, PTL DEF Spec, NeverOlder

=============================================================================
