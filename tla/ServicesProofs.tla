-------------------------- MODULE ServicesProofs --------------------------
(* Services keeps its types, its registry matches what was added and deleted,  *)
(* and no address that was added is lost to the lookups, for every number of   *)
(* services, addresses, processors and objects.                                *)
EXTENDS Services, SequenceTheorems, WellFoundedInduction, TLAPS

\* TypeOK, and that worker is a function.
Typed == TypeOK /\ DOMAIN worker = Workers

\* The inductive invariant.
SInv == Typed /\ RegistryMatches /\ Backed /\ SentPorts

\* The entries of a list of objects with a host port are the addresses in set, each once.
Lists(list, objects, set) ==
    LET inRange == {i \in DOMAIN list : objects[list[i]].port \in HostPorts}
    IN  /\ {objects[list[i]] : i \in inRange} = {a \in set : a.port \in HostPorts}
        /\ \A i, j \in inRange : objects[list[i]] = objects[list[j]] => i = j

---------------------------------------------------------------------------
(* Lists.                                                                      *)

\* Positions that are not none have a smallest element.
LEMMA SmallestPosition ==
  ASSUME NEW T, T \subseteq Nat, T # {}
  PROVE  \E i \in T : \A j \in T : i <= j
<1> DEFINE R == OpToRel(<, Nat)
<1>1. IsWellFoundedOn(R, Nat)
  BY NatLessThanWellFounded
<1>2. \A x, y \in Nat : x < y => <<x, y>> \in R
  BY DEF OpToRel
<1> HIDE DEF R
<1>3. PICK i \in T : \A j \in T : <<j, i>> \notin R
  BY <1>1, WFMin
<1>4. ASSUME NEW j \in T PROVE i <= j
  <2>1. i \in Nat /\ j \in Nat /\ ~(j < i)
    BY <1>2, <1>3
  <2> QED
    BY <2>1
<1> QED
  BY <1>4

\* The same said of each address and each place.
LEMMA ListsIff ==
    ASSUME NEW list, NEW objects, NEW set
    PROVE  Lists(list, objects, set) <=>
             /\ \A i \in DOMAIN list : objects[list[i]].port \in HostPorts => objects[list[i]] \in set
             /\ \A a \in set : a.port \in HostPorts => \E i \in DOMAIN list : objects[list[i]] = a
             /\ \A i, j \in DOMAIN list : /\ objects[list[i]].port \in HostPorts
                                          /\ objects[list[i]] = objects[list[j]]
                                          => i = j
<1> DEFINE inRange == {i \in DOMAIN list : objects[list[i]].port \in HostPorts}
           have == {objects[list[i]] : i \in inRange}
           wanted == {a \in set : a.port \in HostPorts}
<1>1. have \subseteq wanted <=>
        \A i \in DOMAIN list : objects[list[i]].port \in HostPorts => objects[list[i]] \in set
    OBVIOUS
<1>2. wanted \subseteq have <=>
        \A a \in set : a.port \in HostPorts => \E i \in DOMAIN list : objects[list[i]] = a
    OBVIOUS
<1>3. (\A i, j \in inRange : objects[list[i]] = objects[list[j]] => i = j) <=>
        \A i, j \in DOMAIN list : /\ objects[list[i]].port \in HostPorts
                                  /\ objects[list[i]] = objects[list[j]]
                                  => i = j
    OBVIOUS
<1>4. have = wanted <=> have \subseteq wanted /\ wanted \subseteq have
    OBVIOUS
<1> QED
    BY <1>1, <1>2, <1>3, <1>4 DEF Lists

\* An address that is in the list may be added, one that is not may be deleted.
LEMMA ListsSame ==
    ASSUME NEW list, NEW objects, NEW set, NEW a, Lists(list, objects, set)
    PROVE  /\ (\E i \in DOMAIN list : objects[list[i]] = a) => Lists(list, objects, set \cup {a})
           /\ (\A i \in DOMAIN list : objects[list[i]] # a) => Lists(list, objects, set \ {a})
<1>1. /\ \A i \in DOMAIN list : objects[list[i]].port \in HostPorts => objects[list[i]] \in set
      /\ \A b \in set : b.port \in HostPorts => \E i \in DOMAIN list : objects[list[i]] = b
      /\ \A i, j \in DOMAIN list : /\ objects[list[i]].port \in HostPorts
                                   /\ objects[list[i]] = objects[list[j]]
                                   => i = j
    BY ListsIff
<1>2. ASSUME \E i \in DOMAIN list : objects[list[i]] = a PROVE Lists(list, objects, set \cup {a})
    <2> DEFINE more == set \cup {a}
    <2>1. /\ \A i \in DOMAIN list : objects[list[i]].port \in HostPorts => objects[list[i]] \in more
          /\ \A b \in more : b.port \in HostPorts => \E i \in DOMAIN list : objects[list[i]] = b
        BY <1>1, <1>2
    <2> HIDE DEF more
    <2>2. Lists(list, objects, more)
        BY <1>1, <2>1, ListsIff
    <2> QED
        BY <2>2 DEF more
<1>3. ASSUME \A i \in DOMAIN list : objects[list[i]] # a PROVE Lists(list, objects, set \ {a})
    <2> DEFINE less == set \ {a}
    <2>1. /\ \A i \in DOMAIN list : objects[list[i]].port \in HostPorts => objects[list[i]] \in less
          /\ \A b \in less : b.port \in HostPorts => \E i \in DOMAIN list : objects[list[i]] = b
        BY <1>1, <1>3
    <2> HIDE DEF less
    <2>2. Lists(list, objects, less)
        BY <1>1, <2>1, ListsIff
    <2> QED
        BY <2>2 DEF less
<1> QED
    BY <1>2, <1>3

\* The registry is its lists.
LEMMA RegistryIff == RegistryMatches <=> \A s \in Svc : Lists(m[s], obj, want[s])
BY DEF RegistryMatches, Lists

\* removeAt leaves every element but the one at i, and no element twice.
LEMMA RemoveAtFacts ==
    ASSUME NEW S, NEW list \in Seq(S), NEW i \in DOMAIN list
    PROVE  /\ removeAt(list, i) \in Seq(S)
           /\ DOMAIN removeAt(list, i) = 1 .. Len(list) - 1
           /\ \A k \in 1 .. Len(list) - 1 :
                removeAt(list, i)[k] = list[IF k = i THEN Len(list) ELSE k]
<1>1. Len(list) \in Nat /\ i \in 1 .. Len(list) /\ DOMAIN list = 1 .. Len(list)
    OBVIOUS
<1> DEFINE moved == [list EXCEPT ![i] = list[Len(list)]]
<1>2. moved \in Seq(S) /\ Len(moved) = Len(list)
    <2>1. list[Len(list)] \in S
        BY <1>1
    <2> QED
        BY <1>1, <2>1, ExceptSeq
<1>3. \A k \in 1 .. Len(list) : moved[k] = IF k = i THEN list[Len(list)] ELSE list[k]
    BY <1>1
<1> HIDE DEF moved
<1>4. /\ SubSeq(moved, 1, Len(list) - 1) \in Seq(S)
      /\ Len(SubSeq(moved, 1, Len(list) - 1)) = Len(list) - 1
      /\ \A k \in 1 .. Len(list) - 1 : SubSeq(moved, 1, Len(list) - 1)[k] = moved[k]
    <2>1. \A k \in 1 .. Len(list) - 1 : moved[k] \in S
        BY <1>1, <1>2
    <2> QED
        BY <1>1, <1>2, <2>1, SubSeqProperties
<1>5. removeAt(list, i) = SubSeq(moved, 1, Len(list) - 1)
    BY DEF removeAt, moved
<1> QED
    BY <1>1, <1>3, <1>4, <1>5

\* Where the elements that stay are.
LEMMA RemoveAtKeeps ==
    ASSUME NEW S, NEW list \in Seq(S), NEW i \in DOMAIN list, NEW j \in DOMAIN list, j # i
    PROVE  \E k \in DOMAIN removeAt(list, i) : removeAt(list, i)[k] = list[j]
<1>1. Len(list) \in Nat /\ i \in 1 .. Len(list) /\ j \in 1 .. Len(list)
    OBVIOUS
<1>2. CASE j = Len(list)
    <2>1. i \in 1 .. Len(list) - 1
        BY <1>1, <1>2
    <2> QED
        BY <1>2, <2>1, RemoveAtFacts
<1>3. CASE j # Len(list)
    <2>1. j \in 1 .. Len(list) - 1
        BY <1>1, <1>3
    <2> QED
        BY <2>1, RemoveAtFacts, ZenonT(30)
<1> QED
    BY <1>2, <1>3

---------------------------------------------------------------------------
(* Steps.                                                                      *)

\* An element is appended.
LEMMA AppendFacts ==
    ASSUME NEW S, NEW seq \in Seq(S), NEW e \in S
    PROVE  /\ Append(seq, e) \in Seq(S) /\ DOMAIN seq = 1 .. Len(seq) /\ Len(seq) \in Nat
           /\ Len(Append(seq, e)) = Len(seq) + 1 /\ DOMAIN Append(seq, e) = 1 .. Len(seq) + 1
           /\ \A i \in 1 .. Len(seq) : Append(seq, e)[i] = seq[i]
           /\ Append(seq, e)[Len(seq) + 1] = e
BY AppendProperties

\* AddSvc keeps the registry and the wanted addresses together.
LEMMA AddStep ==
    ASSUME SInv, NEW svc \in Svc, NEW a \in Registered, AddSvc(svc, a)
    PROVE  SInv'
<1> USE DEF SInv
<1>1. /\ want' = [want EXCEPT ![svc] = @ \cup {a}] /\ worker' = worker
      /\ a \in Address /\ obj \in Seq(Address) /\ m \in [Svc -> Seq(DOMAIN obj)]
      /\ want \in [Svc -> SUBSET Registered]
    BY DEF AddSvc, Typed, TypeOK, Registered, Address
<1>2. \A s \in Svc : want'[s] = IF s = svc THEN want[s] \cup {a} ELSE want[s]
    BY <1>1
<1>3. want' \in [Svc -> SUBSET Registered]
    BY <1>1
<1>4. CASE index(a, m[svc]) # {}
    <2>1. m' = m /\ obj' = obj
        BY <1>4 DEF AddSvc
    <2>2. PICK k \in DOMAIN m[svc] : obj[m[svc][k]] = a
        BY <1>4 DEF index
    <2>3. Typed'
        BY <1>1, <1>3, <2>1 DEF Typed, TypeOK
    <2>4. RegistryMatches'
        <3>1. ASSUME NEW s \in Svc PROVE Lists(m'[s], obj', want'[s])
            <4>1. Lists(m[s], obj, want[s])
                BY RegistryIff
            <4>2. CASE s = svc
                <5>1. want'[s] = want[s] \cup {a}
                    BY <1>2, <4>2
                <5>2. \E i \in DOMAIN m[s] : obj[m[s][i]] = a
                    BY <2>2, <4>2
                <5>3. Lists(m[s], obj, want[s] \cup {a})
                    BY <4>1, <5>2, ListsSame
                <5> QED
                    BY <2>1, <5>1, <5>3
            <4>3. CASE s # svc
                BY <1>2, <2>1, <4>1, <4>3
            <4> QED
                BY <4>2, <4>3
        <3> QED
            BY <3>1 DEF RegistryMatches, Lists
    <2>5. Backed'
        <3>1. ASSUME NEW s \in Svc, NEW b \in want'[s]
              PROVE  \E i \in DOMAIN m[s] : obj[m[s][i]] \in {b, Rewritten(b)}
            <4>1. b \in want[s] \/ (s = svc /\ b = a)
                BY <1>2
            <4> QED
                BY <2>2, <4>1 DEF Backed
        <3> QED
            BY <2>1, <3>1 DEF Backed
    <2>6. SentPorts'
        BY <1>1, <2>1 DEF SentPorts
    <2> QED
        BY <2>3, <2>4, <2>5, <2>6
<1>5. CASE index(a, m[svc]) = {}
    <2> DEFINE n == Len(obj) + 1
    <2>1. /\ Len(obj) < MaxObjects /\ obj' = Append(obj, a)
          /\ m' = [m EXCEPT ![svc] = Append(@, n)]
        BY <1>5 DEF AddSvc
    <2>2. /\ obj' \in Seq(Address) /\ DOMAIN obj = 1 .. Len(obj) /\ Len(obj) \in Nat
          /\ Len(obj') = n /\ DOMAIN obj' = 1 .. n
          /\ \A o \in DOMAIN obj : obj'[o] = obj[o]
          /\ obj'[n] = a /\ n \in DOMAIN obj' /\ DOMAIN obj \subseteq DOMAIN obj'
        BY <1>1, <2>1, AppendFacts
    <2>3. \A s \in Svc : /\ m[s] \in Seq(DOMAIN obj) /\ DOMAIN m[s] = 1 .. Len(m[s]) /\ Len(m[s]) \in Nat
                         /\ \A i \in DOMAIN m[s] : m[s][i] \in DOMAIN obj
        BY <1>1
    <2>4. \A s \in Svc : m'[s] = IF s = svc THEN Append(m[s], n) ELSE m[s]
        BY <1>1, <2>1
    <2> HIDE DEF n
    <2>5. ASSUME NEW s \in Svc PROVE m[s] \in Seq(DOMAIN obj')
        BY <2>2, <2>3, SeqMonotonic
    <2>6. /\ m'[svc] \in Seq(DOMAIN obj') /\ DOMAIN m'[svc] = 1 .. Len(m[svc]) + 1
          /\ \A i \in DOMAIN m[svc] : m'[svc][i] = m[svc][i]
          /\ m'[svc][Len(m[svc]) + 1] = n
        <3>1. m'[svc] = Append(m[svc], n) /\ n \in DOMAIN obj' /\ m[svc] \in Seq(DOMAIN obj')
            BY <2>2, <2>4, <2>5
        <3> DEFINE D == DOMAIN obj'
        <3>2. n \in D /\ m[svc] \in Seq(D)
            BY <3>1
        <3> HIDE DEF D
        <3>3. /\ Append(m[svc], n) \in Seq(D) /\ DOMAIN m[svc] = 1 .. Len(m[svc])
              /\ DOMAIN Append(m[svc], n) = 1 .. Len(m[svc]) + 1
              /\ \A i \in 1 .. Len(m[svc]) : Append(m[svc], n)[i] = m[svc][i]
              /\ Append(m[svc], n)[Len(m[svc]) + 1] = n
            BY <3>2, AppendFacts
        <3> QED
            BY <3>1, <3>3 DEF D
    <2>7. Typed'
        <3>1. m' \in [Svc -> Seq(DOMAIN obj')]
            BY <1>1, <2>1, <2>4, <2>5, <2>6
        <3>2. Len(obj') <= MaxObjects
            BY <2>1, <2>2, ServicesAssumption DEF n
        <3>3. \A w \in Workers :
                \/ worker'[w] \in [at : {"idle"}] \cup [at : {"none"}, svc : Svc]
                \/ worker'[w] \in [at : {"port", "sent"}, svc : Svc, obj : DOMAIN obj']
            BY <1>1, <2>2 DEF Typed, TypeOK
        <3> QED
            BY <1>1, <1>3, <2>2, <3>1, <3>2, <3>3 DEF Typed, TypeOK
    <2>8. RegistryMatches'
        <3>1. ASSUME NEW s \in Svc, s # svc PROVE Lists(m'[s], obj', want'[s])
            <4>1. Lists(m[s], obj, want[s])
                BY RegistryIff
            <4>2. Lists(m[s], obj', want[s])
                BY <2>2, <2>3, <4>1, ListsIff
            <4> QED
                BY <1>2, <2>4, <3>1, <4>2
        <3>2. Lists(m'[svc], obj', want'[svc])
            <4>1. /\ \A i \in DOMAIN m[svc] : obj[m[svc][i]].port \in HostPorts => obj[m[svc][i]] \in want[svc]
                  /\ \A b \in want[svc] : b.port \in HostPorts => \E i \in DOMAIN m[svc] : obj[m[svc][i]] = b
                  /\ \A i, j \in DOMAIN m[svc] : /\ obj[m[svc][i]].port \in HostPorts
                                                 /\ obj[m[svc][i]] = obj[m[svc][j]]
                                                 => i = j
                <5>1. Lists(m[svc], obj, want[svc])
                    BY RegistryIff
                <5> QED
                    BY <5>1, ListsIff
            <4>2. \A i \in DOMAIN m[svc] : obj'[m'[svc][i]] = obj[m[svc][i]] /\ obj[m[svc][i]] # a
                BY <1>5, <2>2, <2>3, <2>6 DEF index
            <4>3. obj'[m'[svc][Len(m[svc]) + 1]] = a
                BY <2>2, <2>6
            <4>4. DOMAIN m'[svc] = DOMAIN m[svc] \cup {Len(m[svc]) + 1}
                BY <2>3, <2>6
            <4>0. want'[svc] = want[svc] \cup {a}
                BY <1>2
            <4>5. \A i \in DOMAIN m'[svc] : obj'[m'[svc][i]].port \in HostPorts => obj'[m'[svc][i]] \in want'[svc]
                BY <4>0, <4>1, <4>2, <4>3, <4>4
            <4>6. \A b \in want'[svc] : b.port \in HostPorts => \E i \in DOMAIN m'[svc] : obj'[m'[svc][i]] = b
                BY <4>0, <4>1, <4>2, <4>3, <4>4
            <4>7. \A i, j \in DOMAIN m'[svc] : /\ obj'[m'[svc][i]].port \in HostPorts
                                               /\ obj'[m'[svc][i]] = obj'[m'[svc][j]]
                                               => i = j
                BY <4>1, <4>2, <4>3, <4>4
            <4> QED
                BY <4>5, <4>6, <4>7, ListsIff
        <3> QED
            BY <3>1, <3>2 DEF RegistryMatches, Lists
    <2>9. Backed'
        <3>1. ASSUME NEW s \in Svc, NEW b \in want'[s]
              PROVE  \E i \in DOMAIN m'[s] : obj'[m'[s][i]] \in {b, Rewritten(b)}
            <4>1. CASE s = svc /\ b = a
                BY <2>2, <2>3, <2>6, <4>1
            <4>2. CASE b \in want[s]
                <5>1. PICK i \in DOMAIN m[s] : obj[m[s][i]] \in {b, Rewritten(b)}
                    BY <4>2 DEF Backed
                <5>2. i \in DOMAIN m'[s] /\ m'[s][i] = m[s][i]
                    <6>1. CASE s = svc
                        <7>1. i \in 1 .. Len(m[svc]) /\ Len(m[svc]) \in Nat
                            BY <2>3, <6>1
                        <7> QED
                            BY <2>6, <6>1, <7>1
                    <6>2. CASE s # svc
                        BY <2>4, <6>2
                    <6> QED
                        BY <6>1, <6>2
                <5>3. obj'[m[s][i]] = obj[m[s][i]]
                    BY <2>2, <2>3
                <5> QED
                    BY <5>1, <5>2, <5>3
            <4> QED
                BY <1>2, <4>1, <4>2
        <3> QED
            BY <3>1 DEF Backed
    <2>10. SentPorts'
        <3>1. \A w \in Workers : worker[w].at = "sent" => worker[w].obj \in DOMAIN obj
            BY DEF Typed, TypeOK
        <3> QED
            BY <1>1, <2>2, <3>1 DEF SentPorts
    <2> QED
        BY <2>7, <2>8, <2>9, <2>10
<1> QED
    BY <1>4, <1>5

\* DelSvc removes the one registered address that is no longer wanted.
LEMMA DelStep ==
    ASSUME SInv, NEW svc \in Svc, NEW a \in Registered, DelSvc(svc, a)
    PROVE  SInv'
<1> USE DEF SInv
<1> DEFINE found == index(a, m[svc])
           first == CHOOSE i \in found : \A j \in found : i <= j
<1>1. /\ want' = [want EXCEPT ![svc] = @ \ {a}] /\ worker' = worker /\ obj' = obj
      /\ m' = IF found = {} THEN m ELSE [m EXCEPT ![svc] = removeAt(@, first)]
      /\ obj \in Seq(Address) /\ m \in [Svc -> Seq(DOMAIN obj)]
      /\ want \in [Svc -> SUBSET Registered]
    BY DEF DelSvc, Typed, TypeOK
<1>2. \A s \in Svc : want'[s] = IF s = svc THEN want[s] \ {a} ELSE want[s]
    BY <1>1
<1>3. want' \in [Svc -> SUBSET Registered]
    BY <1>1
<1>4. \A s \in Svc : Lists(m[s], obj, want[s])
    BY RegistryIff
<1>5. SentPorts'
    BY <1>1 DEF SentPorts
<1>6. CASE found = {}
    <2>1. m' = m
        BY <1>1, <1>6
    <2>2. \A i \in DOMAIN m[svc] : obj[m[svc][i]] # a
        BY <1>6 DEF index
    <2>3. Typed'
        BY <1>1, <1>3, <2>1 DEF Typed, TypeOK
    <2>4. RegistryMatches'
        <3>1. ASSUME NEW s \in Svc PROVE Lists(m'[s], obj', want'[s])
            <4>1. CASE s = svc
                <5>1. want'[s] = want[s] \ {a}
                    BY <1>2, <4>1
                <5> QED
                    BY <1>1, <1>4, <2>1, <2>2, <4>1, <5>1, ListsSame
            <4>2. CASE s # svc
                BY <1>1, <1>2, <1>4, <2>1, <4>2
            <4> QED
                BY <4>1, <4>2
        <3> QED
            BY <3>1 DEF RegistryMatches, Lists
    <2>5. Backed'
        BY <1>1, <1>2, <2>1 DEF Backed
    <2> QED
        BY <1>5, <2>3, <2>4, <2>5
<1>7. CASE found # {}
    <2>1. first \in found
        <3>1. found \subseteq Nat
            BY <1>1 DEF index
        <3>2. \E i \in found : \A j \in found : i <= j
            <4> HIDE DEF found
            <4> QED
                BY <1>7, <3>1, SmallestPosition
        <3> HIDE DEF found
        <3> QED
            BY <3>2
    <2>2. first \in DOMAIN m[svc] /\ obj[m[svc][first]] = a
        BY <2>1 DEF index
    <2>3. \A s \in Svc : m'[s] = IF s = svc THEN removeAt(m[s], first) ELSE m[s]
        BY <1>1, <1>7
    <2> HIDE DEF first, found
    <2>4. /\ m[svc] \in Seq(DOMAIN obj) /\ Len(m[svc]) \in Nat /\ DOMAIN m[svc] = 1 .. Len(m[svc])
        BY <1>1
    <2>5. /\ m'[svc] \in Seq(DOMAIN obj) /\ DOMAIN m'[svc] = 1 .. Len(m[svc]) - 1
          /\ \A k \in DOMAIN m'[svc] : m'[svc][k] = m[svc][IF k = first THEN Len(m[svc]) ELSE k]
        <3>1. m'[svc] = removeAt(m[svc], first)
            BY <2>3
        <3> DEFINE D == DOMAIN obj
        <3>2. m[svc] \in Seq(D)
            BY <2>4
        <3> HIDE DEF D
        <3>3. /\ removeAt(m[svc], first) \in Seq(D)
              /\ DOMAIN removeAt(m[svc], first) = 1 .. Len(m[svc]) - 1
              /\ \A k \in 1 .. Len(m[svc]) - 1 :
                   removeAt(m[svc], first)[k] = m[svc][IF k = first THEN Len(m[svc]) ELSE k]
            BY <2>2, <3>2, RemoveAtFacts
        <3> QED
            BY <3>1, <3>3 DEF D
    <2>6. \A j \in DOMAIN m[svc] : j # first => \E k \in DOMAIN m'[svc] : m'[svc][k] = m[svc][j]
        BY <2>2, <2>3, <2>4, RemoveAtKeeps
    <2>7. Typed'
        <3>1. m' \in [Svc -> Seq(DOMAIN obj)]
            BY <1>1, <1>7, <2>3, <2>5
        <3> QED
            BY <1>1, <1>3, <3>1 DEF Typed, TypeOK
    <2>8. RegistryMatches'
        <3>1. /\ \A i \in DOMAIN m[svc] : obj[m[svc][i]].port \in HostPorts => obj[m[svc][i]] \in want[svc]
              /\ \A b \in want[svc] : b.port \in HostPorts => \E i \in DOMAIN m[svc] : obj[m[svc][i]] = b
              /\ \A i, j \in DOMAIN m[svc] : /\ obj[m[svc][i]].port \in HostPorts
                                             /\ obj[m[svc][i]] = obj[m[svc][j]]
                                             => i = j
            BY <1>4, ListsIff
        <3>2. ASSUME NEW k \in DOMAIN m'[svc]
              PROVE  LET j == IF k = first THEN Len(m[svc]) ELSE k
                     IN  j \in DOMAIN m[svc] /\ j # first /\ m'[svc][k] = m[svc][j]
            BY <2>2, <2>4, <2>5
        <3>3. \A k \in DOMAIN m'[svc] : obj[m'[svc][k]].port \in HostPorts => obj[m'[svc][k]] \in want'[svc]
            <4>1. ASSUME NEW k \in DOMAIN m'[svc], obj[m'[svc][k]].port \in HostPorts
                  PROVE  obj[m'[svc][k]] \in want'[svc]
                <5>1. PICK j \in DOMAIN m[svc] : j # first /\ m'[svc][k] = m[svc][j]
                    BY <3>2
                <5>2. obj[m[svc][j]] \in want[svc] /\ obj[m[svc][j]] # a
                    BY <2>2, <3>1, <4>1, <5>1
                <5> QED
                    BY <1>2, <5>1, <5>2
            <4> QED
                BY <4>1
        <3>4. \A b \in want'[svc] : b.port \in HostPorts => \E k \in DOMAIN m'[svc] : obj[m'[svc][k]] = b
            <4>1. ASSUME NEW b \in want'[svc], b.port \in HostPorts
                  PROVE  \E k \in DOMAIN m'[svc] : obj[m'[svc][k]] = b
                <5>1. b \in want[svc] /\ b # a
                    BY <1>2
                <5>2. PICK j \in DOMAIN m[svc] : obj[m[svc][j]] = b
                    BY <3>1, <4>1, <5>1
                <5> QED
                    BY <2>2, <2>6, <5>1, <5>2
            <4> QED
                BY <4>1
        <3>5. \A k, l \in DOMAIN m'[svc] : /\ obj[m'[svc][k]].port \in HostPorts
                                           /\ obj[m'[svc][k]] = obj[m'[svc][l]]
                                           => k = l
            <4>1. ASSUME NEW k \in DOMAIN m'[svc], NEW l \in DOMAIN m'[svc],
                         obj[m'[svc][k]].port \in HostPorts, obj[m'[svc][k]] = obj[m'[svc][l]]
                  PROVE  k = l
                <5> DEFINE At(i) == IF i = first THEN Len(m[svc]) ELSE i
                <5>1. /\ At(k) \in DOMAIN m[svc] /\ m'[svc][k] = m[svc][At(k)]
                      /\ At(l) \in DOMAIN m[svc] /\ m'[svc][l] = m[svc][At(l)]
                    BY <3>2
                <5>2. At(k) = At(l)
                    <6> HIDE DEF At
                    <6> QED
                        BY <3>1, <4>1, <5>1
                <5>3. k # Len(m[svc]) /\ l # Len(m[svc])
                    BY <2>4, <2>5
                <5> QED
                    BY <5>2, <5>3
            <4> QED
                BY <4>1
        <3>6. Lists(m'[svc], obj, want'[svc])
            BY <3>3, <3>4, <3>5, ListsIff
        <3>7. \A s \in Svc : Lists(m'[s], obj', want'[s])
            BY <1>1, <1>2, <1>4, <2>3, <3>6
        <3> QED
            BY <3>7 DEF RegistryMatches, Lists
    <2>9. Backed'
        <3>1. ASSUME NEW s \in Svc, NEW b \in want'[s]
              PROVE  \E i \in DOMAIN m'[s] : obj[m'[s][i]] \in {b, Rewritten(b)}
            <4>1. b \in want[s] /\ (s = svc => b # a)
                BY <1>2
            <4>2. PICK j \in DOMAIN m[s] : obj[m[s][j]] \in {b, Rewritten(b)}
                BY <4>1 DEF Backed
            <4>3. CASE s # svc
                BY <2>3, <4>2, <4>3
            <4>4. CASE s = svc
                <5>1. a # Rewritten(b)
                    BY ServicesAssumption DEF Registered, Rewritten
                <5>2. j # first
                    BY <2>2, <4>1, <4>2, <4>4, <5>1
                <5> QED
                    BY <2>6, <4>2, <4>4, <5>2
            <4> QED
                BY <4>3, <4>4
        <3> QED
            BY <1>1, <3>1 DEF Backed
    <2> QED
        BY <1>5, <2>7, <2>8, <2>9
<1> QED
    BY <1>6, <1>7

\* A lookup and the port it writes afterwards keep the invariant.
LEMMA AnyStep ==
    ASSUME SInv, NEW svc \in Svc, NEW w \in Workers, Any(w, svc)
    PROVE  SInv'
<1> USE DEF SInv
<1>1. m' = m /\ obj' = obj /\ want' = want
    BY DEF Any
<1>2. PICK v \in {NoBackend(svc)} \cup {Holding(svc, m[svc][i]) : i \in DOMAIN m[svc]} :
        worker' = [worker EXCEPT ![w] = v]
    BY DEF Any
<1>3. /\ v.at # "sent"
      /\ \/ v \in [at : {"none"}, svc : Svc]
         \/ v \in [at : {"port", "sent"}, svc : Svc, obj : DOMAIN obj]
    <2>1. \A i \in DOMAIN m[svc] : m[svc][i] \in DOMAIN obj
        BY DEF Typed, TypeOK
    <2> QED
        BY <1>2, <2>1 DEF NoBackend, Holding
<1>4. \A u \in Workers : worker'[u] = IF u = w THEN v ELSE worker[u]
    BY <1>2 DEF Typed
<1>5. Typed'
    BY <1>1, <1>2, <1>3, <1>4 DEF Typed, TypeOK
<1>6. RegistryMatches' /\ Backed'
    BY <1>1 DEF RegistryMatches, Backed
<1>7. SentPorts'
    BY <1>1, <1>3, <1>4 DEF SentPorts
<1> QED
    BY <1>5, <1>6, <1>7

\* A lookup leaves an object as it is, or gives one without a host port the fixed port.
LEMMA ResolveStep ==
    ASSUME SInv, NEW w \in Workers, resolveLocalDst(w)
    PROVE  SInv'
<1> USE DEF SInv
<1> DEFINE o == worker[w].obj
           new == [obj[o] EXCEPT !.port = IF obj[o].port \in Dispatched THEN obj[o].port ELSE EndhostPort]
<1>1. /\ m' = m /\ want' = want /\ worker[w].at = "port"
      /\ worker' = [worker EXCEPT ![w] = Resolved(worker[w].svc, o)]
    BY DEF resolveLocalDst
<1>2. worker[w].svc \in Svc /\ o \in DOMAIN obj
    BY <1>1 DEF Typed, TypeOK
<1>3. obj' = [obj EXCEPT ![o] = new]
    BY DEF resolveLocalDst
<1>4. obj[o] \in Address /\ obj \in Seq(Address)
    BY <1>2 DEF Typed, TypeOK
<1>5. /\ new \in Address /\ new.port \in Dispatched \cup {EndhostPort}
      /\ obj[o].port \in Dispatched => new = obj[o]
      /\ obj[o].port \notin Dispatched => new = Rewritten(obj[o]) /\ new.port = EndhostPort
    <2>1. new = [ip |-> obj[o].ip, port |-> IF obj[o].port \in Dispatched THEN obj[o].port ELSE EndhostPort]
        BY <1>4 DEF Address
    <2>2. obj[o] = [ip |-> obj[o].ip, port |-> obj[o].port] /\ obj[o].ip \in IPs
          /\ obj[o].port \in Ports \cup {EndhostPort}
        BY <1>4 DEF Address
    <2> HIDE DEF new, o
    <2> QED
        BY <2>1, <2>2 DEF Address, Rewritten
<1> HIDE DEF new, o
<1>6. \A x \in DOMAIN obj : obj'[x] = IF x = o THEN new ELSE obj[x]
    BY <1>3
<1>7. obj' \in Seq(Address) /\ Len(obj') = Len(obj) /\ DOMAIN obj' = DOMAIN obj
    <2>1. Len(obj) \in Nat /\ DOMAIN obj = 1 .. Len(obj)
        BY <1>4
    <2> QED
        BY <1>2, <1>3, <1>4, <1>5, <2>1, ExceptSeq
<1>8. \A u \in Workers : worker'[u] = IF u = w THEN Resolved(worker[w].svc, o) ELSE worker[u]
    BY <1>1 DEF Typed
<1>9. Resolved(worker[w].svc, o) \in [at : {"port", "sent"}, svc : Svc, obj : DOMAIN obj]
    BY <1>2 DEF Resolved
<1>10. Typed'
    BY <1>1, <1>7, <1>8, <1>9 DEF Typed, TypeOK
<1>11. \A x \in DOMAIN obj : /\ obj[x].port \in HostPorts => obj'[x] = obj[x]
                             /\ obj'[x].port \in HostPorts => obj'[x] = obj[x]
    BY <1>5, <1>6 DEF HostPorts
<1>12. \A s \in Svc : \A i \in DOMAIN m[s] : m[s][i] \in DOMAIN obj
    BY DEF Typed, TypeOK
<1>13. RegistryMatches'
    <2>1. ASSUME NEW s \in Svc PROVE Lists(m[s], obj', want[s])
        <3>1. Lists(m[s], obj, want[s])
            BY RegistryIff
        <3>2. \A i \in DOMAIN m[s] : /\ obj[m[s][i]].port \in HostPorts => obj'[m[s][i]] = obj[m[s][i]]
                                     /\ obj'[m[s][i]].port \in HostPorts => obj'[m[s][i]] = obj[m[s][i]]
            BY <1>11, <1>12
        <3> QED
            BY <3>1, <3>2, ListsIff
    <2> QED
        BY <1>1, <2>1 DEF RegistryMatches, Lists
<1>14. Backed'
    <2>1. ASSUME NEW s \in Svc, NEW b \in want[s], NEW i \in DOMAIN m[s],
                 obj[m[s][i]] \in {b, Rewritten(b)}
          PROVE  obj'[m[s][i]] \in {b, Rewritten(b)}
        <3>1. obj'[m[s][i]] \in {obj[m[s][i]], Rewritten(obj[m[s][i]])}
            BY <1>5, <1>6, <1>12
        <3>2. Rewritten(Rewritten(b)) = Rewritten(b)
            BY DEF Rewritten
        <3> QED
            BY <2>1, <3>1, <3>2
    <2> QED
        BY <1>1, <2>1 DEF Backed
<1>15. SentPorts'
    <2>1. ASSUME NEW u \in Workers, worker'[u].at = "sent"
          PROVE  obj'[worker'[u].obj].port \in Dispatched \cup {EndhostPort}
        <3>1. CASE u = w
            BY <1>2, <1>5, <1>6, <1>8, <3>1 DEF Resolved
        <3>2. CASE u # w
            <4>1. worker[u].at = "sent" /\ worker'[u] = worker[u] /\ worker[u].obj \in DOMAIN obj
                BY <1>8, <2>1, <3>2 DEF Typed, TypeOK
            <4> QED
                BY <1>5, <1>6, <4>1 DEF SentPorts
        <3> QED
            BY <3>1, <3>2
    <2> QED
        BY <2>1 DEF SentPorts
<1> QED
    BY <1>10, <1>13, <1>14, <1>15

---------------------------------------------------------------------------
(* Theorems.                                                                   *)

\* The registry starts empty.
LEMMA InitFacts == Init => SInv
<1> SUFFICES ASSUME Init PROVE SInv
    OBVIOUS
<1> USE DEF Init
<1>1. Typed
    BY ServicesAssumption DEF Typed, TypeOK, Idle
<1>2. RegistryMatches /\ Backed
    BY DEF RegistryMatches, Backed
<1>3. SentPorts
    BY DEF SentPorts, Idle
<1> QED
    BY <1>1, <1>2, <1>3 DEF SInv

\* Every step keeps the invariant.
LEMMA NextFacts == SInv /\ [Next]_vars => SInv'
<1> SUFFICES ASSUME SInv, [Next]_vars PROVE SInv'
    OBVIOUS
<1>1. CASE UNCHANGED vars
    BY <1>1 DEF vars, SInv, Typed, TypeOK, RegistryMatches, Backed, SentPorts
<1>2. ASSUME NEW svc \in Svc, NEW a \in Registered, AddSvc(svc, a) \/ DelSvc(svc, a) PROVE SInv'
    BY <1>2, AddStep, DelStep
<1>3. ASSUME NEW w \in Workers, resolveLocalDst(w) \/ \E svc \in Svc : Any(w, svc) PROVE SInv'
    BY <1>3, ResolveStep, AnyStep
<1> QED
    BY <1>1, <1>2, <1>3 DEF Next

\* The lists only hold objects that exist, and so do the processors.
THEOREM ServicesTypeOK == Spec => []TypeOK
BY InitFacts, NextFacts, PTL DEF Spec, SInv, Typed

\* The addresses with a host port in the registry are those added and not deleted
\* since, each once, for every interleaving of updates with lookups that change
\* the ports of others.
THEOREM ServicesRegistryMatches == Spec => []RegistryMatches
BY InitFacts, NextFacts, PTL DEF Spec, SInv

\* Every address that was added and not deleted stays in the list of its service, as
\* it was added or with the fixed port, and what a lookup returns keeps a port that
\* an end host listens at.
THEOREM ServicesStillResolvable == Spec => []StillResolvable
BY InitFacts, NextFacts, PTL DEF Spec, SInv, StillResolvable
=============================================================================
