-------------------------- MODULE BFDSessionProofs --------------------------
(***************************************************************************)
(* Type correctness of BFDSession and the handshake invariant, for every    *)
(* choice of the parameters of the two sessions.                            *)
(***************************************************************************)
EXTENDS BFDSession, TLAPS

\* The link has two ends, each the peer of the other.
LEMMA PeerFacts ==
    ASSUME NEW n \in Nodes
    PROVE  Peer(n) \in Nodes /\ Peer(n) # n /\ Peer(Peer(n)) = n
<1>1. PICK x, y \in Nodes : x # y /\ Nodes = {x, y}
  BY NodesAssumption
<1>2. \A k \in Nodes : \E p \in Nodes : p # k
  BY <1>1
<1>3. \A k \in Nodes : Peer(k) \in Nodes /\ Peer(k) # k
  BY <1>2 DEF Peer
<1> QED
  BY <1>1, <1>3

\* The next send interval is a natural number.
LEMMA IntervalType ==
    ASSUME NEW tx \in Nat, NEW rx \in Nat, NEW mult \in Nat
    PROVE  computeNextSendInterval(tx, rx, mult) \subseteq Nat
<1>1. ASSUME NEW i \in Nat, NEW j \in 0..24 PROVE (i * (100 - j)) \div 100 \in Nat
  <2>1. i * (100 - j) \in Nat
    BY <1>1
  <2> QED
    BY <2>1
<1>2. Larger(tx, rx) \in Nat
  BY DEF Larger
<1> QED
  BY <1>1, <1>2 DEF computeNextSendInterval, computeInterval

\* The state machine stays within its states, and a timer never leads to Init or Up.
LEMMA TransitionFacts ==
    ASSUME NEW s \in State, NEW e \in Event
    PROVE  /\ transition(s, e) \in State
           /\ transition(s, "Timer") \in {"AdminDown", "Down"}
  BY DEF transition, State, Event

-----------------------------------------------------------------------------
\* What a control packet on its way to node n, or waiting in its queue, carries.
GoodMessage(m, n) ==
    /\ m.mult > 0
    /\ m.my \in 1..disc[Peer(n)]
    /\ m.your \in 0..disc[n]
    /\ m.state \in {"Init", "Up"} => m.your > 0

\* The conjuncts of the inductive invariant: a running session has a discriminator;
\* the one it knows of its peer is one the peer has used, and it knows one unless it
\* is down; every packet is good, whether on the link or queued.
DiscUsed == \A n \in Nodes : running[n] => disc[n] > 0
RemoteUsed == \A n \in Nodes : remoteDisc[n] \in 0..disc[Peer(n)]
RemoteKnown == \A n \in Nodes : localState[n] \in {"Init", "Up"} => remoteDisc[n] > 0
LinkGood == \A n \in Nodes : \A i \in DOMAIN link[n] : GoodMessage(link[n][i], n)
QueueGood == \A n \in Nodes : \A i \in DOMAIN messages[n] : GoodMessage(messages[n][i], n)

\* The inductive invariant.
Inv ==
    /\ TypeOK
    /\ DiscUsed
    /\ RemoteUsed
    /\ RemoteKnown
    /\ LinkGood
    /\ QueueGood

\* The invariant implies the property.
LEMMA InvHandshake == Inv => HandshakeGrounded
<1> SUFFICES ASSUME Inv PROVE HandshakeGrounded
  OBVIOUS
<1>1. Bootstrapped
  BY PeerFacts, SMTT(30) DEF Inv, TypeOK, Bootstrapped, RemoteUsed, RemoteKnown
<1>2. ASSUME NEW n \in Nodes, NEW i \in DOMAIN link[n]
      PROVE  /\ ~shouldDiscard(link[n][i])
             /\ link[n][i].state \in {"Init", "Up"} => link[n][i].your \in 1..disc[n]
  <2>1. GoodMessage(link[n][i], n) /\ link[n][i] \in Message
    BY <1>2 DEF Inv, TypeOK, LinkGood
  <2>2. Peer(n) \in Nodes
    BY PeerFacts
  <2>3. disc[n] \in Nat /\ disc[Peer(n)] \in Nat
    BY <2>2 DEF Inv, TypeOK
  <2>4. \A m \in Message : /\ m.state \in State
                           /\ m.mult \in Nat /\ m.my \in Nat /\ m.your \in Nat
    BY DEF Message
  <2> QED
    BY <2>1, <2>3, <2>4 DEF GoodMessage, shouldDiscard, State
<1> QED
  BY <1>1, <1>2 DEF HandshakeGrounded

\* No session has run and no packet was sent at the start.
LEMMA InitInv == Init => Inv
  BY ParametersAssumption, PeerFacts
  DEF Init, Inv, TypeOK, State, DiscUsed, RemoteUsed, RemoteKnown, LinkGood, QueueGood

\* Packets stay good when the discriminators of the sessions grow.
LEMMA GoodMessageMonotone ==
    ASSUME TypeOK, TypeOK', NEW n \in Nodes, NEW m \in Message, GoodMessage(m, n),
           \A k \in Nodes : disc'[k] >= disc[k]
    PROVE  GoodMessage(m, n)'
<1>1. Peer(n) \in Nodes
  BY PeerFacts
<1>2. m.my \in Nat /\ m.your \in Nat
  BY DEF Message
<1>3. \A k \in Nodes : disc[k] \in Nat /\ disc'[k] \in Nat
  BY DEF TypeOK
<1> QED
  BY <1>1, <1>2, <1>3 DEF GoodMessage

\* A queue holds after Tail what it held before, and after Append one more packet.
LEMMA QueueFacts ==
    ASSUME NEW S, NEW q \in Seq(S), NEW m \in S
    PROVE  /\ Append(q, m) \in Seq(S)
           /\ \A i \in DOMAIN Append(q, m) :
                Append(q, m)[i] = m \/ (i \in DOMAIN q /\ Append(q, m)[i] = q[i])
           /\ q # <<>> => /\ Tail(q) \in Seq(S)
                          /\ Head(q) \in S
                          /\ 1 \in DOMAIN q /\ Head(q) = q[1]
                          /\ \A i \in DOMAIN Tail(q) :
                               i + 1 \in DOMAIN q /\ Tail(q)[i] = q[i + 1]
  OBVIOUS

\* A packet that a session sends is typed.
LEMMA SentMessage ==
    ASSUME TypeOK, NEW n \in Nodes, NEW st \in State, NEW tx \in Nat
    PROVE  [state |-> st, mult |-> DetectMult[n], my |-> disc[n],
            your |-> remoteDisc[n], tx |-> tx, rx |-> RequiredMinRx[n]] \in Message
  BY ParametersAssumption DEF TypeOK, Message

-----------------------------------------------------------------------------
\* Every step keeps the types.
LEMMA NextTypeOK == TypeOK /\ [Next]_vars => TypeOK'
<1> SUFFICES ASSUME TypeOK, [Next]_vars PROVE TypeOK'
  OBVIOUS
<1> USE ParametersAssumption
<1>0. \A n \in Nodes : Peer(n) \in Nodes
  BY PeerFacts
<1>1. ASSUME NEW n \in Nodes, SendTimerFires(n) PROVE TypeOK'
  <2>1. computeNextSendInterval(desiredTx[n], remoteMinRx[n], DetectMult[n]) \subseteq Nat
    BY IntervalType DEF TypeOK
  <2>2. sendTimer' \in [Nodes -> Nat]
    BY <1>1, <2>1 DEF SendTimerFires, TypeOK
  <2>3. link' \in [Nodes -> Seq(Message)]
    <3>1. localState[n] \in State /\ desiredTx[n] \in Nat /\ link[Peer(n)] \in Seq(Message)
      BY <1>0 DEF TypeOK
    <3>2. [state |-> localState[n], mult |-> DetectMult[n], my |-> disc[n],
           your |-> remoteDisc[n], tx |-> desiredTx[n], rx |-> RequiredMinRx[n]] \in Message
      BY <3>1, SentMessage
    <3> QED
      BY <1>0, <1>1, <3>1, <3>2 DEF SendTimerFires, Send, TypeOK
  <2> QED
    BY <1>1, <2>2, <2>3 DEF SendTimerFires, TypeOK
<1>2. ASSUME NEW n \in Nodes, DetectionTimerFires(n) PROVE TypeOK'
  <2>1. transition(localState[n], "Timer") \in State
    BY TransitionFacts DEF TypeOK, Event
  <2> QED
    BY <1>2, <2>1 DEF DetectionTimerFires, TypeOK
<1>3. ASSUME NEW n \in Nodes, ProcessMessage(n) PROVE TypeOK'
  <2> DEFINE m == Head(messages[n])
  <2>1. messages[n] \in Seq(Message) /\ messages[n] # <<>>
    BY <1>3 DEF ProcessMessage, TypeOK
  <2>2. m \in Message /\ Tail(messages[n]) \in Seq(Message)
    BY <2>1
  <2>3. /\ m.state \in State /\ m.my \in Nat /\ m.rx \in Nat
        /\ m.mult \in Nat /\ m.tx \in Nat
    BY <2>2 DEF Message
  <2>4. transition(localState[n], m.state) \in State
    BY <2>3, TransitionFacts DEF TypeOK, Event
  <2>5. DetectionTime(n, m) \in Nat
    BY <2>3 DEF DetectionTime, Larger
  <2>6. computeNextSendInterval(DesiredMinTx[n], m.rx, DetectMult[n]) \subseteq Nat
    BY <2>3, IntervalType
  <2> HIDE DEF m
  <2>7. sendTimer' \in [Nodes -> Nat]
    BY <1>3, <2>6 DEF ProcessMessage, TypeOK, m
  <2>8. heardPeer' \in [Nodes -> BOOLEAN]
    BY <1>3 DEF ProcessMessage, TypeOK
  <2>9. /\ detectTimer' \in [Nodes -> Nat]
        /\ localState' \in [Nodes -> State]
        /\ messages' \in [Nodes -> Seq(Message)]
    BY <1>3, <2>2, <2>4, <2>5 DEF ProcessMessage, TypeOK, m
  <2>10. /\ remoteState' \in [Nodes -> State]
         /\ remoteDisc' \in [Nodes -> Nat]
         /\ desiredTx' \in [Nodes -> Nat]
         /\ remoteMinRx' \in [Nodes -> Nat]
         /\ missed' \in [Nodes -> Nat]
    BY <1>3, <2>3 DEF ProcessMessage, TypeOK, m
  <2> QED
    BY <1>3, <2>7, <2>8, <2>9, <2>10 DEF ProcessMessage, TypeOK
<1>4. ASSUME NEW n \in Nodes, ReceiveMessage(n) PROVE TypeOK'
  <2>1. link[n] # <<>> /\ link[n] \in Seq(Message) /\ messages[n] \in Seq(Message)
    BY <1>4 DEF ReceiveMessage, TypeOK
  <2>2. /\ Tail(link[n]) \in Seq(Message)
        /\ Append(messages[n], Head(link[n])) \in Seq(Message)
    BY <2>1
  <2>3. link' \in [Nodes -> Seq(Message)] /\ messages' \in [Nodes -> Seq(Message)]
    BY <1>4, <2>2, ZenonT(30) DEF ReceiveMessage, TypeOK
  <2> QED
    BY <1>4, <2>3 DEF ReceiveMessage, TypeOK
<1>5. ASSUME NEW n \in Nodes, NoSession(n) PROVE TypeOK'
  <2>1. link[n] # <<>> /\ link[n] \in Seq(Message)
    BY <1>5 DEF NoSession, TypeOK
  <2>2. Tail(link[n]) \in Seq(Message)
    BY <2>1
  <2>3. link' \in [Nodes -> Seq(Message)]
    BY <1>5, <2>2 DEF NoSession, TypeOK
  <2> QED
    BY <1>5, <2>3 DEF NoSession, TypeOK, session
<1>6. ASSUME NEW n \in Nodes, Start(n) PROVE TypeOK'
  <2>1. heardPeer' \in [Nodes -> BOOLEAN] /\ running' \in [Nodes -> BOOLEAN]
    BY <1>0, <1>6, Zenon DEF Start, TypeOK
  <2>2. /\ disc' \in [Nodes -> Nat]
        /\ localState' \in [Nodes -> State] /\ remoteState' \in [Nodes -> State]
        /\ messages' \in [Nodes -> Seq(Message)]
    BY <1>6, SMTT(30) DEF Start, TypeOK, State
  <2>3. /\ remoteDisc' \in [Nodes -> Nat] /\ desiredTx' \in [Nodes -> Nat]
        /\ remoteMinRx' \in [Nodes -> Nat] /\ sendTimer' \in [Nodes -> Nat]
        /\ detectTimer' \in [Nodes -> Nat] /\ missed' \in [Nodes -> Nat]
    BY <1>6 DEF Start, TypeOK
  <2> QED
    BY <1>6, <2>1, <2>2, <2>3 DEF Start, TypeOK
<1>7. ASSUME NEW n \in Nodes, Stop(n) PROVE TypeOK'
  <2>1. heardPeer' \in [Nodes -> BOOLEAN] /\ running' \in [Nodes -> BOOLEAN]
    BY <1>0, <1>7, Zenon DEF Stop, TypeOK
  <2>2. stops' \in Nat
    BY <1>7 DEF Stop, TypeOK
  <2> QED
    BY <1>7, <2>1, <2>2 DEF Stop, TypeOK
<1>8. ASSUME NEW n \in Nodes, Lose(n) PROVE TypeOK'
  <2>1. link[n] # <<>> /\ link[n] \in Seq(Message)
    BY <1>8 DEF Lose, TypeOK
  <2>2. Tail(link[n]) \in Seq(Message)
    BY <2>1
  <2>3. link' \in [Nodes -> Seq(Message)]
    BY <1>8, <2>2 DEF Lose, TypeOK
  <2>4. losses' \in Nat /\ missed' \in [Nodes -> Nat]
    BY <1>8 DEF Lose, TypeOK
  <2> QED
    BY <1>8, <2>3, <2>4 DEF Lose, TypeOK, session
<1>9. ASSUME NEW n \in Nodes, ForeignAdminDown(n) PROVE TypeOK'
  <2>1. link' \in [Nodes -> Seq(Message)]
    <3>1. "AdminDown" \in State /\ DefaultTx \in Nat /\ link[Peer(n)] \in Seq(Message)
      BY <1>0 DEF TypeOK, State
    <3>2. [state |-> "AdminDown", mult |-> DetectMult[n], my |-> disc[n],
           your |-> remoteDisc[n], tx |-> DefaultTx, rx |-> RequiredMinRx[n]] \in Message
      BY <3>1, SentMessage
    <3> QED
      BY <1>0, <1>9, <3>1, <3>2 DEF ForeignAdminDown, Send, TypeOK
  <2> QED
    BY <1>9, <2>1 DEF ForeignAdminDown, TypeOK
<1>10. ASSUME Tick PROVE TypeOK'
  BY <1>10 DEF Tick, TypeOK
<1>11. ASSUME UNCHANGED vars PROVE TypeOK'
  BY <1>11 DEF vars, session, TypeOK
<1> QED
  BY <1>1, <1>2, <1>3, <1>4, <1>5, <1>6, <1>7, <1>8, <1>9, <1>10, <1>11 DEF Next, Step

\* After a packet is sent every packet on the link is still good.
LEMMA SendKeepsLinkGood ==
    ASSUME Inv, NEW n \in Nodes, running[n], UNCHANGED disc,
           NEW st \in State, NEW tx \in Nat, Send(n, st, tx),
           st \in {"Init", "Up"} => remoteDisc[n] > 0
    PROVE  LinkGood'
<1> DEFINE p == Peer(n)
           m == [state |-> st, mult |-> DetectMult[n], my |-> disc[n],
                 your |-> remoteDisc[n], tx |-> tx, rx |-> RequiredMinRx[n]]
<1>1. p \in Nodes /\ Peer(p) = n
  BY PeerFacts
<1>2. GoodMessage(m, p)
  <2>1. disc[n] \in Nat /\ disc[n] > 0 /\ DetectMult[n] > 0
    BY ParametersAssumption DEF Inv, TypeOK, DiscUsed
  <2>2. remoteDisc[n] \in 0..disc[p]
    BY DEF Inv, RemoteUsed
  <2> QED
    BY <1>1, <2>1, <2>2 DEF GoodMessage
<1>3. m \in Message /\ link[p] \in Seq(Message)
  BY <1>1, SentMessage DEF Inv, TypeOK
<1> HIDE DEF m, p
<1>4. link' = [link EXCEPT ![p] = Append(link[p], m)]
  BY <1>1 DEF Send, m, p, Inv, TypeOK
<1>5. ASSUME NEW k \in Nodes, NEW i \in DOMAIN link'[k] PROVE GoodMessage(link[k][i], k)'
  <2>1. CASE k = p
    <3>1. link'[k] = Append(link[p], m)
      BY <1>1, <1>4, <2>1 DEF Inv, TypeOK
    <3>2. link'[k][i] = m \/ (i \in DOMAIN link[p] /\ link'[k][i] = link[p][i])
      BY <1>3, <1>5, <3>1, QueueFacts
    <3>3. GoodMessage(link'[k][i], k)
      BY <1>1, <1>2, <2>1, <3>2 DEF Inv, LinkGood
    <3> QED
      BY <3>3 DEF GoodMessage
  <2>2. CASE k # p
    <3>1. link'[k] = link[k]
      BY <1>4, <2>2 DEF Inv, TypeOK
    <3>2. GoodMessage(link[k][i], k)
      BY <1>5, <3>1 DEF Inv, LinkGood
    <3> QED
      BY <3>1, <3>2 DEF GoodMessage
  <2> QED
    BY <2>1, <2>2
<1> QED
  BY <1>5 DEF LinkGood

\* After the first packet for a node is taken the packets on the link are still good.
LEMMA TakeKeepsLinkGood ==
    ASSUME Inv, NEW n \in Nodes, UNCHANGED disc, link[n] # <<>>,
           link' = [link EXCEPT ![n] = Tail(@)]
    PROVE  LinkGood'
<1>1. ASSUME NEW k \in Nodes, NEW i \in DOMAIN link'[k] PROVE GoodMessage(link[k][i], k)'
  <2>1. \E j \in DOMAIN link[k] : link'[k][i] = link[k][j]
    <3>1. CASE k = n
      <4>1. link[n] \in Seq(Message) /\ link'[k] = Tail(link[n])
        BY <3>1 DEF Inv, TypeOK
      <4> QED
        BY <1>1, <3>1, <4>1
    <3>2. CASE k # n
      BY <1>1, <3>2 DEF Inv, TypeOK
    <3> QED
      BY <3>1, <3>2
  <2>2. GoodMessage(link'[k][i], k)
    BY <2>1 DEF Inv, LinkGood
  <2> QED
    BY <2>2 DEF GoodMessage
<1> QED
  BY <1>1 DEF LinkGood


-----------------------------------------------------------------------------
\* Every step keeps the invariant.
LEMMA NextInv == Inv /\ [Next]_vars => Inv'
<1> SUFFICES ASSUME Inv, [Next]_vars PROVE Inv'
  OBVIOUS
<1>0. TypeOK'
  BY NextTypeOK DEF Inv
<1>p. \A n \in Nodes : Peer(n) \in Nodes
  BY PeerFacts
<1>d. \A k \in Nodes : disc[k] \in Nat /\ disc'[k] \in Nat
  BY <1>0 DEF Inv, TypeOK
<1>t. disc \in [Nodes -> Nat] /\ remoteDisc \in [Nodes -> Nat]
  BY DEF Inv, TypeOK
<1>r. \A k \in Nodes : remoteDisc[k] \in 0..disc[Peer(k)] /\ (running[k] => disc[k] > 0)
  BY DEF Inv, RemoteUsed, DiscUsed
<1>l. UNCHANGED <<disc, link>> => LinkGood'
  BY DEF Inv, LinkGood, GoodMessage
<1>q. UNCHANGED <<disc, messages>> => QueueGood'
  BY DEF Inv, QueueGood, GoodMessage
<1>f. UNCHANGED <<disc, running, localState, remoteDisc>>
        => DiscUsed' /\ RemoteUsed' /\ RemoteKnown'
  BY DEF Inv, DiscUsed, RemoteUsed, RemoteKnown
<1>1. ASSUME NEW n \in Nodes, SendTimerFires(n) PROVE Inv'
  <2>1. /\ running[n] /\ localState[n] \in State /\ desiredTx[n] \in Nat
        /\ localState[n] \in {"Init", "Up"} => remoteDisc[n] > 0
    BY <1>1 DEF SendTimerFires, Inv, TypeOK, RemoteKnown
  <2>2. UNCHANGED disc /\ Send(n, localState[n], desiredTx[n])
    BY <1>1 DEF SendTimerFires
  <2>3. LinkGood'
    BY <2>1, <2>2, SendKeepsLinkGood
  <2> QED
    BY <1>0, <1>1, <1>q, <1>f, <2>3 DEF SendTimerFires, Inv
<1>2. ASSUME NEW n \in Nodes, DetectionTimerFires(n) PROVE Inv'
  <2>1. localState[n] \in State /\ "Timer" \in Event
    BY DEF Inv, TypeOK, Event
  <2>2. transition(localState[n], "Timer") \notin {"Init", "Up"}
    BY <2>1, TransitionFacts
  <2>3. RemoteKnown'
    BY <1>2, <2>2 DEF DetectionTimerFires, Inv, TypeOK, RemoteKnown
  <2>4. RemoteUsed'
    <3>1. remoteDisc' = [remoteDisc EXCEPT ![n] = 0] /\ disc' = disc
      BY <1>2 DEF DetectionTimerFires
    <3>2. ASSUME NEW k \in Nodes PROVE remoteDisc'[k] \in 0..disc[Peer(k)]
      BY <1>p, <1>d, <1>t, <1>r, <3>1
    <3> QED
      BY <3>1, <3>2 DEF RemoteUsed
  <2>5. DiscUsed'
    BY <1>2 DEF DetectionTimerFires, Inv, DiscUsed
  <2> QED
    BY <1>0, <1>2, <1>l, <1>q, <2>3, <2>4, <2>5 DEF DetectionTimerFires, Inv
<1>3. ASSUME NEW n \in Nodes, ProcessMessage(n) PROVE Inv'
  <2> DEFINE m == Head(messages[n])
  <2>1. messages[n] \in Seq(Message) /\ messages[n] # <<>>
    BY <1>3 DEF ProcessMessage, Inv, TypeOK
  <2>2. m = messages[n][1] /\ 1 \in DOMAIN messages[n] /\ m \in Message
    BY <2>1
  <2>3. GoodMessage(m, n) /\ m.my \in Nat
    BY <2>2 DEF Inv, QueueGood, Message
  <2> HIDE DEF m
  <2>4. /\ remoteDisc' = [remoteDisc EXCEPT ![n] = IF @ = 0 THEN m.my ELSE @]
        /\ localState' = [localState EXCEPT ![n] = transition(localState[n], m.state)]
        /\ messages' = [messages EXCEPT ![n] = Tail(@)]
        /\ UNCHANGED <<running, disc, link>>
    BY <1>3 DEF ProcessMessage, m, Inv, TypeOK
  <2>9. remoteDisc'[n] \in 1..disc[Peer(n)]
    <3>1. m.my \in 1..disc[Peer(n)]
      BY <2>3 DEF GoodMessage
    <3>2. remoteDisc'[n] = IF remoteDisc[n] = 0 THEN m.my ELSE remoteDisc[n]
      BY <1>t, <2>4
    <3>3. remoteDisc[n] \in 0..disc[Peer(n)] /\ disc[Peer(n)] \in Nat
      BY <1>p, <1>d, <1>r
    <3> QED
      BY <3>1, <3>2, <3>3
  <2>5. RemoteUsed'
    <3>2. ASSUME NEW k \in Nodes PROVE remoteDisc'[k] \in 0..disc[Peer(k)]
      <4>1. CASE k = n
        BY <1>p, <1>d, <2>9, <4>1
      <4>2. CASE k # n
        BY <1>t, <1>r, <2>4, <4>2
      <4> QED
        BY <4>1, <4>2
    <3> QED
      BY <2>4, <3>2 DEF RemoteUsed
  <2>6. RemoteKnown'
    <3>1. ASSUME NEW k \in Nodes, localState'[k] \in {"Init", "Up"} PROVE remoteDisc'[k] > 0
      <4>1. CASE k = n
        BY <1>d, <1>p, <2>9, <4>1
      <4>2. CASE k # n
        <5>1. localState'[k] = localState[k] /\ remoteDisc'[k] = remoteDisc[k]
          BY <2>4, <4>2 DEF Inv, TypeOK
        <5> QED
          BY <3>1, <5>1 DEF Inv, RemoteKnown
      <4> QED
        BY <4>1, <4>2
    <3> QED
      BY <3>1 DEF RemoteKnown
  <2>7. DiscUsed'
    BY <2>4 DEF Inv, DiscUsed
  <2>8. QueueGood'
    <3>1. ASSUME NEW k \in Nodes, NEW i \in DOMAIN messages'[k]
          PROVE  GoodMessage(messages[k][i], k)'
      <4>1. \E j \in DOMAIN messages[k] : messages'[k][i] = messages[k][j]
        <5>1. CASE k = n
          <6>1. messages'[k] = Tail(messages[n])
            BY <2>4, <5>1 DEF Inv, TypeOK
          <6> QED
            BY <2>1, <3>1, <5>1, <6>1
        <5>2. CASE k # n
          BY <2>4, <3>1, <5>2 DEF Inv, TypeOK
        <5> QED
          BY <5>1, <5>2
      <4>2. GoodMessage(messages'[k][i], k)
        BY <4>1 DEF Inv, QueueGood
      <4> QED
        BY <2>4, <4>2 DEF GoodMessage
    <3> QED
      BY <3>1 DEF QueueGood
  <2> QED
    BY <1>0, <1>l, <2>4, <2>5, <2>6, <2>7, <2>8 DEF Inv
<1>4. ASSUME NEW n \in Nodes, ReceiveMessage(n) PROVE Inv'
  <2> DEFINE m == Head(link[n])
  <2>1. link[n] \in Seq(Message) /\ link[n] # <<>> /\ messages[n] \in Seq(Message)
    BY <1>4 DEF ReceiveMessage, Inv, TypeOK
  <2>2. m = link[n][1] /\ 1 \in DOMAIN link[n] /\ m \in Message
    BY <2>1
  <2>3. GoodMessage(m, n)
    BY <2>2 DEF Inv, LinkGood
  <2> HIDE DEF m
  <2>4. /\ link' = [link EXCEPT ![n] = Tail(@)]
        /\ messages' = messages \/ messages' = [messages EXCEPT ![n] = Append(@, m)]
        /\ UNCHANGED <<running, disc, localState, remoteDisc>>
    BY <1>4 DEF ReceiveMessage, m
  <2>5. LinkGood'
    BY <2>1, <2>4, TakeKeepsLinkGood
  <2>6. QueueGood'
    <3>1. ASSUME NEW k \in Nodes, NEW i \in DOMAIN messages'[k]
          PROVE  GoodMessage(messages[k][i], k)'
      <4>1. CASE k = n /\ messages' # messages
        <5>1. messages'[k] = Append(messages[n], m)
          BY <2>4, <4>1 DEF Inv, TypeOK
        <5>2. messages'[k][i] = m \/ (i \in DOMAIN messages[n] /\ messages'[k][i] = messages[n][i])
          BY <2>1, <2>2, <3>1, <5>1, QueueFacts
        <5>3. GoodMessage(messages'[k][i], k)
          BY <2>3, <4>1, <5>2 DEF Inv, QueueGood
        <5> QED
          BY <2>4, <5>3 DEF GoodMessage
      <4>2. CASE k # n \/ messages' = messages
        <5>1. messages'[k] = messages[k]
          BY <2>4, <4>2 DEF Inv, TypeOK
        <5>2. GoodMessage(messages[k][i], k)
          BY <3>1, <5>1 DEF Inv, QueueGood
        <5> QED
          BY <2>4, <5>1, <5>2 DEF GoodMessage
      <4> QED
        BY <4>1, <4>2
    <3> QED
      BY <3>1 DEF QueueGood
  <2> QED
    BY <1>0, <1>f, <2>4, <2>5, <2>6 DEF Inv
<1>5. ASSUME NEW n \in Nodes, NoSession(n) PROVE Inv'
  <2>1. LinkGood'
    BY <1>5, TakeKeepsLinkGood DEF NoSession, session
  <2> QED
    BY <1>0, <1>5, <1>q, <1>f, <2>1 DEF NoSession, session, Inv
<1>6. ASSUME NEW n \in Nodes, Start(n) PROVE Inv'
  <2>1. \A k \in Nodes : disc'[k] >= disc[k]
    <3>1. disc' = [disc EXCEPT ![n] = @ + 1]
      BY <1>6 DEF Start
    <3> QED
      BY <1>d, <1>t, <3>1
  <2>2. LinkGood'
    <3>1. ASSUME NEW k \in Nodes, NEW i \in DOMAIN link[k] PROVE GoodMessage(link[k][i], k)'
      <4>1. link[k][i] \in Message /\ GoodMessage(link[k][i], k) /\ link' = link
        BY <1>6, <3>1, SMTT(30) DEF Start, Inv, TypeOK, LinkGood
      <4>2. PICK m \in Message : m = link[k][i]
        BY <4>1
      <4>3. GoodMessage(m, k)'
        BY <1>0, <2>1, <4>1, <4>2, GoodMessageMonotone DEF Inv
      <4> QED
        BY <4>1, <4>2, <4>3 DEF GoodMessage
    <3> QED
      BY <1>6, <3>1 DEF Start, LinkGood
  <2>3. QueueGood'
    <3>1. ASSUME NEW k \in Nodes, NEW i \in DOMAIN messages'[k]
          PROVE  GoodMessage(messages[k][i], k)'
      <4>1. k # n /\ messages'[k] = messages[k]
        BY <1>6, <3>1 DEF Start, Inv, TypeOK
      <4>2. messages[k][i] \in Message /\ GoodMessage(messages[k][i], k)
        BY <3>1, <4>1, SMTT(30) DEF Inv, TypeOK, QueueGood
      <4>3. PICK m \in Message : m = messages[k][i]
        BY <4>2
      <4>4. GoodMessage(m, k)'
        BY <1>0, <2>1, <4>2, <4>3, GoodMessageMonotone DEF Inv
      <4> QED
        BY <4>1, <4>3, <4>4 DEF GoodMessage
    <3> QED
      BY <3>1 DEF QueueGood
  <2>4. DiscUsed'
    <3>1. /\ disc' = [disc EXCEPT ![n] = @ + 1]
          /\ running' = [running EXCEPT ![n] = TRUE]
      BY <1>6 DEF Start
    <3>2. ASSUME NEW k \in Nodes, running'[k] PROVE disc'[k] > 0
      <4>1. CASE k = n
        BY <1>d, <1>t, <3>1, <4>1
      <4>2. CASE k # n
        <5>1. running[k] /\ disc'[k] = disc[k]
          BY <1>t, <3>1, <3>2, <4>2 DEF Inv, TypeOK
        <5> QED
          BY <1>r, <5>1
      <4> QED
        BY <4>1, <4>2
    <3> QED
      BY <3>2 DEF DiscUsed
  <2>5. RemoteUsed'
    <3>1. ASSUME NEW k \in Nodes PROVE remoteDisc'[k] \in 0..disc'[Peer(k)]
      <4>1. remoteDisc'[k] = 0 \/ remoteDisc'[k] = remoteDisc[k]
        BY <1>6 DEF Start, Inv, TypeOK
      <4>2. remoteDisc[k] \in 0..disc[Peer(k)] /\ Peer(k) \in Nodes
        BY <1>p DEF Inv, RemoteUsed
      <4> QED
        BY <1>d, <2>1, <4>1, <4>2
    <3> QED
      BY <3>1 DEF RemoteUsed
  <2>6. RemoteKnown'
    BY <1>6 DEF Start, Inv, TypeOK, RemoteKnown
  <2> QED
    BY <1>0, <2>2, <2>3, <2>4, <2>5, <2>6 DEF Inv
<1>7. ASSUME NEW n \in Nodes, Stop(n) PROVE Inv'
  <2>1. DiscUsed' /\ RemoteUsed' /\ RemoteKnown'
    BY <1>7 DEF Stop, Inv, TypeOK, DiscUsed, RemoteUsed, RemoteKnown
  <2> QED
    BY <1>0, <1>7, <1>l, <1>q, <2>1 DEF Stop, Inv
<1>8. ASSUME NEW n \in Nodes, Lose(n) PROVE Inv'
  <2>1. LinkGood'
    BY <1>8, TakeKeepsLinkGood DEF Lose, session
  <2> QED
    BY <1>0, <1>8, <1>q, <1>f, <2>1 DEF Lose, session, Inv
<1>9. ASSUME NEW n \in Nodes, ForeignAdminDown(n) PROVE Inv'
  <2>1. running[n] /\ UNCHANGED disc /\ Send(n, "AdminDown", DefaultTx)
    BY <1>9 DEF ForeignAdminDown
  <2>2. "AdminDown" \in State /\ DefaultTx \in Nat /\ "AdminDown" \notin {"Init", "Up"}
    BY ParametersAssumption DEF State
  <2>3. LinkGood'
    BY <2>1, <2>2, SendKeepsLinkGood
  <2> QED
    BY <1>0, <1>9, <1>q, <1>f, <2>3 DEF ForeignAdminDown, Inv
<1>10. ASSUME Tick PROVE Inv'
  BY <1>0, <1>10, <1>l, <1>q, <1>f DEF Tick, Inv
<1>11. ASSUME UNCHANGED vars PROVE Inv'
  BY <1>0, <1>11, <1>l, <1>q, <1>f DEF vars, session, Inv
<1> QED
  BY <1>1, <1>2, <1>3, <1>4, <1>5, <1>6, <1>7, <1>8, <1>9, <1>10, <1>11 DEF Next, Step

\* Every reachable state of the two sessions is well typed: the timers never become
\* negative and the queues hold control packets only.
THEOREM TypeCorrect == Spec => []TypeOK
<1>1. Inv => TypeOK
  BY DEF Inv
<1> QED
  BY InitInv, NextInv, <1>1, PTL DEF Spec

\* For all parameters, losses and restarts: a session comes up only against a session
\* its peer really ran, and no session ever sends a packet the other discards.
THEOREM HandshakeCorrect == Spec => []HandshakeGrounded
  BY InitInv, NextInv, InvHandshake, PTL DEF Spec

=============================================================================
