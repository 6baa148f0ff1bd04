----------------------------- MODULE BFDSession -----------------------------
(***************************************************************************)
(* Two border routers run one BFD session each over a point-to-point link   *)
(* (router/bfd/session.go, fsm.go, jitter.go).  Every node has the event    *)
(* loop of Session.Run: a message, the send timer or the detection timer.   *)
(* Time is discrete; all intervals are counted in ticks.                    *)
(***************************************************************************)
EXTENDS Integers, Sequences, FiniteSets

CONSTANTS
    Nodes,          \* the two ends of the link
    DetectMult,     \* [Nodes -> Nat]: Session.DetectMult
    DesiredMinTx,   \* [Nodes -> Nat]: Session.DesiredMinTxInterval
    RequiredMinRx,  \* [Nodes -> Nat]: Session.RequiredMinRxInterval
    DefaultTx,      \* defaultTransmissionInterval
    DefaultDetect,  \* defaultDetectionTimeout
    QueueSize,      \* Session.ReceiveQueueSize
    MaxStops,       \* bound: number of times a session is closed or crashes
    MaxLoss,        \* bound: number of packets the link loses
    Foreign         \* nodes run by another implementation of RFC 5880

ASSUME NodesAssumption == \E a, b \in Nodes : a # b /\ Nodes = {a, b}

\* validateParameters: Run refuses a session whose parameters are not positive.
ASSUME ParametersAssumption ==
    /\ DetectMult \in [Nodes -> Nat \ {0}]
    /\ DesiredMinTx \in [Nodes -> Nat \ {0}]
    /\ RequiredMinRx \in [Nodes -> Nat \ {0}]
    /\ DefaultTx \in Nat \ {0}
    /\ DefaultDetect \in Nat \ {0}
    /\ QueueSize \in Nat \ {0}
    /\ MaxStops \in Nat
    /\ MaxLoss \in Nat
    /\ Foreign \subseteq Nodes

VARIABLES
    running,      \* the session's Run loop is executing
    disc,         \* LocalDiscriminator, a new one for every Session object
    localState,   \* Session.localState
    remoteState,  \* Session.remoteState
    remoteDisc,   \* Session.remoteDiscriminator, 0 when not bootstrapped
    desiredTx,    \* Session.desiredMinTXInterval
    remoteMinRx,  \* Session.remoteMinRxInterval
    sendTimer,    \* ticks until sendTimer.C is readable
    detectTimer,  \* ticks until detectionTimer.C is readable
    messages,     \* Session.messages, the receive queue
    link,         \* packets on the way to the node, in the order they were sent
    stops, losses,\* how much of the two bounds is used
    missed,       \* history: packets to the node lost since it last handled one
    heardPeer     \* history: the node handled a packet of the peer's current session

session == <<running, disc, localState, remoteState, remoteDisc, desiredTx,
             remoteMinRx, sendTimer, detectTimer, messages>>
vars == <<session, link, stops, losses, missed, heardPeer>>

Peer(n) == CHOOSE p \in Nodes : p # n

Larger(x, y) == IF x > y THEN x ELSE y

State == {"AdminDown", "Down", "Init", "Up"}
Event == State \cup {"Timer", "AdminUp"}

\* A BFD control packet; the fields that every session sends alike are left out.
Message == [state : State, mult : Nat, my : Nat, your : Nat, tx : Nat, rx : Nat]

\* Mutants of transition: the timer is ignored in one state, or Up in state Init.
transitionInitKeepsOnTimer(curr, e) ==
    IF curr = "Up" THEN (IF e \in {"Timer", "Down"} THEN "Down" ELSE "Up")
    ELSE IF e = "Down" THEN "Init"
    ELSE IF e = "Init" \/ (e = "Up" /\ curr = "Init") THEN "Up" ELSE curr
transitionUpKeepsOnTimer(curr, e) ==
    IF e = "Timer" THEN (IF curr = "Init" THEN "Down" ELSE curr)
    ELSE IF e = "Down" THEN (IF curr = "Up" THEN "Down" ELSE "Init")
    ELSE IF e = "Init" \/ (e = "Up" /\ curr = "Init") THEN "Up" ELSE curr
transitionInitIgnoresUp(curr, e) ==
    IF e = "Timer" THEN "Down"
    ELSE IF e = "Down" THEN (IF curr = "Up" THEN "Down" ELSE "Init")
    ELSE IF e = "Init" THEN "Up" ELSE curr

\* The state machine of fsm.go.
transition(curr, e) ==
    CASE curr = "AdminDown" -> IF e = "AdminUp" THEN "Down" ELSE "AdminDown"
      [] curr = "Down" -> CASE e = "Init" -> "Up"
                            [] e = "Down" -> "Init"
                            [] e = "AdminDown" -> "AdminDown"
                            [] OTHER -> "Down"
      [] curr = "Init" -> CASE e \in {"Init", "Up"} -> "Up"
                            [] e = "Timer" -> "Down"
                            [] e = "AdminDown" -> "AdminDown"
                            [] OTHER -> "Init"
      [] curr = "Up" -> CASE e \in {"Timer", "Down"} -> "Down"
                          [] e = "AdminDown" -> "AdminDown"
                          [] OTHER -> "Up"

\* Mutant: the jitter is taken as an amount, not as a percentage.
computeIntervalAmount(interval, mult) ==
    {interval - j : j \in (IF mult = 1 THEN 10 ELSE 0)..24}

\* The interval shortened by 0 to 24 percent, by 10 to 24 for a multiplier of 1.
computeInterval(interval, mult) ==
    {(interval * (100 - j)) \div 100 : j \in (IF mult = 1 THEN 10 ELSE 0)..24}

computeNextSendInterval(tx, rx, mult) == computeInterval(Larger(tx, rx), mult)

\* The checks that a packet built by a Session (version 1, no flags) can fail.
shouldDiscard(m) ==
    \/ m.mult = 0
    \/ m.my = 0
    \/ m.your = 0 /\ m.state \notin {"AdminDown", "Down"}

\* Mutant: the sender's interval is not taken into account.
DetectionTimeLocal(n, m) == m.mult * RequiredMinRx[n]

\* The time without a packet after which the session is taken down.
DetectionTime(n, m) == m.mult * Larger(RequiredMinRx[n], m.tx)

-----------------------------------------------------------------------------
Init ==
    /\ running = [n \in Nodes |-> FALSE]
    /\ disc = [n \in Nodes |-> 0]
    /\ localState = [n \in Nodes |-> "Down"]
    /\ remoteState = [n \in Nodes |-> "AdminDown"]
    /\ remoteDisc = [n \in Nodes |-> 0]
    /\ desiredTx = [n \in Nodes |-> DefaultTx]
    /\ remoteMinRx = [n \in Nodes |-> 0]
    /\ sendTimer = [n \in Nodes |-> DefaultTx]
    /\ detectTimer = [n \in Nodes |-> DefaultDetect]
    /\ messages = [n \in Nodes |-> <<>>]
    /\ link = [n \in Nodes |-> <<>>]
    /\ stops = 0
    /\ losses = 0
    /\ missed = [n \in Nodes |-> 0]
    /\ heardPeer = [n \in Nodes |-> FALSE]

\* A new Session object (addBFDController) whose Run reaches its main loop.
Start(n) ==
    /\ ~running[n]
    /\ running' = [running EXCEPT ![n] = TRUE]
    /\ disc' = [disc EXCEPT ![n] = @ + 1]
    /\ localState' = [localState EXCEPT ![n] = "Down"]
    /\ remoteState' = [remoteState EXCEPT ![n] = "AdminDown"]
    /\ remoteDisc' = [remoteDisc EXCEPT ![n] = 0]
    /\ desiredTx' = [desiredTx EXCEPT ![n] = DefaultTx]
    /\ remoteMinRx' = [remoteMinRx EXCEPT ![n] = 0]
    /\ sendTimer' = [sendTimer EXCEPT ![n] = DefaultTx]
    /\ detectTimer' = [detectTimer EXCEPT ![n] = DefaultDetect]
    /\ messages' = [messages EXCEPT ![n] = <<>>]
    /\ heardPeer' = [heardPeer EXCEPT ![n] = FALSE, ![Peer(n)] = FALSE]
    /\ missed' = [missed EXCEPT ![n] = 0]
    /\ UNCHANGED <<link, stops, losses>>

\* Close ends the main loop; a crash of the router has the same effect.
Stop(n) ==
    /\ running[n]
    /\ stops < MaxStops
    /\ stops' = stops + 1
    /\ running' = [running EXCEPT ![n] = FALSE]
    /\ heardPeer' = [heardPeer EXCEPT ![Peer(n)] = FALSE]
    /\ UNCHANGED <<disc, localState, remoteState, remoteDisc, desiredTx, remoteMinRx,
                   sendTimer, detectTimer, messages, link, losses, missed>>

\* Sender.Send: the packet goes out on the link.
Send(n, st, tx) ==
    link' = [link EXCEPT ![Peer(n)] =
              Append(@, [state |-> st, mult |-> DetectMult[n], my |-> disc[n],
                         your |-> remoteDisc[n], tx |-> tx, rx |-> RequiredMinRx[n]])]

\* case <-sendTimer.C
SendTimerFires(n) ==
    /\ running[n]
    /\ sendTimer[n] = 0
    /\ \E t \in computeNextSendInterval(desiredTx[n], remoteMinRx[n], DetectMult[n]) :
         sendTimer' = [sendTimer EXCEPT ![n] = t]
    /\ Send(n, localState[n], desiredTx[n])
    /\ UNCHANGED <<running, disc, localState, remoteState, remoteDisc, desiredTx,
                   remoteMinRx, detectTimer, messages, stops, losses, missed, heardPeer>>

\* Environment: a foreign session, taken down by its operator, announces AdminDown.
ForeignAdminDown(n) ==
    /\ n \in Foreign
    /\ running[n]
    /\ sendTimer[n] = 0
    /\ sendTimer' = [sendTimer EXCEPT ![n] = DefaultTx]
    /\ Send(n, "AdminDown", DefaultTx)
    /\ UNCHANGED <<running, disc, localState, remoteState, remoteDisc, desiredTx,
                   remoteMinRx, detectTimer, messages, stops, losses, missed, heardPeer>>

\* The packet reaches the router, which hands it to ReceiveMessage.
ReceiveMessage(n) ==
    /\ running[n]
    /\ link[n] # <<>>
    /\ link' = [link EXCEPT ![n] = Tail(@)]
    /\ \/ /\ shouldDiscard(Head(link[n]))
          /\ UNCHANGED messages
       \/ /\ ~shouldDiscard(Head(link[n]))
          /\ Len(messages[n]) < QueueSize
          /\ messages' = [messages EXCEPT ![n] = Append(@, Head(link[n]))]
    /\ UNCHANGED <<running, disc, localState, remoteState, remoteDisc, desiredTx,
                   remoteMinRx, sendTimer, detectTimer, stops, losses, missed, heardPeer>>

\* A packet that arrives at a router whose session does not run is dropped.
NoSession(n) ==
    /\ ~running[n]
    /\ link[n] # <<>>
    /\ link' = [link EXCEPT ![n] = Tail(@)]
    /\ UNCHANGED <<session, stops, losses, missed, heardPeer>>

\* Environment: the underlay loses a packet.
Lose(n) ==
    /\ losses < MaxLoss
    /\ losses' = losses + 1
    /\ link[n] # <<>>
    /\ link' = [link EXCEPT ![n] = Tail(@)]
    /\ missed' = [missed EXCEPT ![n] = @ + 1]
    /\ UNCHANGED <<session, stops, heardPeer>>

\* case msg := <-s.messages
ProcessMessage(n) ==
    /\ running[n]
    /\ messages[n] # <<>>
    /\ LET m == Head(messages[n])
           new == transition(localState[n], m.state)
           leavesDown == localState[n] = "Down" /\ new # "Down"
       IN  /\ messages' = [messages EXCEPT ![n] = Tail(@)]
           /\ detectTimer' = [detectTimer EXCEPT ![n] = DetectionTime(n, m)]
           /\ remoteState' = [remoteState EXCEPT ![n] = m.state]
           /\ remoteMinRx' = [remoteMinRx EXCEPT ![n] = m.rx]
           /\ remoteDisc' = [remoteDisc EXCEPT ![n] = IF @ = 0 THEN m.my ELSE @]
           /\ localState' = [localState EXCEPT ![n] = new]
           /\ desiredTx' = [desiredTx EXCEPT ![n] = IF leavesDown THEN DesiredMinTx[n] ELSE @]
           /\ IF leavesDown
              THEN \E t \in computeNextSendInterval(DesiredMinTx[n], m.rx, DetectMult[n]) :
                     sendTimer' = [sendTimer EXCEPT ![n] = t]
              ELSE UNCHANGED sendTimer
           /\ heardPeer' = [heardPeer EXCEPT ![n] = m.my = disc[Peer(n)] /\ running[Peer(n)]]
    /\ missed' = [missed EXCEPT ![n] = 0]
    /\ UNCHANGED <<running, disc, link, stops, losses>>

\* case <-detectionTimer.C
DetectionTimerFires(n) ==
    /\ running[n]
    /\ detectTimer[n] = 0
    /\ detectTimer' = [detectTimer EXCEPT ![n] = DefaultDetect]
    /\ localState' = [localState EXCEPT ![n] = transition(@, "Timer")]
    /\ remoteDisc' = [remoteDisc EXCEPT ![n] = 0]
    /\ desiredTx' = [desiredTx EXCEPT ![n] = IF localState'[n] = "Down" THEN DefaultTx ELSE @]
    /\ UNCHANGED <<running, disc, remoteState, remoteMinRx, sendTimer, messages,
                   link, stops, losses, missed, heardPeer>>

\* One tick passes.  The main loop is prompt: it has handled whatever is ready,
\* and the packets on the link have arrived or were lost.
Tick ==
    /\ \A n \in Nodes : running[n] => /\ sendTimer[n] > 0
                                      /\ detectTimer[n] > 0
                                      /\ messages[n] = <<>>
    /\ \A n \in Nodes : link[n] = <<>>
    /\ sendTimer' = [n \in Nodes |-> IF running[n] THEN sendTimer[n] - 1 ELSE sendTimer[n]]
    /\ detectTimer' = [n \in Nodes |-> IF running[n] THEN detectTimer[n] - 1 ELSE detectTimer[n]]
    /\ UNCHANGED <<running, disc, localState, remoteState, remoteDisc, desiredTx,
                   remoteMinRx, messages, link, stops, losses, missed, heardPeer>>

Step(n) == \/ SendTimerFires(n) \/ DetectionTimerFires(n) \/ ProcessMessage(n)
           \/ ReceiveMessage(n) \/ NoSession(n)

Next == \/ \E n \in Nodes : Step(n) \/ Start(n) \/ Stop(n) \/ Lose(n) \/ ForeignAdminDown(n)
        \/ Tick

Spec == Init /\ [][Next]_vars

\* The goroutine of Run is scheduled, a delivered packet is handed over, time passes.
Running == \A n \in Nodes : WF_vars(Step(n))
SpecLive == Spec /\ Running /\ WF_vars(Tick)

-----------------------------------------------------------------------------
TypeOK ==
    /\ running \in [Nodes -> BOOLEAN]
    /\ disc \in [Nodes -> Nat]
    /\ localState \in [Nodes -> State]
    /\ remoteState \in [Nodes -> State]
    /\ remoteDisc \in [Nodes -> Nat]
    /\ desiredTx \in [Nodes -> Nat]
    /\ remoteMinRx \in [Nodes -> Nat]
    /\ sendTimer \in [Nodes -> Nat]
    /\ detectTimer \in [Nodes -> Nat]
    /\ messages \in [Nodes -> Seq(Message)]
    /\ link \in [Nodes -> Seq(Message)]
    /\ stops \in Nat
    /\ losses \in Nat
    /\ missed \in [Nodes -> Nat]
    /\ heardPeer \in [Nodes -> BOOLEAN]

\* A session that is Up or coming up has bootstrapped the discriminator of a
\* session the peer really ran.
Bootstrapped ==
    \A n \in Nodes :
        localState[n] \in {"Init", "Up"} => remoteDisc[n] \in 1..disc[Peer(n)]

\* The three-way handshake is grounded: a session comes up only against a session
\* the peer really ran; every control packet is one the session at the other end
\* accepts (shouldDiscard); and one in state Init or Up names in Your Discriminator
\* a discriminator the recipient has really sent.
HandshakeGrounded ==
    /\ Bootstrapped
    /\ \A n \in Nodes : \A i \in DOMAIN link[n] :
         /\ ~shouldDiscard(link[n][i])
         /\ link[n][i].state \in {"Init", "Up"} => link[n][i].your \in 1..disc[n]

\* The detection timer takes a session of this code that is Up down only when the peer's
\* current session has not been heard, or all but one of the multiplier's packets (but at
\* least one) were lost since the last one it handled: jitter, a change
\* of the transmission interval and different parameters at the two ends never do
\* (detectionTime, computeNextSendInterval).
DownOnlyForCause ==
    [][\A n \in Nodes \ Foreign :
         DetectionTimerFires(n) /\ localState[n] = "Up" =>
           ~heardPeer[n] \/ missed[n] >= Larger(1, DetectMult[Peer(n)] - 1)]_vars

\* Once no more packets are lost and both routers are left running, both sessions
\* come up and stay up (the recovery Session.Run is there for).
EventuallyUp ==
    <>[](\A n \in Nodes : running[n]) => <>[](\A n \in Nodes : localState[n] = "Up")

\* A session does not stay Up when the peer is gone (the detection timer of Run).
DeadPeerDetected ==
    \A n \in Nodes :
        running[n] /\ localState[n] = "Up" /\ ~running[Peer(n)]
          ~> ~running[n] \/ localState[n] # "Up" \/ running[Peer(n)]
=============================================================================
