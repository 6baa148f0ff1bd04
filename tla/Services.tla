----------------------------- MODULE Services -----------------------------
(* The registry of service addresses of the border router (router/svc.go) and  *)
(* its use by the packet processors (resolveLocalDst in router/dataplane.go).  *)
(* The registry holds pointers: the addresses are objects, and the lists, the  *)
(* packets on their way out and the processors share them.  A processor takes  *)
(* a pointer under the lock of the registry and looks at the port, and may     *)
(* change it, after it has released the lock.                                  *)
EXTENDS Integers, Sequences, FiniteSets

CONSTANTS
    Svc,            \* service types: control service, discovery service, ...
    IPs, Ports,     \* what addresses are made of
    EndhostPort,    \* topology.EndhostPort
    Dispatched,     \* the ports between dispatchedPortStart and dispatchedPortEnd
    Workers,        \* the packet processors
    MaxObjects      \* bound on the number of addresses ever registered

\* No service is configured with the fixed port, at which the dispatcher of an end
\* host listens.
ASSUME ServicesAssumption ==
    /\ EndhostPort \in Int /\ Ports \subseteq Int \ {EndhostPort} /\ Dispatched \subseteq Int
    /\ MaxObjects \in Nat

Address == [ip : IPs, port : Ports \cup {EndhostPort}]
Registered == [ip : IPs, port : Ports]

VARIABLES
    m,          \* [Svc -> sequence of objects], services.m
    obj,        \* sequence of addresses; an object is an index of it
    want,       \* [Svc -> set of addresses], those added and not deleted since
    worker      \* [Workers -> step of resolveLocalDst, service and object]

vars == <<m, obj, want, worker>>

Idle == [at |-> "idle"]
Holding(svc, o) == [at |-> "port", svc |-> svc, obj |-> o]
Resolved(svc, o) == [at |-> "sent", svc |-> svc, obj |-> o]
NoBackend(svc) == [at |-> "none", svc |-> svc]

Init ==
    /\ m = [s \in Svc |-> <<>>]
    /\ obj = <<>>
    /\ want = [s \in Svc |-> {}]
    /\ worker = [w \in Workers |-> Idle]

\* The positions of a in addrs; the code returns the first one.
index(a, addrs) == {i \in DOMAIN addrs : obj[addrs[i]] = a}

AddSvcBeforeAlloc(svc, a) ==
    /\ Len(obj) < MaxObjects
    /\ obj' = IF index(a, m[svc]) # {} THEN obj ELSE Append(obj, a)
    /\ m' = [m EXCEPT ![svc] = Append(@, Len(obj) + 1)]
    /\ want' = [want EXCEPT ![svc] = @ \cup {a}]
    /\ UNCHANGED worker

AddSvc(svc, a) ==
    /\ IF index(a, m[svc]) # {} THEN UNCHANGED <<m, obj>>
       ELSE /\ Len(obj) < MaxObjects
            /\ obj' = Append(obj, a)
            /\ m' = [m EXCEPT ![svc] = Append(@, Len(obj) + 1)]
    /\ want' = [want EXCEPT ![svc] = @ \cup {a}]
    /\ UNCHANGED worker

removeAtDropsLast(addrs, i) == SubSeq(addrs, 1, Len(addrs) - 1)

\* The last element takes the place of the removed one.
removeAt(addrs, i) == SubSeq([addrs EXCEPT ![i] = addrs[Len(addrs)]], 1, Len(addrs) - 1)

DelSvc(svc, a) ==
    LET found == index(a, m[svc])
        first == CHOOSE i \in found : \A j \in found : i <= j
    IN  /\ m' = IF found = {} THEN m ELSE [m EXCEPT ![svc] = removeAt(@, first)]
        /\ want' = [want EXCEPT ![svc] = @ \ {a}]
        /\ UNCHANGED <<obj, worker>>

\* resolveLocalDst for a packet to svc: any of the registered addresses ...
Any(w, svc) ==
    /\ worker[w].at \in {"idle", "sent", "none"}
    /\ \/ m[svc] = <<>> /\ worker' = [worker EXCEPT ![w] = NoBackend(svc)]
       \/ \E i \in DOMAIN m[svc] : worker' = [worker EXCEPT ![w] = Holding(svc, m[svc][i])]
    /\ UNCHANGED <<m, obj, want>>

resolveLocalDstTestsUpperEnd(w) ==
    /\ worker[w].at = "port"
    /\ LET o == worker[w].obj
       IN  /\ obj' = [obj EXCEPT ![o].port =
                        IF \E p \in Dispatched : @ <= p THEN @ ELSE EndhostPort]
           /\ worker' = [worker EXCEPT ![w] = Resolved(worker[w].svc, o)]
    /\ UNCHANGED <<m, want>>

\* ... with the fixed port if its own is not one for end hosts.
resolveLocalDst(w) ==
    /\ worker[w].at = "port"
    /\ LET o == worker[w].obj
       IN  /\ obj' = [obj EXCEPT ![o].port = IF @ \in Dispatched THEN @ ELSE EndhostPort]
           /\ worker' = [worker EXCEPT ![w] = Resolved(worker[w].svc, o)]
    /\ UNCHANGED <<m, want>>

Next ==
    \/ \E svc \in Svc, a \in Registered : AddSvc(svc, a) \/ DelSvc(svc, a)
    \/ \E w \in Workers : resolveLocalDst(w) \/ \E svc \in Svc : Any(w, svc)

Spec == Init /\ [][Next]_vars

---------------------------------------------------------------------------
(* Properties.                                                                 *)

TypeOK ==
    /\ obj \in Seq(Address) /\ Len(obj) <= MaxObjects
    /\ m \in [Svc -> Seq(DOMAIN obj)]
    /\ want \in [Svc -> SUBSET Registered]
    /\ \A w \in Workers :
        \/ worker[w] \in [at : {"idle"}] \cup [at : {"none"}, svc : Svc]
        \/ worker[w] \in [at : {"port", "sent"}, svc : Svc, obj : DOMAIN obj]

\* The ports of end hosts, but for the one that lookups put in place of others: an
\* address with that port may have been registered with another one.
HostPorts == Dispatched \ {EndhostPort}

\* The registered addresses of a service with an end host port are those added and
\* not deleted since, each of them once, whatever lookups do to the others: the
\* swap with the last element in DelSvc loses no other address and adding an
\* address twice does not shift the load to it.
RegistryMatches ==
    \A s \in Svc :
        LET inRange == {i \in DOMAIN m[s] : obj[m[s][i]].port \in HostPorts}
        IN  /\ {obj[m[s][i]] : i \in inRange} = {a \in want[s] : a.port \in HostPorts}
            /\ \A i, j \in inRange : obj[m[s][i]] = obj[m[s][j]] => i = j

\* What an address becomes when a lookup gives it the fixed port.
Rewritten(a) == [ip |-> a.ip, port |-> EndhostPort]

\* Every address that was added and not deleted is in the list as it was added or
\* with the fixed port.  DelSvc does not find it in the second form, because no
\* address is deleted with that port.
Backed ==
    \A s \in Svc : \A a \in want[s] :
        \E i \in DOMAIN m[s] : obj[m[s][i]] \in {a, Rewritten(a)}

\* The addresses that were handed out have a port that end hosts listen at.
SentPorts ==
    \A w \in Workers : worker[w].at = "sent" =>
        obj[worker[w].obj].port \in Dispatched \cup {EndhostPort}

\* Packets to a service still find every address that was added and not deleted: no
\* deletion of another address and no rewrite of the shared object (resolveLocalDst
\* changes the port through the pointer that Any returned) loses it.  And they go to
\* an end host port, also when the configured port is not one and while other
\* processors hold the same address.
StillResolvable == Backed /\ SentPorts
=============================================================================
