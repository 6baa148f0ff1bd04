--------------------------- MODULE MCForwarding ---------------------------
(* Two core ASes, c1 and c2, with children a and b that peer with each other,  *)
(* and grandchildren d, e (of a) and f (of b).  c1 and a have two routers, so  *)
(* that packets change router at a cross-over, at a peering link and within a  *)
(* segment:                                                                    *)
(*                                                                             *)
(*        c1 ------ c2             c1: 1 core, 2 child                         *)
(*        |          |             c2: 1 core, 2 child                         *)
(*        a -------- b             a:  1 parent, 2 peer, 3 and 4 child         *)
(*       / \         |             b:  1 parent, 2 peer, 3 child               *)
(*      d   e        f                                                         *)
EXTENDS Forwarding

Links == {<<<<"c1", 1>>, <<"c2", 1>>, "core", "core">>,
          <<<<"c1", 2>>, <<"a", 1>>, "child", "parent">>,
          <<<<"c2", 2>>, <<"b", 1>>, "child", "parent">>,
          <<<<"a", 2>>, <<"b", 2>>, "peer", "peer">>,
          <<<<"a", 3>>, <<"d", 1>>, "child", "parent">>,
          <<<<"a", 4>>, <<"e", 1>>, "child", "parent">>,
          <<<<"b", 3>>, <<"f", 1>>, "child", "parent">>}

Ends == {l[1] : l \in Links} \cup {l[2] : l \in Links}

MCLinkType == [i \in Ends |-> IF \E l \in Links : l[1] = i
                                THEN (CHOOSE l \in Links : l[1] = i)[3]
                                ELSE (CHOOSE l \in Links : l[2] = i)[4]]
MCRemote == [i \in Ends |-> IF \E l \in Links : l[1] = i
                              THEN (CHOOSE l \in Links : l[1] = i)[2]
                              ELSE (CHOOSE l \in Links : l[2] = i)[1]]

\* The second router of c1 and of a.
SecondRouter == {<<"c1", 2>>, <<"a", 2>>, <<"a", 4>>}
MCRouterOf == [i \in Ends |-> <<i[1], IF i \in SecondRouter THEN 2 ELSE 1>>]

MCDownBeacons == {[id |-> "ad", exits |-> <<<<"c1", 2>>, <<"a", 3>>>>],
                  [id |-> "ae", exits |-> <<<<"c1", 2>>, <<"a", 4>>>>],
                  [id |-> "a", exits |-> <<<<"c1", 2>>>>],
                  [id |-> "b", exits |-> <<<<"c2", 2>>>>],
                  [id |-> "bf", exits |-> <<<<"c2", 2>>, <<"b", 3>>>>]}
MCCoreBeacons == {[id |-> "c12", exits |-> <<<<"c1", 1>>>>], [id |-> "c21", exits |-> <<<<"c2", 1>>>>]}

\* Hop fields that last, and hop fields of c1 that have expired at time 1.
LongLived == [ia \in {i[1] : i \in Ends} |-> 5]
ShortLived == [LongLived EXCEPT !["c1"] = 0]

AllBackends == {"c1", "c2", "a", "b", "d", "e", "f"}
SomeBackends == AllBackends \ {"d", "c2"}
=============================================================================
