---------------------------- MODULE MCBeaconing ----------------------------
(***************************************************************************)
(* Core AS C1 with two links to A, B below A, and a second core AS C2 that *)
(* could send the beacons of C1 back to it.                                *)
(***************************************************************************)
EXTENDS Beaconing

MCFrom == [l1 |-> "C1", l2 |-> "C1", l3 |-> "A", k1 |-> "C1", k2 |-> "C2"]
MCTo == [l1 |-> "A", l2 |-> "A", l3 |-> "B", k1 |-> "C2", k2 |-> "C1"]
MCTasks == {<<"originate", "C1">>, <<"propagate", "A">>, <<"propagate", "C2">>,
            <<"up", "B">>, <<"down", "B">>}
=============================================================================
