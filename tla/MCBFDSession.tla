---------------------------- MODULE MCBFDSession ----------------------------
(* Instances of BFDSession for TLC: two sessions with given parameters. *)
EXTENDS BFDSession, TLC

CONSTANTS a, b

MCNodes == {a, b}
DefaultMult == [n \in {a, b} |-> 3]
EqualMult == [n \in {a, b} |-> 2]
MixedMult == (a :> 2) @@ (b :> 1)
MixedRx == (a :> 2) @@ (b :> 3)
FastTx == [n \in {a, b} |-> 2]
MixedTx == (a :> 2) @@ (b :> 3)
SlowTx == (a :> 6) @@ (b :> 2)
NoForeign == {}
OneForeign == {b}
=============================================================================
