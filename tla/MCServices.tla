---------------------------- MODULE MCServices ----------------------------
(* Small instances of Services.  The interesting ports are one that end hosts  *)
(* use, one that they do not, and the fixed port, which is outside the range.  *)
EXTENDS Services

MixedPorts == {31000, 30252}
DispatchedPorts == 31000..31001
=============================================================================
