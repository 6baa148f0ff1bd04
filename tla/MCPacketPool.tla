--------------------------- MODULE MCPacketPool ---------------------------
(* The instances are in the configurations.  pool_shared: two interfaces and   *)
(* two processors that share one slow-path processor, batches of one.          *)
(* pool_odd_alert: one interface, one processor of each kind, batches of one,  *)
(* and packets with unexpected router alerts.                                  *)
EXTENDS PacketPool
=============================================================================
