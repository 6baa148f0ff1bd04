\* The default multiplier, one slow end, a lost packet, a router that may stay down.
CONSTANTS
  a = a
  b = b
  Nodes <- MCNodes
  DetectMult <- DefaultMult
  DesiredMinTx <- SlowTx
  RequiredMinRx <- MixedRx
  DefaultTx = 4
  DefaultDetect = 5
  QueueSize = 1
  MaxStops = 1
  MaxLoss = 1
  Foreign <- NoForeign
SPECIFICATION SpecLive
PROPERTIES EventuallyUp DeadPeerDetected
