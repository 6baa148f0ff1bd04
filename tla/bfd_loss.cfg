\* Different parameters and implementations at the two ends, lost packets, one restart.
CONSTANTS
  a = a
  b = b
  Nodes <- MCNodes
  DetectMult <- MixedMult
  DesiredMinTx <- MixedTx
  RequiredMinRx <- MixedRx
  DefaultTx = 4
  DefaultDetect = 5
  QueueSize = 1
  MaxStops = 1
  MaxLoss = 2
  Foreign <- OneForeign
SPECIFICATION Spec
INVARIANTS TypeOK HandshakeGrounded
PROPERTIES DownOnlyForCause
