CONSTANTS
    Cap = 3
    Data = {d1, d2}
    Writers = {w1, w2}
    Readers = {r1}
    MaxBatch = 2
SPECIFICATION SpecLive
INVARIANTS TypeOK NoLostWakeup
PROPERTIES ImplementsQueue CloseReleasesAll
