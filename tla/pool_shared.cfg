CONSTANTS
    Interfaces = {internal, external}
    Internal = internal
    NumProcessors = 2
    NumSlowPathProcessors = 1
    BatchSize = 1
    OddAlerts = FALSE
SPECIFICATION SpecLive
INVARIANTS TypeOK BuffersConserved ReadsIntoOwnBuffers PoolSuffices
PROPERTY KeepsReceiving
