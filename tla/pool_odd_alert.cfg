CONSTANTS
    Interfaces = {internal}
    Internal = internal
    NumProcessors = 1
    NumSlowPathProcessors = 1
    BatchSize = 1
    OddAlerts = TRUE
SPECIFICATION Spec
INVARIANTS BuffersConserved
