CONSTANTS
    d1 = d1
    d2 = d2
    d3 = d3
    Digests <- MCDigests
    NumRelays = 3
    BatchSize = 2
    None = None
SPECIFICATION Spec
INVARIANTS
    TypeOK
    ResolutionCorrect
CHECK_DEADLOCK FALSE
