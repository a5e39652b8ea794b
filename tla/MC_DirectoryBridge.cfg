CONSTANTS
    MaxLen = 7
    None = None

SPECIFICATION Spec
INVARIANTS
    HeadersSkipped
\* fetch_consensus returns: "done" and "failed" are final states.
CHECK_DEADLOCK FALSE
