SPECIFICATION ExternalSpec
CONSTANTS
    Segments = 2
    MaxPolls = 2
    InChunks = 3
    OutChunks = 3
    MaxStrays = 2
    None = None
    NoJob = NoJob
    Jobs = {j1, j2, j3}
    Polls = {p1}
INVARIANTS ExecutionsHeld CallsSound
PROPERTIES ExecutionSettles CallsEnd
CHECK_DEADLOCK FALSE
