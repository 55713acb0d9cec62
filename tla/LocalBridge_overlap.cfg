SPECIFICATION Spec
CONSTANTS
    NoJob = NoJob
    Jobs = {j1, j2}
    Polls = {p1, p2}
INVARIANTS
    OneHostLease
CHECK_DEADLOCK FALSE
