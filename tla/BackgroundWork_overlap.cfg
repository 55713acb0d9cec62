SPECIFICATION WorkSpec
CONSTANTS
    Operators = {w1, w2}
    LeaseOwner <- MCLeaseOwner
    Requests <- MCRequests
    Copies = {c1, c2}
    NoCopy = NoCopy
    NoOwner = NoOwner
    BatchSize = 2
    Attempts = {1, 2, 3}
    MaxLedger = 2
    MaxDayOffset = 3
    Judgments = {"partial", "right", "ineligible"}
    Overrides = {"o1"}
    None = None
SYMMETRY Symmetry
INVARIANTS AuditTells RecordedIsSeen ScheduleFollows
CHECK_DEADLOCK FALSE
