SPECIFICATION Spec
CONSTANTS
    Schedules = {s1, s2}
    Keys = {k1, k2}
    Answers = {a1, a2}
    Calls = {c1, c2}
    Responders = {r1, r2}
    Batch = 2
    Lifetime = 1
    MaxDay = 2
    MaxUpdates = 3
    MaxDue = 1
    None = None
    Budget = 7
CONSTRAINT WithinBudget
SYMMETRY Symmetry
INVARIANTS OneDelivery AnswersKept
PROPERTIES FirstAnswerStands
CHECK_DEADLOCK FALSE
