SPECIFICATION WebSpec
CONSTANTS
    Courses = {c1, c2}
    NoCourse = NoCourse
    RequestIds = {s1, s2}
    Uploads = {1, 2, 3}
    Submits = {f1, f2}
    MaxMoves = 4
    MaxLosses = 1
INVARIANTS DashboardSound
PROPERTIES AnswersArrive
CHECK_DEADLOCK FALSE
