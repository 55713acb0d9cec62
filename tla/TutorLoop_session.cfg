SPECIFICATION TutorSpec
CONSTANTS
    Tabs = {t1, t2}
    Asks = {a1, a2}
    Concepts = {"c1"}
    Order <- MCOrder
    Questions <- MCQuestions
    Lessons = {"l1", "l2", "l3"}
    Strategy <- MCStrategy
    Original <- MCOriginal
    Similar <- MCSimilar
    AskKeys = {"k1"}
    Spans = {"s1"}
    MasteryAfter <- MCMasteryAfter
    Threshold = 1
    MaxReteaches = 2
    Null = Null
    MaxAttempts = 4
SYMMETRY MCSymmetry
CONSTRAINT WithinBudget
INVARIANTS ToldIsRecorded LoopSound
PROPERTIES RecordsStand
CHECK_DEADLOCK FALSE
