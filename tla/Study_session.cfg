CONSTANTS
  Tabs = {t1, t2}
  Total = 2
  Short = {2}
  Answers = {a1, a2}
  Text = a3
  Loyal = t1
  ConceptOf <- MCConceptOf
  Concepts = {1, 2}
  Learned = {1}
  MaxSessions = 2
  MaxFaults = 1
  MaxResets = 1
  None = None
  Slots = {s1, s2}
SPECIFICATION MCSpec
INVARIANTS AttemptsSound PageSound
PROPERTIES PlacementTold
CHECK_DEADLOCK FALSE
