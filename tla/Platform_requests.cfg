SPECIFICATION PlatformSpec
CONSTANTS
    Requests = {r1, r2, r3}
    Links = {1, 2, 3}
    Sessions = {1, 2, 3, 4}
    LinkLife = 1
    IdleLife = 2
    AbsoluteLife = 2
    RecentAuth = 1
    Window = 1
    DestinationLimit = 2
    Day = 1
    DailyLimit = 1
    TotalLimit = 1
    MaxTime = 1
    MaxInFlight = 2
    MaxFaults = 1
    Routes = {"magic-link", "redeem", "logout", "deletion-start"}
    Configured = {"accounts", "sessions", "privateAssets", "delivery"}
    Keys = {"k1", "k2"}
    Concepts = {"c1", "c2"}
    Questions <- MCQuestions
    ConceptsOf <- MCConceptsOf
    Pool <- MCPool
    Generated <- MCGenerated
    Commands <- MCCommands
    MaxRetries = 1
    Readers = {g1, g2}
    Scale = 10
    Objectives = {"o1", "o2"}
    WeightOf <- MCWeights
    Numbers = {1, 2}
    MappingSets <- MCMappings
    Masteries = {3, 10}
    Calibrations <- MCCalibrations
    MaxGenerations = 2
    MaxChanges = 3
    Null = Null
SYMMETRY Symmetry
INVARIANTS SignInSound AnswersSound GradesSound ScoresSound
CHECK_DEADLOCK FALSE
