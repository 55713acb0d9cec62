SPECIFICATION MCSpec
CONSTANTS
    p1 = p1
    p2 = p2
    Processes <- TwoProcesses
    MaxIngest = 3
    MaxGenerate = 2
    Documents = {d1}
    Size = 2
    MaxConcurrency = 2
    MaxAttempts = 2
    MaxCalls = 2
    MaxFaults = 1
    Sections = {none, s1}
    MaxTokens = 3
    MaxSpans = 2
    MaxLength = 4
    MaxSize = 4
    Titles = {h1, h2}
    Keys = {x1, x2}
    Names = {n1, n2}
    MaxConcepts = 2
CONSTRAINT OneTrouble
INVARIANTS RowsAgree CurriculumSound SegmentsSound
PROPERTIES DecidedStays UploadSettles CurriculumStands
CHECK_DEADLOCK FALSE
