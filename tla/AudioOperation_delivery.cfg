SPECIFICATION Spec
CONSTANTS
    w1 = w1
    w2 = w2
    c1 = c1
    c2 = c2
    NoOwner = NoOwner
    NoCopy = NoCopy
    Workers <- MCWorkers
    Owner <- SharedOwner
    Copies <- TwoCopies
    MaxDeliveries = 2
    MaxPushes = 3
INVARIANTS AttemptsAgree OneEffect
PROPERTIES RefinesDurable Settles
CHECK_DEADLOCK FALSE
