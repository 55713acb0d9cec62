SPECIFICATION RelaySpec
CONSTANTS
    r1 = r1
    r2 = r2
    m1 = m1
    m2 = m2
    m3 = m3
    Unowned = Unowned
    Relays <- MCRelays
    Messages <- ThreeMessages
    LeaseOwner <- SharedOwner
    Rank <- MCRank
    Refused <- Refuse2
    BatchSize = 2
    MaxFaults = 2
INVARIANTS PublicationSound
PROPERTIES RefinesPublication NeverStranded
CHECK_DEADLOCK FALSE
