SPECIFICATION FairSpec
CONSTANTS
    r1 = r1
    r2 = r2
    d1 = d1
    d2 = d2
    w1 = w1
    w2 = w2
    p1 = p1
    p2 = p2
    NoOwner = NoOwner
    NoDelivery = NoDelivery
    NoRun = NoRun
    Runs = {r1}
    Deliveries = {d1}
    Addressed = {d1}
    Workers = {w1}
    Reporters = {p1, p2}
    Owners = {w1, p1, p2}
    MaxAttempts = 3
    MaxCrashes = 1
INVARIANTS
    TypeOK
    AtMostOneReply
    ClosedRunsAreTruthful
    RecordBindsOneBundle
    ReportPhaseHasAnalysis
    EventsFollowState
PROPERTIES
    
    ImplementsTrail
    RunsComeToRest
CHECK_DEADLOCK FALSE
