SPECIFICATION Spec
CONSTANTS
    c1 = c1
    c2 = c2
    m1 = m1
    m2 = m2
    m3 = m3
    a1 = a1
    NoStamp = NoStamp
    NoMail = NoMail
    Nobody = Nobody
    Gone = Gone
    Collectors = {c1, c2}
    Mails = {m1, m2}
    Decisions = {a1}
    Stamp <- TwoCopies
    MaxFaults = 1
INVARIANTS
    TypeOK
    OneOutcomePerEntry
    StampAdmitsOneEntry
    OnlyVerifiedForwardersAreAddressed
PROPERTIES
    ImplementsIntake
CHECK_DEADLOCK FALSE
