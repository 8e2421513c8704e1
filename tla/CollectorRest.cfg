SPECIFICATION FairSpec
CONSTANTS
    c1 = c1
    c2 = c2
    m1 = m1
    m2 = m2
    m3 = m3
    a1 = a1
    NoStamp = NoStamp
    NoMail = NoMail
    Nobody = Nobody
    Gone = Gone
    Collectors = {c1}
    Mails = {m1, m2, m3}
    Decisions = {a1}
    Stamp <- TwoCopiesAndBare
    MaxFaults = 2
PROPERTIES
    EveryEntryIsRecorded
CHECK_DEADLOCK FALSE
