SPECIFICATION PolicySpec

CONSTANTS
    s1 = s1
    s2 = s2
    a1 = a1
    c1 = c1
    c2 = c2
    k1 = k1
    k2 = k2
    t1 = t1
    t2 = t2
    r1 = r1
    r2 = r2
    example = example
    peer = peer
    low = low
    high = high
    Submitters = {s1, s2}
    Addresses = {a1}
    Codes = {c1, c2}
    Secrets = {x1, x2}
    Tokens = {t1, t2}
    Keys = {k1, k2}
    Values = {example, peer}
    Rules = {r1, r2}
    Shape <- MCShape
    Imported <- MCImported
    Limits = {low, high}
    DefaultLimit = low
    NoCap = NoCap
    NoAddress = NoAddress
    NoSubmitter = NoSubmitter
    NoCommand = NoCommand

SYMMETRY MCSymmetry

INVARIANTS
    PolicyTypeOK
    OnlyVerifiedMailboxesAreActive
    
    AuditChain

PROPERTIES
    ImplementsAudit
    RevocationsLast

CHECK_DEADLOCK FALSE
