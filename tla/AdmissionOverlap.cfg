SPECIFICATION Spec

CONSTANTS
    block = block
    peer = peer
    Submitters = {s1}
    Addresses = {a1, a2}
    Codes = {c1}
    Secrets = {x1}
    Tokens = {t1}
    Keys = {k1}
    Values = {peer}
    Rules = {block}
    Shape <- MCShape
    Imported = {}
    Limits <- MCLimits
    DefaultLimit <- MCLow
    NoCap = NoCap
    NoAddress = NoAddress
    NoSubmitter = NoSubmitter
    NoCommand = NoCommand
    Handlers = {h1, h2}
    Windows = {"minute", "day"}
    Length <- MCLength
    MaxTime = 2
    MaxAdmissions = 3
    MaxRejections = 1

SYMMETRY MCSymmetry

INVARIANTS
    TypeOK
    QuotaHolds
    

PROPERTY
    ImplementsLedger

CHECK_DEADLOCK FALSE
