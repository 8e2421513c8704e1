SPECIFICATION FairSpec

CONSTANTS
    r1 = r1
    r2 = r2
    r3 = r3
    Runs = {r1, r2, r3}
    Keys = {1, 2, 3}
    KeysOf <- MCKeysOf
    Projectors = {p1, p2}
    Operator = Operator
    NoCampaign = NoCampaign
    MaxBatch = 2
    MaxEvents = 1

INVARIANTS
    TypeOK
    MembersShareKeys
    GroupsAreDistinct
    SupersessionEnds

PROPERTIES
    RebuildsRepair
    ItemsAreClosed

CHECK_DEADLOCK FALSE
