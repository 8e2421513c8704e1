SPECIFICATION Spec

CONSTANTS
    Sources = {s1, s2}
    Projectors = {p1, p2}
    MaxTime = 4
    MaxNow = 3
    MaxSkew = 1
    Truncate <- MCTruncate
    Keep <- MCKeep
    MaxBatch = 1
    MaxCommands = 2
    MaxFaults = 0

INVARIANT
    CountedOnce
