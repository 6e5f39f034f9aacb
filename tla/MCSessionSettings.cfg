CONSTANTS
    s1 = s1
    s2 = s2
    c1 = c1
    c2 = c2
    v1 = v1
    v2 = v2
    Sessions = {s1, s2}
    Conns = {c1, c2}
    Replicas = {1}
    Vals = {v1, v2}
    Dedicated = {}
    Queried <- OrdinaryQueries
    Parsed <- OrdinaryParsed
    SettingsOutsideTransactions = TRUE
    MaxLsn = 1
SPECIFICATION Spec
SYMMETRY MCSymmetry
INVARIANT SettingsAreTheSessionsOwn
CHECK_DEADLOCK FALSE
