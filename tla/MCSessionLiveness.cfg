\* Two players, whose graces may end under two firings at a time, and a restart.
SPECIFICATION FairSpec
CONSTANTS
    Peers = {c1, c2}
    Players = {p1, p2}
    MaxPending = 2
    Capacity = 2
    Ticks = {t1, t2}
    Nobody = Nobody
    MaxToken = 1
    MaxRenewals = 0
    MaxRestarts = 1
INVARIANT TokensUsedOnce
PROPERTY GraceEntriesEnd
CHECK_DEADLOCK FALSE
