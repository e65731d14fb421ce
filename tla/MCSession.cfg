\* Three connections of one player, two at a time, with the lease timer.
SPECIFICATION Spec
CONSTANTS
    Peers = {c1, c2, c3}
    Players = {p1}
    MaxPending = 2
    Capacity = 2
    Ticks = {t1}
    Nobody = Nobody
    MaxToken = 2
    MaxRenewals = 1
    MaxRestarts = 0
SYMMETRY Symmetry
CONSTRAINT Bounded
INVARIANTS SessionInv OneCommitter TokensUsedOnce InGameOrInGrace
CHECK_DEADLOCK FALSE
