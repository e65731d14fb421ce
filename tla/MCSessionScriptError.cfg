SPECIFICATION Spec
CONSTANTS
    Peers = {c1, c2}
    Players = {p1, p2}
    MaxPending = 2
    Capacity = 2
    Ticks = {t1, t2}
    Nobody = Nobody
    MaxToken = 1
    MaxRenewals = 0
    MaxRestarts = 0
SYMMETRY Symmetry
INVARIANT NoScriptError
CHECK_DEADLOCK FALSE
