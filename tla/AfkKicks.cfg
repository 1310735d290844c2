SPECIFICATION Spec
CONSTANTS
    Players = {p1, p2, p3}
    Bots = {}
    Immune = {}
    Deaths = 1
    Idle = 1
    LastChance = 1
    MinHumans = 1
    Throttle = 1
    MaxTime = 6
INVARIANT NeverBelowMinHumans
CHECK_DEADLOCK FALSE
