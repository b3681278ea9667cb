CONSTANTS
    Gid = {g1, g2}
    MaxClock = 2
    MaxOps = 2
    MaxOvc = 0
    MaxBreak = 0
SPECIFICATION SpecEvict
CHECK_DEADLOCK FALSE
PROPERTY EvictionStaysLocal
