SPECIFICATION QuicklistRuns
CONSTANTS
    Gid = {1, 2, 3}
    MaxClock = 2
INVARIANTS
    EndsUncompressed
