SPECIFICATION Runs
CONSTANTS
    Gid = {1, 2, 3}
    MaxClock = 2
INVARIANTS
    ContentHeld
    TraversalsExact
    CopiesSame
    FilesLoadWhole
PROPERTIES
    ImplementsClocks
    BlockedServed
