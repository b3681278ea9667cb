CONSTANTS
    Gid = {g1, g2, g3}
    MaxClock = 2
    MaxOps = 2
    MaxOvc = 1
    MaxBreak = 2
SPECIFICATION SpecMesh
CHECK_DEADLOCK FALSE
SYMMETRY Symmetry
CONSTRAINT Explored
INVARIANTS TypeOK NoResurrection Convergence
PROPERTY StableBeforeGc
