SPECIFICATION Spec
CONSTANTS
    a = a  b = b  a_sub = a_sub  base = base
    Paths <- NestedPaths
    Parent <- NestedParent
    Base = base
    Threads = {t1, t2}
    Ops = {"set", "release"}
    Sizes = {1536}
    BaseID = 1
    Offset = 2
    MaxID = 6
SYMMETRY ThreadSymmetry
INVARIANTS  DistinctProjects ProbeHarmless
