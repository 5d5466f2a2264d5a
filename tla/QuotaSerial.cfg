SPECIFICATION Spec
CONSTANTS
    a = a  b = b  a_sub = a_sub  base = base
    Paths <- FlatPaths
    Parent <- FlatParent
    Base = base
    Threads = {t1}
    Ops = {"set"}
    Sizes = {100, 512, 1536}
    BaseID = 0
    Offset = 2
    MaxID = 5
INVARIANT QuotaHonoured
