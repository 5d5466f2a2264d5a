SPECIFICATION Spec
CONSTANTS
    c1 = c1  c2 = c2  log1 = log1  log2 = log2  shared = shared
    Containers <- OneContainer
    Path <- OnePath
    AutoMount = {log1}
    Watchers = {w1}
    MaxLines = 1
    MaxEvents = 1
    Faults = {"restart"}
CHECK_DEADLOCK FALSE
INVARIANT RunningCollected
