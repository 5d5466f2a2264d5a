SPECIFICATION Spec
CONSTANTS
    c1 = c1  c2 = c2  log1 = log1  log2 = log2  shared = shared
    Containers <- OneContainer
    Path <- OnePath
    AutoMount = {log1}
    Watchers = {w1, w2}
    MaxLines = 2
    MaxEvents = 1
    Faults = {"filebeat", "error"}
CHECK_DEADLOCK FALSE
INVARIANT RemovalAfterRead
