SPECIFICATION Spec
CONSTANTS
    c1 = c1  c2 = c2  log1 = log1  log2 = log2  shared = shared
    Containers <- TwoContainers
    Path <- SharedPath
    AutoMount = {}
    Watchers = {w1}
    MaxLines = 1
    MaxEvents = 1
    Faults = {"crash"}
CHECK_DEADLOCK FALSE
SYMMETRY ContainerSymmetry
INVARIANTS TypeOK RunningCollected 
