SPECIFICATION Spec
CONSTANTS
    Flushers = {f1, f2, f3}
    Stats = {"gpu"}
    MaxItems = 2
    MaxPolls = 1
    Sources = {"docker"}
SYMMETRY FlusherSymmetry
CHECK_DEADLOCK FALSE
INVARIANTS NoStrandedRecords AtMostTwoFlushes LockedSendsOpen EndAfterLog RecordsInOrder
