SPECIFICATION FairSpec
CONSTANTS
    Flushers = {f1, f2}
    Stats = {"gpu", "res"}
    MaxItems = 1
    MaxPolls = 0
    Sources = {"docker", "minio"}
CHECK_DEADLOCK FALSE
PROPERTIES LogDelivered 
