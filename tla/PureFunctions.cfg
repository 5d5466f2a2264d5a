SPECIFICATION FunctionsSpec
CONSTANTS
    MaxInt = 4
    LabelNames <- MCLabelNames
    Topics <- MCTopics
    MaxCardNum = 2
    MaxDeviceNum = 2
INVARIANTS
    RangeOK
    
    
    
    SavedOK
