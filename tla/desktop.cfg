SPECIFICATION FairSpec
CONSTANTS
    MaxRequests = 2
    MaxFaults = 1
    MaxTasks = 1
INVARIANTS TypeOK
PROPERTIES
    StatusSettles
    
CHECK_DEADLOCK FALSE
