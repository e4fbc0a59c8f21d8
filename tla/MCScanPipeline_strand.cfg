SPECIFICATION SupervisedSpec
CONSTANTS
    s1 = s1
    s2 = s2
    s3 = s3
    w1 = w1
    w2 = w2
    w3 = w3
    NoMsg = NoMsg
    Scans <- TwoValidScans
    Workers <- MCWorkers
    InvalidScans = {}
    MaxRetries = 1
    Faults <- CrashOnly
    ApiFaults = {}
PROPERTIES
    EveryScanSettles
CHECK_DEADLOCK FALSE
