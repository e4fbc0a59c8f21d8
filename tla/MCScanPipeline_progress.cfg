SPECIFICATION FairSpec
CONSTANTS
    s1 = s1
    s2 = s2
    s3 = s3
    w1 = w1
    w2 = w2
    w3 = w3
    NoMsg = NoMsg
    Scans <- MCScans
    Workers <- MCWorkers
    InvalidScans <- MCInvalidScans
    MaxRetries = 1
    Faults <- OneReliableWorker
    ApiFaults = {}
PROPERTIES
    SettlesUnlessWorkerLost
    QueueDrains
CHECK_DEADLOCK FALSE
