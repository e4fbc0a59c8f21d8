SPECIFICATION Spec
CONSTANTS
    s1 = s1
    s2 = s2
    s3 = s3
    w1 = w1
    w2 = w2
    w3 = w3
    NoMsg = NoMsg
    Scans <- OneOfEach
    Workers <- ThreeWorkers
    InvalidScans <- MCInvalidScans
    MaxRetries = 2
    Faults <- EveryFault
    ApiFaults = {"redis", "reply"}
INVARIANTS
    TypeOK
    NoScanVanishes
    OneLiveCopy
    RowsAccountedFor
    ExhaustedAfterEveryTry
PROPERTIES
    RemovedOnlyWhenHandedOver
    DeliverySpec
