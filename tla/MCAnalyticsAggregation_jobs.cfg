SPECIFICATION Spec
CONSTANTS
    s1 = s1
    s2 = s2
    s3 = s3
    home = home
    NoIp = NoIp
    Scans <- MCScans
    Ip <- MCIp
    DayLength = 3
    Window = 1
    Interval = 1
    DailyAt = 1
    Horizon = 4
INVARIANTS
    TypeOK
    NeverOvercounts
SYMMETRY SameAddress
PROPERTIES
    ExactDayStays
    DailyOncePerDay
CHECK_DEADLOCK FALSE
