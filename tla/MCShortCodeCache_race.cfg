SPECIFICATION FairSpec
CONSTANTS
    Writers = {w1, w2}
    Readers = {r1, r2}
    MaxWrites = 3
    RedisFails = TRUE
    None = None
INVARIANTS
    TypeOK
    CacheSound
    StaleOnlyByRace
PROPERTIES
    DeletedIsFinal
    OneColumnPerCommit
    EventuallyCoherent
CHECK_DEADLOCK FALSE
