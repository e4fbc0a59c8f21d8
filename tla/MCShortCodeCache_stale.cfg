SPECIFICATION Spec
CONSTANTS
    Writers = {w1}
    Readers = {r1}
    MaxWrites = 1
    RedisFails = FALSE
    None = None
INVARIANTS
    CoherentAtRest
CHECK_DEADLOCK FALSE
