SPECIFICATION Spec
CONSTANTS
    r1 = r1
    r2 = r2
    ann = ann
    calendar = calendar
    analytics = analytics
    None = None
    Users = {ann}
    Providers = {calendar, analytics}
    Requests = {r1, r2}
    MaxConsents = 2
    MaxTokens = 3
SYMMETRY Interchangeable
INVARIANTS
    TypeOK
    OwnTokens
    ConnectedAsAsked
    StoredRefreshWorks
PROPERTY RefreshTokenKept
CHECK_DEADLOCK FALSE
