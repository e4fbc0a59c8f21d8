SPECIFICATION Spec
CONSTANTS
    r1 = r1
    r2 = r2
    ann = ann
    root = root
    t1 = t1
    None = None
    Requests = {r1, r2}
    Users = {ann, root}
    Admins = {root}
    Titles = {t1}
    Spans <- MCSpans
    Periods <- MCPeriods
    Patches <- MCPatches
    LastDay = 12
    FirstDay = 11
    MonthLength = 1
    MaxResults = 1
    MaxCampaigns = 2
    MaxEvents = 2
    MaxSteps = 3
SYMMETRY Slots
INVARIANTS
    TypeOK
    OneCampaignPerEvent
    LinkMatchesStatus
    EventsAccountedFor
    RepeatImportSkips
    PeriodsAgree
CHECK_DEADLOCK FALSE
