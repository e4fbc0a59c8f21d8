SPECIFICATION Spec
CONSTANTS
    ann = ann
    root = root
    c1 = c1
    r1 = r1
    r2 = r2
    acme = acme
    Unnamed = Unnamed
    None = None
    Users = {ann, root}
    Companies = {acme}
    Principals <- MCPrincipals
    Codes = {c1}
    MaxAttempts = 2
    Requests = {r1, r2}
    MaxQrs = 2
    MaxCampaigns = 1
SYMMETRY Interchangeable
INVARIANTS
    TypeOK
    CodeKeepsItsQr
    LosesCodeOnlyByRace
    InOwnCampaign
PROPERTY CreationAdvances
