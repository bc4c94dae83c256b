CONSTANTS
    r1 = r1
    r2 = r2
    osc_fr1 = osc_fr1
    osc_secnum_fr1 = osc_secnum_fr1
    NoClient = NoClient
    NoRegion = NoRegion
    NoRequest = NoRequest
    Requests <- MCRequests
    Regions <- MCRegions
    MaxRetries = 2
    MaxTokens = 2
SPECIFICATION Spec
INVARIANTS CarriedOutOnce
