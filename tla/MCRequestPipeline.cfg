SPECIFICATION Spec
CONSTANTS
    Requests = {r1, r2}
    Clients = {c}
    Workers = {w}
    MaxRequests = 2
    Window = 2
    Life = 2
    MaxTime = 2
    MaxFailures = 1
    Failures <- MCFailures
    Nobody = Nobody
SYMMETRY Symmetry
INVARIANTS
    TypeOK
    AdmissionsAreBounded
    ContextIsExplained
