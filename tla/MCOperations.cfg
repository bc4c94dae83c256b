SPECIFICATION Spec
CONSTANTS
    Probes = {p1, p2}
    KeyLife = 1
    MaxTime = 1
    Patience = 1
    Underway <- MCUnderway
    Endings = {"success", "aborted"}
INVARIANTS
    TypeOK
    ReportsAreExplained
    OneOutcome
PROPERTIES
    PollingEnds
