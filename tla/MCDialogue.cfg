SPECIFICATION Spec
CONSTANTS
    None = None
    Keys = {"app_name", "region", "container_type", "container_name", "amount", "github_repo", "memory_key", "enabled"}
    Words = {"a", "b", "osc-fr1", "osc-secnum-fr1", "paris", "broken", "web", "worker", "3", "two", "repo", "region", "maybe", "on"}
    Known = {"app_name", "region", "container_type", "container_name", "amount", "github_repo", "memory_key", "enabled"}
    Regions = {"osc-fr1", "osc-secnum-fr1"}
    Numerals = {"3"}
    Booleans = {"on"}
    Addresses = {"repo"}
    Texts <- MCTexts
    MinConfidence = 45
    MinMargin = 8
    MinEntity = 0
    MaxDoubt = 60
    MaxAttempts = 2
INVARIANTS
    TypeOK
PROPERTIES
    OnlyBadWordsCutOff
    NeverAsksForWhatWasSaid
    TargetIsLastSaid
    ArgumentsAreLastSaid
