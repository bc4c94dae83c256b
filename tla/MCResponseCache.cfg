SPECIFICATION FairSpec
CONSTANTS
    k1 = k1
    k2 = k2
    t1 = t1
    t2 = t2
    p1 = p1
    p2 = p2
    Keys = {k1, k2}
    Tags = {t1, t2}
    PathTag <- MCPathTag
    TagSets <- MCTagSets
    Prefixes <- MCPrefixes
    Sizes = {1, 2}
    MaxSize = 1
    MaxMemory = 2
    Fillers = {p1}
    Writers = {p2}
    Cleaners = {"a", "b"}
    MaxVersion = 1
    MaxTotal = 3
    NoEntry = NoEntry
INVARIANTS
    TypeOK
    IndexTellsEntries
    AccountedInFull
    
PROPERTIES
    CleanupKeepsLimits
    CleanersEnd
