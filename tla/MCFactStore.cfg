CONSTANTS
    w1 = w1
    w2 = w2
    k1 = k1
    k2 = k2
    v1 = v1
    v2 = v2
    tag = tag
    NoFact = NoFact
    NoOp = NoOp
    NoPayload = NoPayload
    Workers <- MCWorkers
    FactKeys <- MCFactKeys
    Values <- MCValues
    Confidences <- MCConfidences
    Tags <- MCTags
    MaxEvents = 3
    MaxVersion = 2
SPECIFICATION Spec
SYMMETRY MCSymmetry
INVARIANTS TypeOK LogTellsFacts TaggedFactsExist
PROPERTIES OverwriteNeedsOverlap
