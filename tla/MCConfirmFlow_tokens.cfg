CONSTANTS
    w1 = w1
    w2 = w2
    t1 = t1
    t2 = t2
    alice = alice
    bob = bob
    app1 = app1
    app2 = app2
    par = par
    mars = mars
    NoValue = NoValue
    NoGrant = NoGrant
    NoTurn = NoTurn
    NoToken = NoToken
    Workers <- MCWorkers
    Clients <- OneClient
    SessionOf <- MCSessionOf
    UserOf <- MCUserOf
    Tokens <- MCTokens
    Values <- MCValues
    Regions <- MCRegions
    MessagesOf <- MCMessagesOf
SPECIFICATION Spec
SYMMETRY MCSymmetry
INVARIANTS TypeOK AuthorisedExecution AtMostOncePerWorker ExecutedTokenIsSpent
PROPERTIES ConsumedTokenExecutes ImplementsConfirmedExecution
