SPECIFICATION Spec
CONSTANTS
    u1 = u1
    u2 = u2
    t1 = t1
    t2 = t2
    User <- MCUser
    Tab <- MCTab
    MaxCalls = 3
    Plans <- MCPlans
    Between = {}
    OpeningStatus <- MCOpeningStatus
    SignedIn <- MCTab
INVARIANTS
    TypeOK
    RetryCarriesFreshToken
    ShownHasTokens
    NoEviction
PROPERTIES
    EveryCallSettles
    ImplementsAccounts
