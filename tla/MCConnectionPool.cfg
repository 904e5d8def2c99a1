CONSTANTS
    c1 = c1  c2 = c2  c3 = c3
    Call = {c1, c2, c3}
    FailureThreshold = 3
    ResetTimeout = 2
    PoolSize = 2
    Null = Null
SPECIFICATION FairSpec
INVARIANTS
    TypeOK
    StateMatchesCount
    HalfOpenIsRested
PROPERTIES
    KeepsContract
    Recovers
