CONSTANTS
    Validation <- MCValidation
    Slug <- MCSlug
    o1 = o1  o2 = o2  o3 = o3
    Object = {o1, o2, o3}
    None = None
    CriticalThreshold = 1
    HighThreshold = 1
    TotalThreshold = 2
    Cooldown = 2
    Hour = 2
    Day = 2
    Nine = 1
    Retention = 3
SYMMETRY Symmetry
SPECIFICATION Spec
INVARIANTS
    TypeOK
    HistoryTracked
PROPERTIES
    ListedUntilResolved
    NoAlertStarved
