SPECIFICATION Spec
CONSTANTS
    LimitKey = {"LOGIN", "REGISTER"}
    MaxRequests <- MCMaxRequests
    Window <- MCWindow
    NoEntry = NoEntry
    Page = {kp1, kp2}
    kp1 = kp1
    kp2 = kp2
    Operation = {"csrfToken", "login", "logout"}
    Token = {1, 2, 3, 4, 5, 6, 7}
    NoToken = NoToken
    kd1 = kd1
    kd2 = kd2
    kd3 = kd3
    DebounceKey = {kd1, kd2, kd3}
    WindowMs <- MCWindowMs
    StoreLimit = 1
    MfaRequest = {km1, km2}
    km1 = km1
    km2 = km2
    Secret = {ks1, ks2, ks3}
    ks1 = ks1
    ks2 = ks2
    ks3 = ks3
    NoSecret = NoSecret
    Client = {kn1, kn2}
    kn1 = kn1
    kn2 = kn2
    Channel = {ka, kb}
    ka = ka
    kb = kb
    MaxAwaiting = 2
    Reader = {kr1, kr2}
    kr1 = kr1
    kr2 = kr2
    Version = {kv1, kv2}
    kv1 = kv1
    kv2 = kv2
    Absent = Absent
    Miss = Miss
    Id = {1, 2, 3}
    Category = {kx, ky}
    kx = kx
    ky = ky
    Difficulty = {kz}
    kz = kz
    Unset = Unset
    Limit <- MCLimit
    DefaultLimit = 2
    Length = {0, 1, 4, 7, 8, 11, 12, 128, 129}
    NoPassword = NoPassword
    MaxDepth = 5
    MaxNesting = 5
    TestName = {kt}
    kt = kt
    Run = {kw1, kw2}
    kw1 = kw1
    kw2 = kw2
    Response = {1, 2, 3}
    Threshold = 1
    NoFile = NoFile
    Torn = Torn
INVARIANTS
    ServicesTypeOK
    AtMostTwoWindows
    FullWhenRefusing
    StatusTellsGate
    DebounceExact
    MfaEnabledProved
    EntriesAreConnected
    AnswersHold
    NoStaleAbsence
    ClearedForGood
    ListedOnce
    OnePolicy
    LoggedByPath
    HealthTruthful
    BaselineIntended
PROPERTIES
    NotLockedOut
    PostsGetThrough
    CacheConverges
    WalkEnds
