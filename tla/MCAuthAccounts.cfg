\* The requests of a behaviour; r1 is an account that exists at the start.
CONSTANTS
    r1 = r1  r2 = r2  r3 = r3  r4 = r4
    Request = {r1, r2, r3, r4}
    Registered = {r1}
    e1 = e1  p1 = p1
    Email = {e1}
    Password = {p1}
    StubEmail = e1
    None = None
SPECIFICATION FairSpec
INVARIANTS
    UniqueEmail
    ReferencesLive
PROPERTIES
    KeepsAccountContract
    EveryRequestAnswered
\* Every request is one-shot: the system stops when all are answered.
CHECK_DEADLOCK FALSE
