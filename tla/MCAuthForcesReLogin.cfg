\* The requests of a behaviour; r1 is an account that exists at the start.
CONSTANTS
    r1 = r1  r2 = r2  r3 = r3  r4 = r4
    Request = {r1, r2, r3, r4}
    Registered = {r1}
    e1 = e1  p1 = p1  p2 = p2
    Email = {e1}
    Password = {p1, p2}
    StubEmail = e1
    None = None
SYMMETRY Symmetry
SPECIFICATION Spec
INVARIANTS
    ForcesReLogin
\* Every request is one-shot: the system stops when all are answered.
CHECK_DEADLOCK FALSE
