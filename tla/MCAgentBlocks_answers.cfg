SPECIFICATION Spec
CONSTANTS
    Users = {u1, u2}
    Policies = {p1, p2}
    NoPolicy = NoPolicy
    NoUser = NoUser
    Requests = {r1, r2}
    MaxRetries = 1
    FaultKinds = {"graph", "lost", "timeout", "write"}
INVARIANTS
    TypeOK
    AnswersHold
SYMMETRY MCSymmetry
