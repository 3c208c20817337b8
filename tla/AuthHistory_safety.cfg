SPECIFICATION HSpec
CONSTANTS
    Callers = {c1, c2}
    Flights = {f1, f2, f3}
    None = None
    Slots = 1
    MaxLife = 1
    FailureCooldown = 1
    RejectionCooldown = 2
    MaxRetryAfter = 2
    RetryAfters = {0, 2}
    Ops = {"read", "observe", "mutate"}
SYMMETRY Symmetry
VIEW WithoutDebris
INVARIANT TypeOK
INVARIANT CoordinatorIsCurrent
INVARIANT ReplayBound
INVARIANT WithdrawnTokenStaysOut
PROPERTY LoginRespectsPause
PROPERTY GateSpec
