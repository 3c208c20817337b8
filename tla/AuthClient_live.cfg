SPECIFICATION FairSpec
CONSTANTS
    Callers = {c1, c2}
    Flights = {f1, f2, f3}
    None = None
    Slots = 1
    MaxLife = 1
    FailureCooldown = 1
    RejectionCooldown = 1
    MaxRetryAfter = 1
    RetryAfters = {0}
    Ops = {"observe"}
PROPERTY EveryCallerIsAnswered
