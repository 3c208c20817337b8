SPECIFICATION FairSpec
CONSTANTS
    Requests = {r1, r2}
    Keys = {k1, k2}
    NoKey = NoKey
    NoRequest = NoRequest
    CacheTtl = 2
    RequestTimeout = 1
    UnknownCooldown = 1
    FailedCooldown = 1
    Long = 3
INVARIANT TypeOK
PROPERTY ProviderIsSpared
PROPERTY KeysFollowProvider
PROPERTY EveryRequestIsAnswered
